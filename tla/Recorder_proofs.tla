-------------------------- MODULE Recorder_proofs --------------------------
(***************************************************************************)
(* Proofs about the episode recorder, for every number of episodes, frames *)
(* and batch: first one session (EpisodeRecorder), then any number of them *)
(* on one folder (RecorderSessions). Within a session saved episodes are   *)
(* whole because the buffer, what is queued and what is being saved always *)
(* hold as many frames as are counted; the dataset is finalized last, and  *)
(* the recorder implements EpisodeLog, because the item that ends the save *)
(* thread is the last of its queue. Over sessions, with failing saves, an  *)
(* abandoned wait, kills and interrupted teardowns, the inductive          *)
(* invariant counts: frames in what is handed over, episodes whose video   *)
(* is still to come, and episodes on their way between the counter and the *)
(* dataset.                                                                *)
(***************************************************************************)
EXTENDS RecorderSessions, TLAPS

Item == [idx : Nat, n : Nat, buf : Buffer]

\* No more videos are to come than there are episodes.
Counted == unencoded <= Len(dataset) /\ flushing <= Len(dataset)

\* A buffer holds the frames counted for its episode.
Whole ==
  /\ buffer.n = IF recording THEN frames ELSE 0
  /\ \A i \in DOMAIN queue : queue[i].buf.n = queue[i].n
  /\ item.buf.n = item.n
  /\ SavedWhole

\* What the phases say of the save thread when it is waited for.
Draining ==
  /\ \A i \in DOMAIN queue : queue[i] = Pill => i = Len(queue) /\ phase = "join"
  /\ worker \in {"none", "ended"} => queue = <<>>
  /\ worker = "ended" => phase \notin {"spin", "stop"}
  /\ FinalizedLast

USE RecorderAssumption

-----------------------------------------------------------------------------
(* Sequences *)

\* An item appended to a queue is its last.
LEMMA AppendFacts ==
  ASSUME NEW S, NEW s \in Seq(S), NEW x \in S
  PROVE  /\ Append(s, x) \in Seq(S)
         /\ Len(Append(s, x)) = Len(s) + 1
         /\ DOMAIN Append(s, x) = 1..Len(s) + 1
         /\ \A i \in DOMAIN s : Append(s, x)[i] = s[i]
         /\ Append(s, x)[Len(s) + 1] = x
  OBVIOUS

\* The head and the tail of a queue that is not empty.
LEMMA TailFacts ==
  ASSUME NEW S, NEW s \in Seq(S), s # <<>>
  PROVE  /\ Head(s) \in S /\ Head(s) = s[1]
         /\ Tail(s) \in Seq(S)
         /\ Len(s) \in Nat \ {0}
         /\ Len(Tail(s)) = Len(s) - 1
         /\ DOMAIN s = 1..Len(s)
         /\ \A i \in DOMAIN Tail(s) : i + 1 \in DOMAIN s /\ Tail(s)[i] = s[i + 1]
  OBVIOUS

\* The items of the recorder, and what an empty queue is.
LEMMA ItemFacts ==
  /\ Pill \in Item /\ Pill.buf.n = 0 /\ Pill.n = 0
  /\ \A ep \in Nat : Fresh(ep) \in Buffer /\ Fresh(ep).n = 0 /\ Fresh(ep).ep = ep
  /\ <<>> \in Seq(Item) /\ Len(<<>>) = 0 /\ DOMAIN <<>> = {}
  BY DEF Pill, Item, Buffer, Fresh

\* A frame more in a buffer.
LEMMA OneFrameMore ==
  ASSUME NEW b \in Buffer
  PROVE  /\ b.n \in Nat
         /\ [b EXCEPT !.n = b.n + 1] \in Buffer
         /\ [b EXCEPT !.n = b.n + 1].n = b.n + 1
  BY DEF Buffer

\* stop() counts the last frame in the buffer and in the length alike, then drops or queues.
LEMMA StopEnds ==
  ASSUME TypeOK, Stop
  PROVE  \E n \in Nat, b \in Buffer :
           /\ \/ n = frames /\ b.n = buffer.n
              \/ n = frames + 1 /\ b.n = buffer.n + 1
           /\ frames' = n
           /\ Discard \/ (n >= MinFrames /\ HandOver(n, b))
<1>1. PICK added \in BOOLEAN :
        LET n == frames + (IF added THEN 1 ELSE 0) IN
          /\ frames' = n
          /\ IF n < MinFrames THEN Discard
             ELSE HandOver(n, IF added THEN [buffer EXCEPT !.n = @ + 1] ELSE buffer)
  BY DEF Stop
<1>2. CASE added
  <2> DEFINE b == [buffer EXCEPT !.n = buffer.n + 1]
  <2>1. b \in Buffer /\ b.n = buffer.n + 1 /\ buffer.n \in Nat
    BY OneFrameMore DEF TypeOK
  <2>2. frames + 1 \in Nat /\ frames' = frames + 1 /\ (Discard \/ (frames + 1 >= MinFrames /\ HandOver(frames + 1, b)))
    BY <1>1, <1>2 DEF TypeOK
  <2> HIDE DEF b
  <2> QED
    BY <2>1, <2>2
<1>3. CASE ~added
  <2>1. frames \in Nat /\ frames' = frames /\ (Discard \/ (frames >= MinFrames /\ HandOver(frames, buffer)))
    BY <1>1, <1>3 DEF TypeOK
  <2> QED
    BY <2>1 DEF TypeOK
<1> QED
  BY <1>2, <1>3

-----------------------------------------------------------------------------
(* Types *)

\* Every step keeps the types; the counts keep the ranges of videos inside the dataset.
LEMMA TypeStep ==
  ASSUME TypeOK, Counted, [Next \/ SaveFailed]_vars
  PROVE  TypeOK'
<1> USE DEF TypeOK
<1>0. /\ Total \in Nat /\ Len(dataset) \in Nat /\ DOMAIN dataset = 1..Len(dataset)
  BY DEF Total, Item
<1>1. CASE SpinEnds \/ Joined
  BY <1>1 DEF SpinEnds, Joined, recVars, saveVars
<1>2. CASE Start
  BY <1>2, <1>0, ItemFacts DEF Start, saveVars
<1>3. CASE Saved
  <2> DEFINE x == [idx |-> item.idx, n |-> item.n, buf |-> item.buf]
  <2>1. x \in [idx : Nat, n : Nat, buf : Buffer]
    OBVIOUS
  <2>2. dataset' = Append(dataset, x)
    BY <1>3 DEF Saved
  <2> HIDE DEF x
  <2>3. /\ dataset' \in Seq([idx : Nat, n : Nat, buf : Buffer])
        /\ DOMAIN dataset' = 1..Len(dataset) + 1
    BY <2>1, <2>2, AppendFacts
  <2>4. unencoded' \in 0..Batch - 1
    BY <1>3 DEF Saved
  <2>5. videos' \subseteq 1..Len(dataset) + 1
    <3>1. \/ videos' = videos
          \/ videos' = videos \cup (Len(dataset) + 1 - unencoded)..(Len(dataset) + 1)
      BY <1>3 DEF Saved
    <3>2. (Len(dataset) + 1 - unencoded)..(Len(dataset) + 1) \subseteq 1..Len(dataset) + 1
      BY <1>0 DEF Counted
    <3> QED
      BY <3>1, <3>2, <1>0
  <2> QED
    BY <1>3, <2>3, <2>4, <2>5 DEF Saved, recVars
<1>4. CASE Finalize
  BY <1>4 DEF Finalize, recVars
<1>5. CASE Encode
  <2>1. (Len(dataset) + 1 - flushing)..Len(dataset) \subseteq 1..Len(dataset)
    BY <1>0 DEF Counted
  <2>2. videos' \subseteq DOMAIN dataset'
    BY <1>5, <2>1, <1>0 DEF Encode
  <2> QED
    BY <1>5, <2>2 DEF Encode, recVars
<1>6. CASE OnImage
  <2>1. buffer' \in Buffer
    BY <1>6, OneFrameMore DEF OnImage
  <2>2. frames' \in Nat
    <3>1. frames' \in {frames, frames + 1}
      BY <1>6 DEF OnImage
    <3> QED
      BY <3>1
  <2> QED
    BY <1>6, <2>1, <2>2 DEF OnImage, saveVars
<1>7. CASE Stop
  <2>1. PICK n \in Nat, b \in Buffer : frames' = n /\ (Discard \/ HandOver(n, b))
    BY <1>7, StopEnds
  <2> DEFINE x == [idx |-> episode, n |-> n, buf |-> b]
  <2>2. x \in [idx : Nat, n : Nat, buf : Buffer]
    OBVIOUS
  <2>5. /\ recording' = FALSE /\ pending' = FALSE
        /\ UNCHANGED <<phase, opened, episode, item, dataset, unencoded, videos, flushing>>
    BY <1>7 DEF Stop
  <2>3. CASE Discard
    <3>1. buffer' = Fresh(next) /\ UNCHANGED <<next, queue, worker>>
      BY <2>3 DEF Discard
    <3>2. buffer' \in Buffer
      BY <3>1, ItemFacts
    <3> QED
      BY <2>5, <2>1, <2>2, <3>1, <3>2
  <2>4. CASE HandOver(n, b)
    <3>1. queue' = Append(queue, x) /\ next' = next + 1 /\ buffer' = Fresh(next + 1)
      BY <2>4 DEF HandOver
    <3> HIDE DEF x
    <3>2. queue' \in Seq([idx : Nat, n : Nat, buf : Buffer])
      BY <2>2, <3>1, AppendFacts
    <3>3. worker' \in {"none", "waiting", "saving", "ended"}
      BY <2>4 DEF HandOver
    <3>4. next + 1 \in Nat
      OBVIOUS
    <3>5. buffer' \in Buffer /\ next' \in Nat
      BY <3>1, <3>4, ItemFacts
    <3> QED
      BY <2>5, <2>1, <3>2, <3>3, <3>5
  <2> QED
    BY <2>1, <2>3, <2>4
<1>8. CASE EndSaves
  <2>1. queue' \in Seq([idx : Nat, n : Nat, buf : Buffer])
    <3>1. Append(queue, Pill) \in Seq(Item)
      BY ItemFacts, AppendFacts DEF Item
    <3> QED
      BY <1>8, <3>1 DEF EndSaves, Item
  <2> QED
    BY <1>8, <2>1 DEF EndSaves, recVars, saveVars
<1>9. CASE Take
  BY <1>9, TailFacts DEF Take, recVars
<1>10. CASE SaveFailed
  BY <1>10, <1>0, ItemFacts DEF SaveFailed, recVars
<1>11. CASE UNCHANGED vars
  BY <1>11 DEF vars
<1> QED
  BY <1>1, <1>2, <1>3, <1>4, <1>5, <1>6, <1>7, <1>8, <1>9, <1>10, <1>11
  DEF Next


\* ... and the counts.
LEMMA CountedStep ==
  ASSUME TypeOK, Counted, [Next \/ SaveFailed]_vars
  PROVE  Counted'
<1> USE DEF Counted
<1>0. Len(dataset) \in Nat
  BY DEF TypeOK
<1>1. CASE Start \/ OnImage \/ Stop \/ SpinEnds \/ EndSaves \/ Joined \/ Encode \/ Take \/ SaveFailed
  BY <1>1 DEF Start, OnImage, Stop, SpinEnds, EndSaves, Joined, Encode, Take, SaveFailed, saveVars
<1>2. CASE Finalize
  BY <1>0, <1>2 DEF Finalize
<1>3. CASE Saved
  <2>1. Len(dataset') = Len(dataset) + 1 /\ flushing' = flushing
    BY <1>3 DEF Saved, TypeOK
  <2>2. unencoded' = 0 \/ unencoded' = unencoded + 1
    BY <1>3 DEF Saved
  <2> QED
    BY <1>0, <2>1, <2>2 DEF TypeOK
<1>4. CASE UNCHANGED vars
  BY <1>4 DEF vars
<1> QED
  BY <1>1, <1>2, <1>3, <1>4 DEF Next

-----------------------------------------------------------------------------
(* The frames *)

\* While saves succeed, no step parts the frames from their count.
LEMMA WholeStep ==
  ASSUME TypeOK, Whole, [Next]_vars
  PROVE  Whole'
<1> USE DEF Whole, SavedWhole
<1>0. /\ buffer.n \in Nat /\ frames \in Nat /\ next \in Nat /\ Total \in Nat
      /\ queue \in Seq(Item) /\ dataset \in Seq(Item)
  BY DEF TypeOK, Buffer, Total, Item
<1>1. CASE SpinEnds \/ Joined \/ Finalize \/ Encode
  BY <1>1 DEF SpinEnds, Joined, Finalize, Encode, recVars, saveVars
<1>2. CASE Start
  <2>1. buffer'.n = 0 /\ frames' = 0
    BY <1>0, <1>2, ItemFacts DEF Start
  <2> QED
    BY <1>2, <2>1 DEF Start, saveVars
<1>3. CASE Saved
  <2> DEFINE x == [idx |-> item.idx, n |-> item.n, buf |-> item.buf]
  <2>1. x.n = item.n /\ x.buf = item.buf
    OBVIOUS
  <2>2. dataset' = Append(dataset, x) /\ UNCHANGED <<recording, frames, buffer, queue, item>>
    BY <1>3 DEF Saved, recVars
  <2>3. x \in Item
    BY DEF TypeOK, Item
  <2> HIDE DEF x
  <2>4. \A i \in DOMAIN dataset' : dataset'[i] = x \/ (i \in DOMAIN dataset /\ dataset'[i] = dataset[i])
    BY <1>0, <2>2, <2>3, AppendFacts
  <2> QED
    BY <2>1, <2>2, <2>4
<1>4. CASE OnImage
  <2>1. PICK added \in BOOLEAN :
          /\ frames' = IF added THEN frames + 1 ELSE frames
          /\ buffer' = IF added THEN [buffer EXCEPT !.n = @ + 1] ELSE buffer
    BY <1>4 DEF OnImage
  <2>2. ASSUME added PROVE buffer'.n = frames'
    <3> DEFINE b == [buffer EXCEPT !.n = buffer.n + 1]
    <3>1. buffer' = b /\ frames' = frames + 1 /\ recording
      BY <1>4, <2>1, <2>2 DEF OnImage
    <3>2. b.n = buffer.n + 1
      BY OneFrameMore DEF TypeOK
    <3> HIDE DEF b
    <3> QED
      BY <1>0, <3>1, <3>2
  <2>3. ASSUME ~added PROVE buffer'.n = frames'
    <3>1. buffer' = buffer /\ frames' = frames /\ recording
      BY <1>4, <2>1, <2>3 DEF OnImage
    <3> QED
      BY <3>1
  <2>4. buffer'.n = frames'
    BY <2>2, <2>3
  <2> QED
    BY <1>4, <2>4 DEF OnImage, saveVars
<1>5. CASE Stop
  <2>1. recording /\ recording' = FALSE /\ UNCHANGED <<item, dataset>>
    BY <1>5 DEF Stop
  <2>2. PICK n \in Nat, b \in Buffer : b.n = n /\ (Discard \/ HandOver(n, b))
    BY <1>0, <1>5, <2>1, StopEnds
  <2>3. CASE Discard
    BY <1>0, <2>1, <2>3, ItemFacts DEF Discard
  <2>4. CASE HandOver(n, b)
    <3> DEFINE x == [idx |-> episode, n |-> n, buf |-> b]
    <3>1. x.n = n /\ x.buf = b /\ x \in Item
      BY DEF TypeOK, Item
    <3>2. queue' = Append(queue, x) /\ buffer' = Fresh(next + 1) /\ next + 1 \in Nat
      BY <1>0, <2>4 DEF HandOver
    <3> HIDE DEF x
    <3>3. \A i \in DOMAIN queue' : queue'[i] = x \/ (i \in DOMAIN queue /\ queue'[i] = queue[i])
      BY <1>0, <3>1, <3>2, AppendFacts
    <3> QED
      BY <2>1, <2>2, <3>1, <3>2, <3>3, ItemFacts
  <2> QED
    BY <2>2, <2>3, <2>4
<1>6. CASE EndSaves
  <2>1. CASE queue' = Append(queue, Pill)
    <3>1. \A i \in DOMAIN queue' : queue'[i] = Pill \/ (i \in DOMAIN queue /\ queue'[i] = queue[i])
      BY <1>0, <2>1, ItemFacts, AppendFacts
    <3> QED
      BY <1>6, <3>1, ItemFacts DEF EndSaves, recVars, saveVars
  <2>2. CASE UNCHANGED queue
    BY <1>6, <2>2 DEF EndSaves, recVars, saveVars
  <2> QED
    BY <1>6, <2>1, <2>2 DEF EndSaves
<1>7. CASE Take
  <2>1. /\ item' = queue[1] /\ 1 \in DOMAIN queue
        /\ \A i \in DOMAIN queue' : i + 1 \in DOMAIN queue /\ queue'[i] = queue[i + 1]
    BY <1>0, <1>7, TailFacts DEF Take
  <2> QED
    BY <1>7, <2>1 DEF Take, recVars
<1>8. CASE UNCHANGED vars
  BY <1>8 DEF vars
<1> QED
  BY <1>1, <1>2, <1>3, <1>4, <1>5, <1>6, <1>7, <1>8 DEF Next

-----------------------------------------------------------------------------
(* The end of the save thread *)

\* When the wait for the save thread is never cut short, it has saved all there was.
LEMMA DrainingStep ==
  ASSUME ~Impatient, TypeOK, Draining, [Next]_vars
  PROVE  Draining'
<1> USE DEF Draining, FinalizedLast
<1>0. queue \in Seq(Item)
  BY DEF TypeOK, Item
<1>1. CASE Start \/ OnImage \/ SpinEnds \/ Finalize \/ Encode
  BY <1>1 DEF Start, OnImage, SpinEnds, Finalize, Encode, recVars, saveVars
<1>2. CASE Stop
  <2>1. phase \in {"spin", "stop"} /\ UNCHANGED phase
    BY <1>2 DEF Stop
  <2>2. PICK n \in Nat, b \in Buffer : Discard \/ (n >= MinFrames /\ HandOver(n, b))
    BY <1>2, StopEnds
  <2>3. CASE Discard
    BY <2>1, <2>3 DEF Discard
  <2>4. CASE n >= MinFrames /\ HandOver(n, b)
    <3> DEFINE x == [idx |-> episode, n |-> n, buf |-> b]
    <3>1. x \in Item /\ x.n > 0
      BY <2>4 DEF TypeOK, Item
    <3>2. queue' = Append(queue, x) /\ worker' \notin {"none", "ended"}
      BY <2>1, <2>4 DEF HandOver, TypeOK
    <3> HIDE DEF x
    <3>3. x # Pill
      BY <3>1, ItemFacts
    <3>4. \A i \in DOMAIN queue' : queue'[i] = x \/ (i \in DOMAIN queue /\ queue'[i] = queue[i])
      BY <1>0, <3>1, <3>2, AppendFacts
    <3>5. \A i \in DOMAIN queue' : queue'[i] # Pill
      BY <2>1, <3>3, <3>4
    <3> QED
      BY <2>1, <3>2, <3>5
  <2> QED
    BY <2>2, <2>3, <2>4
<1>3. CASE EndSaves
  <2>1. CASE worker = "none"
    BY <1>3, <2>1 DEF EndSaves, saveVars
  <2>2. CASE worker # "none"
    <3>1. /\ phase = "stop" /\ phase' = "join" /\ queue' = Append(queue, Pill)
          /\ worker' = worker /\ worker # "ended"
      BY <1>3, <2>2 DEF EndSaves, saveVars
    <3>2. /\ Len(queue') = Len(queue) + 1 /\ DOMAIN queue' = 1..Len(queue) + 1
          /\ \A i \in DOMAIN queue : queue'[i] = queue[i]
          /\ DOMAIN queue = 1..Len(queue) /\ Len(queue) \in Nat
      BY <1>0, <3>1, ItemFacts, AppendFacts
    <3>3. \A i \in DOMAIN queue' : queue'[i] = Pill => i = Len(queue')
      BY <3>1, <3>2
    <3> QED
      BY <2>2, <3>1, <3>3
  <2> QED
    BY <2>1, <2>2
<1>4. CASE Joined
  BY <1>4 DEF Joined, saveVars
<1>5. CASE Take
  <2>1. /\ Head(queue) = queue[1] /\ 1 \in DOMAIN queue /\ Len(queue) \in Nat \ {0}
        /\ queue' = Tail(queue) /\ queue' \in Seq(Item) /\ Len(queue') = Len(queue) - 1
        /\ \A i \in DOMAIN queue' : i + 1 \in DOMAIN queue /\ queue'[i] = queue[i + 1]
    BY <1>0, <1>5, TailFacts DEF Take
  <2>2. UNCHANGED phase /\ phase \notin {"finalize", "encode", "exit"}
    BY <1>5 DEF Take
  <2>3. \A i \in DOMAIN queue' : queue'[i] = Pill => i = Len(queue') /\ phase' = "join"
    <3> SUFFICES ASSUME NEW i \in DOMAIN queue', queue'[i] = Pill
                 PROVE  i = Len(queue') /\ phase' = "join"
      OBVIOUS
    <3>1. i + 1 = Len(queue) /\ phase = "join" /\ i \in Nat
      BY <2>1
    <3> QED
      BY <2>1, <2>2, <3>1
  <2>4. worker' \in {"none", "ended"} => queue' = <<>> /\ phase = "join"
    <3> SUFFICES ASSUME worker' \in {"none", "ended"}
                 PROVE  queue' = <<>> /\ phase = "join"
      OBVIOUS
    <3>1. Head(queue) = Pill
      BY <1>5 DEF Take
    <3>2. Len(queue) = 1 /\ phase = "join"
      BY <2>1, <3>1
    <3>3. Len(queue') = 0
      BY <2>1, <3>2
    <3>4. \A s \in Seq(Item) : Len(s) = 0 => s = <<>>
      OBVIOUS
    <3> QED
      BY <2>1, <3>2, <3>3, <3>4
  <2> QED
    BY <2>2, <2>3, <2>4
<1>6. CASE Saved
  BY <1>6 DEF Saved, recVars
<1>7. CASE UNCHANGED vars
  BY <1>7 DEF vars
<1> QED
  BY <1>1, <1>2, <1>3, <1>4, <1>5, <1>6, <1>7 DEF Next

-----------------------------------------------------------------------------
(* The theorems *)

\* The initial state.
LEMMA Initially ==
  ASSUME Init
  PROVE  TypeOK /\ Counted /\ Whole /\ Draining
<1> USE ItemFacts DEF Init
<1>1. TypeOK
  <2>1. 0 \in 0..Batch - 1
    BY DEF RecorderAssumption
  <2>2. buffer \in Buffer /\ item \in Item /\ queue \in Seq(Item) /\ dataset \in Seq(Item)
    OBVIOUS
  <2>3. videos \subseteq DOMAIN dataset
    OBVIOUS
  <2> QED
    BY <2>1, <2>2, <2>3 DEF TypeOK, Item
<1>2. Counted
  BY DEF Counted
<1>3. Whole
  BY DEF Whole, SavedWhole
<1>4. Draining
  BY DEF Draining, FinalizedLast
<1> QED
  BY <1>1, <1>2, <1>3, <1>4

\* A saved episode holds exactly the frames reported for it (SavedWhole), as long as no save
\* fails: stop() hands the buffer over and the next episode gets one of its own.
THEOREM EpisodesWhole == Spec => []SavedWhole
<1> DEFINE I == TypeOK /\ Counted /\ Whole
<1>1. Init => I
  BY Initially
<1>2. I /\ [Next]_vars => I'
  BY TypeStep, CountedStep, WholeStep
<1>3. I => SavedWhole
  BY DEF Whole
<1> QED
  BY <1>1, <1>2, <1>3, PTL DEF Spec

\* The dataset is finalized after the last save (FinalizedLast), when shutdown() waits for the
\* save thread to end.
THEOREM FinalizedAfterSaves == ~Impatient => (Spec => []FinalizedLast)
<1> SUFFICES ASSUME ~Impatient PROVE Spec => []FinalizedLast
  OBVIOUS
<1> DEFINE I == TypeOK /\ Counted /\ Draining
<1>1. Init => I
  BY Initially
<1>2. I /\ [Next]_vars => I'
  BY TypeStep, CountedStep, DrainingStep
<1>3. I => FinalizedLast
  BY DEF Draining
<1> QED
  BY <1>1, <1>2, <1>3, PTL DEF Spec

-----------------------------------------------------------------------------
(* The log of episodes *)

\* The end marker is the last of its queue and is sent by shutdown only; an episode that records
\* has room for its last frame.
InOrder ==
  /\ \A i \in DOMAIN queue : queue[i] = Pill => i = Len(queue) /\ phase \notin {"spin", "stop"}
  /\ recording => frames <= MaxFrames

\* Sequences of the same length with the same elements are equal.
LEMMA SameSequence ==
  ASSUME NEW S, NEW T, NEW s \in Seq(S), NEW t \in Seq(T), Len(s) = Len(t),
         \A i \in 1..Len(s) : s[i] = t[i]
  PROVE  s = t
  OBVIOUS

\* What an appended sequence is, by its elements.
LEMMA IsAppend ==
  ASSUME NEW s \in Seq(Nat), NEW t \in Seq(Nat), NEW x \in Nat, Len(t) = Len(s) + 1,
         \A i \in 1..Len(s) : t[i] = s[i], t[Len(s) + 1] = x
  PROVE  t = Append(s, x)
<1> DEFINE a == Append(s, x)
<1>1. a \in Seq(Nat) /\ Len(a) = Len(s) + 1 /\ a[Len(s) + 1] = x /\ Len(s) \in Nat
      /\ \A i \in 1..Len(s) : a[i] = s[i]
  OBVIOUS
<1> HIDE DEF a
<1>2. ASSUME NEW i \in 1..Len(t) PROVE t[i] = a[i]
  <2>1. i \in 1..Len(s) \/ i = Len(s) + 1
    BY <1>1
  <2> QED
    BY <1>1, <2>1
<1>3. t = a
  BY <1>1, <1>2, SameSequence
<1> QED
  BY <1>3 DEF a

\* The abstract log of a state: its length and its elements.
LogShape ==
  /\ Len(dataset) \in Nat /\ InHand \in 0..1 /\ Queued \in 0..Len(queue) /\ Len(queue) \in Nat
  /\ Accepted \in Seq(Nat) /\ Len(Accepted) = Len(dataset) + InHand + Queued
  /\ \A i \in 1..Len(dataset) : Accepted[i] = dataset[i].buf.n
  /\ InHand = 1 => Accepted[Len(dataset) + 1] = item.n
  /\ \A j \in 1..Queued : Accepted[Len(dataset) + InHand + j] = queue[j].n

\* The log has that shape in every state of the right types.
LEMMA LogShaped == TypeOK => LogShape
<1> SUFFICES ASSUME TypeOK PROVE LogShape
  OBVIOUS
<1>1. /\ dataset \in Seq(Item) /\ queue \in Seq(Item) /\ item \in Item
      /\ Len(dataset) \in Nat /\ Len(queue) \in Nat
  BY DEF TypeOK, Item
<1>2. InHand \in 0..1
  BY DEF InHand
<1>3. Queued \in 0..Len(queue)
  <2>1. queue # <<>> => Len(queue) >= 1
    BY <1>1
  <2> QED
    BY <1>1, <2>1 DEF Queued
<1> DEFINE n == Len(dataset) + InHand + Queued
           e(i) == IF i <= Len(dataset) THEN dataset[i].buf.n
                   ELSE IF i = Len(dataset) + InHand THEN item.n
                   ELSE queue[i - Len(dataset) - InHand].n
<1>4. n \in Nat
  BY <1>1, <1>2, <1>3
<1>5. ASSUME NEW i \in 1..n PROVE e(i) \in Nat
  <2>1. CASE i <= Len(dataset)
    <3>1. dataset[i] \in Item
      BY <1>1, <2>1
    <3> QED
      BY <2>1, <3>1 DEF Item, Buffer
  <2>2. CASE ~(i <= Len(dataset)) /\ i = Len(dataset) + InHand
    BY <1>1, <2>2 DEF Item
  <2>3. CASE ~(i <= Len(dataset)) /\ i # Len(dataset) + InHand
    <3> DEFINE k == i - Len(dataset) - InHand
    <3>1. k \in 1..Len(queue)
      BY <1>1, <1>2, <1>3, <2>3
    <3> HIDE DEF k
    <3>2. queue[k] \in Item
      BY <1>1, <3>1
    <3>3. queue[k].n \in Nat
      BY <3>2 DEF Item
    <3> QED
      BY <2>3, <3>3 DEF k
  <2> QED
    BY <2>1, <2>2, <2>3
<1>6. Accepted = [i \in 1..n |-> e(i)]
  BY DEF Accepted
<1>7. \A i \in 1..Len(dataset) : i \in 1..n /\ e(i) = dataset[i].buf.n
  BY <1>1, <1>2, <1>3
<1>8. InHand = 1 => Len(dataset) + 1 \in 1..n /\ e(Len(dataset) + 1) = item.n
  BY <1>1, <1>3
<1>9. ASSUME NEW j \in 1..Queued
      PROVE  /\ Len(dataset) + InHand + j \in 1..n
             /\ e(Len(dataset) + InHand + j) = queue[j].n
  <2> DEFINE k == Len(dataset) + InHand + j
  <2>1. /\ k \in 1..n /\ ~(k <= Len(dataset)) /\ k # Len(dataset) + InHand
        /\ k - Len(dataset) - InHand = j
    BY <1>1, <1>2, <1>3
  <2> HIDE DEF k
  <2>2. e(k) = queue[j].n
    BY <2>1
  <2> QED
    BY <2>1, <2>2 DEF k
<1> HIDE DEF n, e
<1>10. Accepted \in Seq(Nat) /\ Len(Accepted) = n
  BY <1>4, <1>5, <1>6
<1>11. \A i \in 1..n : Accepted[i] = e(i)
  BY <1>6
<1>12. \A i \in 1..Len(dataset) : Accepted[i] = dataset[i].buf.n
  BY <1>7, <1>11
<1>13. InHand = 1 => Accepted[Len(dataset) + 1] = item.n
  BY <1>8, <1>11
<1>14. \A j \in 1..Queued : Accepted[Len(dataset) + InHand + j] = queue[j].n
  BY <1>9, <1>11
<1> QED
  BY <1>1, <1>2, <1>3, <1>10, <1>12, <1>13, <1>14 DEF LogShape, n

\* ... and in the next one.
LEMMA LogShapedNext == TypeOK' => LogShape'
  BY LogShaped, PTL

\* Where the end marker is, and the room for frames.
LEMMA InOrderStep ==
  ASSUME TypeOK, InOrder, [Next]_vars
  PROVE  InOrder'
<1> USE DEF InOrder
<1>0. queue \in Seq(Item) /\ frames \in Nat
  BY DEF TypeOK, Item
<1>1. CASE Start \/ SpinEnds \/ Joined \/ Finalize \/ Encode \/ Saved \/ UNCHANGED vars
  BY <1>1 DEF Start, SpinEnds, Joined, Finalize, Encode, Saved, recVars, saveVars, vars
<1>2. CASE OnImage
  BY <1>0, <1>2 DEF OnImage, saveVars
<1>3. CASE Stop
  <2>1. phase \in {"spin", "stop"} /\ UNCHANGED phase /\ recording' = FALSE
    BY <1>3 DEF Stop
  <2>2. PICK n \in Nat, b \in Buffer : Discard \/ (n >= MinFrames /\ HandOver(n, b))
    BY <1>3, StopEnds
  <2>3. CASE Discard
    BY <2>1, <2>3 DEF Discard
  <2>4. CASE n >= MinFrames /\ HandOver(n, b)
    <3> DEFINE x == [idx |-> episode, n |-> n, buf |-> b]
    <3>1. x \in Item /\ x.n > 0
      BY <2>4 DEF TypeOK, Item
    <3>2. queue' = Append(queue, x)
      BY <2>4 DEF HandOver
    <3> HIDE DEF x
    <3>3. x # Pill
      BY <3>1, ItemFacts
    <3>4. \A i \in DOMAIN queue' : queue'[i] = x \/ (i \in DOMAIN queue /\ queue'[i] = queue[i])
      BY <1>0, <3>1, <3>2, AppendFacts
    <3> QED
      BY <2>1, <3>3, <3>4
  <2> QED
    BY <2>2, <2>3, <2>4
<1>4. CASE EndSaves
  <2>1. CASE UNCHANGED queue
    BY <1>4, <2>1 DEF EndSaves, recVars
  <2>2. CASE queue' = Append(queue, Pill) /\ phase' = "join"
    <3>1. /\ Len(queue') = Len(queue) + 1 /\ DOMAIN queue' = 1..Len(queue) + 1
          /\ \A i \in DOMAIN queue : queue'[i] = queue[i]
          /\ DOMAIN queue = 1..Len(queue) /\ Len(queue) \in Nat
      BY <1>0, <2>2, ItemFacts, AppendFacts
    <3>2. \A i \in DOMAIN queue : queue[i] # Pill
      BY <1>4 DEF EndSaves
    <3>3. \A i \in DOMAIN queue' : queue'[i] = Pill => i = Len(queue')
      BY <3>1, <3>2
    <3> QED
      BY <1>4, <2>2, <3>3 DEF EndSaves, recVars
  <2> QED
    BY <1>4, <2>1, <2>2 DEF EndSaves
<1>5. CASE Take
  <2>1. /\ queue' = Tail(queue) /\ Len(queue) \in Nat \ {0} /\ Len(queue') = Len(queue) - 1
        /\ \A i \in DOMAIN queue' : i + 1 \in DOMAIN queue /\ queue'[i] = queue[i + 1]
        /\ queue' \in Seq(Item) /\ phase' = phase
    BY <1>0, <1>5, TailFacts DEF Take
  <2>2. \A i \in DOMAIN queue' : queue'[i] = Pill => i = Len(queue') /\ phase' \notin {"spin", "stop"}
    <3> SUFFICES ASSUME NEW i \in DOMAIN queue', queue'[i] = Pill
                 PROVE  i = Len(queue') /\ phase' \notin {"spin", "stop"}
      OBVIOUS
    <3>1. i + 1 = Len(queue) /\ phase \notin {"spin", "stop"} /\ i \in Nat
      BY <2>1
    <3> QED
      BY <2>1, <3>1
  <2> QED
    BY <1>5, <2>2 DEF Take, recVars
<1> QED
  BY <1>1, <1>2, <1>3, <1>4, <1>5 DEF Next

\* A step that changes neither the log nor what the dataset holds of it.
LEMMA SameLog ==
  ASSUME TypeOK, TypeOK', UNCHANGED dataset, Queued' = Queued + InHand - InHand',
         InHand' = 1 => IF InHand = 1 THEN item'.n = item.n
                                      ELSE Queued >= 1 /\ item'.n = queue[1].n,
         \A j \in 1..Queued' : queue'[j].n = queue[j + Queued - Queued'].n,
         InHand = 1 => InHand' = 1
  PROVE  UNCHANGED <<Accepted, Len(dataset)>>
<1>1. Len(dataset) \in Nat /\ InHand \in 0..1 /\ InHand' \in 0..1 /\ Queued \in Nat /\ Queued' \in Nat
  BY LogShaped, LogShapedNext DEF LogShape
<1>2. /\ Accepted \in Seq(Nat) /\ Accepted' \in Seq(Nat)
      /\ Len(Accepted) = Len(dataset) + InHand + Queued
      /\ Len(Accepted') = Len(dataset) + InHand' + Queued'
  BY LogShaped, LogShapedNext DEF LogShape
<1>3. \A i \in 1..Len(dataset) : Accepted[i] = dataset[i].buf.n /\ Accepted'[i] = dataset[i].buf.n
  BY LogShaped, LogShapedNext DEF LogShape
<1>4. /\ InHand = 1 => Accepted[Len(dataset) + 1] = item.n
      /\ InHand' = 1 => Accepted'[Len(dataset) + 1] = item'.n
  BY LogShaped, LogShapedNext DEF LogShape
<1>5. \A j \in 1..Queued : Accepted[Len(dataset) + InHand + j] = queue[j].n
  BY LogShaped DEF LogShape
<1>6. \A j \in 1..Queued' : Accepted'[Len(dataset) + InHand' + j] = queue'[j].n
  BY LogShapedNext DEF LogShape
<1>7. ASSUME NEW i \in 1..Len(Accepted) PROVE Accepted'[i] = Accepted[i]
  <2>0. i \in Nat /\ i >= 1 /\ i <= Len(dataset) + InHand + Queued
    BY <1>1, <1>2
  <2>1. CASE i <= Len(dataset)
    <3>1. i \in 1..Len(dataset)
      BY <1>1, <2>0, <2>1
    <3> QED
      BY <1>3, <3>1
  <2>2. CASE i = Len(dataset) + 1 /\ InHand' = 1
    <3>1. CASE InHand = 1
      BY <1>4, <2>2, <3>1
    <3>2. CASE InHand = 0
      <4>1. Queued >= 1 /\ item'.n = queue[1].n
        BY <2>2, <3>2
      <4>2. 1 \in 1..Queued /\ Len(dataset) + InHand + 1 = i
        BY <1>1, <2>2, <3>2, <4>1
      <4>3. Accepted[i] = queue[1].n
        BY <1>5, <4>2
      <4> QED
        BY <1>4, <2>2, <4>1, <4>3
    <3> QED
      BY <1>1, <3>1, <3>2
  <2>3. CASE i > Len(dataset) + InHand'
    <3> DEFINE j == i - Len(dataset) - InHand'
               k == j + Queued - Queued'
    <3>1. InHand <= InHand'
      BY <1>1
    <3>2. j \in 1..Queued' /\ i = Len(dataset) + InHand' + j
      BY <1>1, <2>0, <2>3
    <3>3. k = i - Len(dataset) - InHand
      BY <1>1, <2>0
    <3>4. queue'[j].n = queue[k].n
      BY <3>2
    <3> HIDE DEF j, k
    <3>5. k \in 1..Queued /\ i = Len(dataset) + InHand + k
      BY <1>1, <2>0, <2>3, <3>1, <3>3
    <3>6. Accepted'[i] = queue'[j].n
      BY <1>6, <3>2
    <3>7. Accepted[i] = queue[k].n
      BY <1>5, <3>5
    <3> QED
      BY <3>4, <3>6, <3>7
  <2> QED
    BY <1>1, <2>0, <2>1, <2>2, <2>3
<1>8. Accepted' = Accepted
  <2>1. Len(Accepted) = Len(Accepted')
    BY <1>1, <1>2
  <2> QED
    BY <1>2, <1>7, <2>1, SameSequence
<1> QED
  BY <1>8

\* Queued, when the queue holds no end marker.
LEMMA AllQueued == TypeOK /\ InOrder /\ phase \in {"spin", "stop"} => Queued = Len(queue)
<1> SUFFICES ASSUME TypeOK, InOrder, phase \in {"spin", "stop"} PROVE Queued = Len(queue)
  OBVIOUS
<1>1. queue \in Seq(Item) /\ Len(queue) \in Nat /\ DOMAIN queue = 1..Len(queue)
  BY DEF TypeOK, Item
<1>2. queue # <<>> => Len(queue) \in DOMAIN queue
  BY <1>1
<1>3. queue # <<>> => queue[Len(queue)] # Pill
  BY <1>2 DEF InOrder
<1> QED
  BY <1>3 DEF Queued

\* ... and after a step.
LEMMA AllQueuedNext == TypeOK' /\ InOrder' /\ (phase \in {"spin", "stop"})' => (Queued = Len(queue))'
  BY AllQueued, PTL

\* Stopping an episode long enough to keep is the log's Keep.
LEMMA HandOverKeeps ==
  ASSUME TypeOK, TypeOK', InOrder, InOrder', Stop,
         NEW n \in Nat, NEW b \in Buffer, n \in MinFrames..MaxFrames + 1, HandOver(n, b)
  PROVE  Log!Keep
<1> DEFINE x == [idx |-> episode, n |-> n, buf |-> b]
<1>1. phase \in {"spin", "stop"} /\ UNCHANGED <<phase, item, dataset>>
  BY DEF Stop
<1>2. queue \in Seq(Item) /\ x \in Item /\ x.n = n /\ queue' = Append(queue, x)
  BY DEF TypeOK, Item, HandOver
<1> HIDE DEF x
<1>3. /\ Len(queue) \in Nat /\ Len(queue') = Len(queue) + 1
      /\ \A i \in 1..Len(queue) : queue'[i] = queue[i]
      /\ queue'[Len(queue) + 1].n = n
  BY <1>2, AppendFacts
<1>4. Queued = Len(queue) /\ Queued' = Len(queue) + 1
  BY <1>1, <1>3, AllQueued, AllQueuedNext
<1>5. InHand' = InHand
  BY DEF HandOver, InHand
<1>6. /\ Len(dataset) \in Nat /\ InHand \in 0..1
      /\ Accepted \in Seq(Nat) /\ Len(Accepted) = Len(dataset) + InHand + Len(queue)
      /\ \A i \in 1..Len(dataset) : Accepted[i] = dataset[i].buf.n
      /\ InHand = 1 => Accepted[Len(dataset) + 1] = item.n
      /\ \A j \in 1..Len(queue) : Accepted[Len(dataset) + InHand + j] = queue[j].n
  BY <1>4, LogShaped DEF LogShape
<1>7. /\ Accepted' \in Seq(Nat) /\ Len(Accepted') = Len(dataset) + InHand + Len(queue) + 1
      /\ \A i \in 1..Len(dataset) : Accepted'[i] = dataset[i].buf.n
      /\ InHand = 1 => Accepted'[Len(dataset) + 1] = item.n
      /\ \A j \in 1..Len(queue) + 1 : Accepted'[Len(dataset) + InHand + j] = queue'[j].n
  BY <1>1, <1>4, <1>5, LogShapedNext DEF LogShape
<1>8. \A i \in 1..Len(Accepted) : Accepted'[i] = Accepted[i]
  <2> SUFFICES ASSUME NEW i \in 1..Len(Accepted) PROVE Accepted'[i] = Accepted[i]
    OBVIOUS
  <2>1. CASE i <= Len(dataset)
    BY <1>6, <1>7, <2>1
  <2>2. CASE i = Len(dataset) + 1 /\ InHand = 1
    BY <1>6, <1>7, <2>2
  <2>3. CASE i > Len(dataset) + InHand
    <3> DEFINE j == i - Len(dataset) - InHand
    <3>1. Len(Accepted) = Len(dataset) + InHand + Len(queue)
      BY <1>6
    <3>2. Len(dataset) \in Nat /\ InHand \in 0..1 /\ Len(queue) \in Nat
      BY <1>3, <1>6
    <3>3. j \in 1..Len(queue) /\ j \in 1..Len(queue) + 1 /\ i = Len(dataset) + InHand + j
      BY <2>3, <3>1, <3>2
    <3> HIDE DEF j
    <3>4. Accepted[i] = queue[j].n
      BY <1>6, <3>3
    <3>5. Accepted'[i] = queue'[j].n
      BY <1>7, <3>3
    <3> QED
      BY <1>3, <3>3, <3>4, <3>5
  <2> QED
    BY <1>3, <1>6, <2>1, <2>2, <2>3
<1>9. Accepted'[Len(Accepted) + 1] = n
  <2>1. Len(queue) + 1 \in 1..Len(queue) + 1
    BY <1>3
  <2>2. Accepted'[Len(dataset) + InHand + (Len(queue) + 1)] = n
    BY <1>3, <1>7, <2>1
  <2> QED
    BY <1>3, <1>6, <2>2
<1>10. Accepted' = Append(Accepted, n)
  <2>1. /\ Accepted \in Seq(Nat) /\ Accepted' \in Seq(Nat)
        /\ Len(Accepted') = Len(Accepted) + 1
    BY <1>6, <1>7
  <2> QED
    BY <1>8, <1>9, <2>1, IsAppend
<1> QED
  BY <1>1, <1>10 DEF Log!Keep

\* Taking an episode off the queue changes no log; taking the end marker neither.
LEMMA TakeKeepsLog ==
  ASSUME TypeOK, TypeOK', InOrder, Take
  PROVE  UNCHANGED <<Accepted, Len(dataset)>>
<1>1. /\ queue' = Tail(queue) /\ item' = Head(queue) /\ worker = "waiting" /\ UNCHANGED dataset
      /\ worker' = IF Head(queue) = Pill THEN "ended" ELSE "saving"
  BY DEF Take
<1>2. /\ Len(queue) \in Nat \ {0} /\ DOMAIN queue = 1..Len(queue) /\ Head(queue) = queue[1]
      /\ queue' \in Seq(Item) /\ Len(queue') = Len(queue) - 1
      /\ \A i \in DOMAIN queue' : queue'[i] = queue[i + 1]
  BY TailFacts DEF TypeOK, Item, Take
<1>3. DOMAIN queue' = 1..Len(queue) - 1 /\ (queue' = <<>> <=> Len(queue) = 1)
  BY <1>2
<1>4. InHand = 0 /\ queue # <<>>
  BY <1>1, <1>2 DEF InHand, Take
<1>5. CASE Head(queue) = Pill
  <2>1. Len(queue) = 1 /\ queue[1] = Pill
    BY <1>2, <1>5 DEF InOrder
  <2>2. Queued = 0
    BY <1>4, <2>1 DEF Queued
  <2>3. Queued' = 0
    BY <1>3, <2>1 DEF Queued
  <2>4. InHand' = 0
    BY <1>1, <1>5 DEF InHand
  <2> QED
    BY <1>1, <1>4, <2>2, <2>3, <2>4, SameLog
<1>6. CASE Head(queue) # Pill
  <2>1. InHand' = 1
    BY <1>1, <1>6 DEF InHand
  <2>2. Queued \in Nat /\ Queued >= 1 /\ Queued' = Queued - 1
    <3>1. CASE Len(queue) = 1
      <4>1. Queued = 1
        BY <1>2, <1>6, <3>1 DEF Queued
      <4>2. Queued' = 0
        BY <1>3, <3>1 DEF Queued
      <4> QED
        BY <4>1, <4>2
    <3>2. CASE Len(queue) # 1
      <4>1. queue'[Len(queue')] = queue[Len(queue)] /\ queue' # <<>>
        BY <1>2, <1>3, <3>2
      <4> QED
        BY <1>2, <1>4, <3>2, <4>1 DEF Queued
    <3> QED
      BY <3>1, <3>2
  <2>3. \A j \in 1..Queued' : queue'[j].n = queue[j + Queued - Queued'].n
    <3>1. Queued <= Len(queue)
      BY LogShaped DEF LogShape
    <3>2. \A j \in 1..Queued' : j \in DOMAIN queue' /\ j + Queued - Queued' = j + 1
      BY <1>2, <1>3, <2>2, <3>1
    <3> QED
      BY <1>2, <3>2
  <2>4. item'.n = queue[1].n
    BY <1>1, <1>2
  <2>5. Queued' = Queued + InHand - InHand'
    BY <1>4, <2>1, <2>2
  <2>6. /\ InHand' = 1 => IF InHand = 1 THEN item'.n = item.n
                                        ELSE Queued >= 1 /\ item'.n = queue[1].n
        /\ InHand = 1 => InHand' = 1
    BY <1>4, <2>1, <2>2, <2>4
  <2>7. UNCHANGED dataset
    BY <1>1
  <2> QED
    BY <2>3, <2>5, <2>6, <2>7, SameLog
<1> QED
  BY <1>5, <1>6

\* The end marker is not an episode.
LEMMA EndSavesKeepsLog ==
  ASSUME TypeOK, TypeOK', InOrder, EndSaves
  PROVE  UNCHANGED <<Accepted, Len(dataset)>>
<1>1. phase = "stop" /\ UNCHANGED <<worker, item, dataset>>
  BY DEF EndSaves, saveVars
<1>2. CASE UNCHANGED queue
  BY <1>1, <1>2 DEF Accepted, InHand, Queued
<1>3. CASE queue' = Append(queue, Pill)
  <2>1. /\ Len(queue) \in Nat /\ Len(queue') = Len(queue) + 1
        /\ \A i \in 1..Len(queue) : queue'[i] = queue[i]
        /\ queue'[Len(queue')] = Pill
    BY <1>3, ItemFacts, AppendFacts DEF TypeOK, Item
  <2>2. queue' # <<>>
    BY <2>1
  <2>3. Queued = Len(queue) /\ Queued' = Len(queue)
    <3>1. Queued = Len(queue)
      BY <1>1, AllQueued
    <3>2. Queued' = Len(queue') - 1
      BY <2>1, <2>2 DEF Queued
    <3> QED
      BY <2>1, <3>1, <3>2
  <2>4. InHand' = InHand /\ InHand \in 0..1
    BY <1>1 DEF InHand
  <2>5. \A j \in 1..Queued' : j + Queued - Queued' = j /\ queue'[j].n = queue[j].n
    BY <2>1, <2>3
  <2>6. Queued' = Queued + InHand - InHand'
    BY <2>1, <2>3, <2>4
  <2> QED
    BY <1>1, <2>4, <2>5, <2>6, SameLog
<1> QED
  BY <1>2, <1>3 DEF EndSaves

\* A save that returns is the log's Write: the episode in hand is the next one of the log.
LEMMA SavedWrites ==
  ASSUME TypeOK, TypeOK', Whole, Saved
  PROVE  Log!Write
<1> DEFINE x == [idx |-> item.idx, n |-> item.n, buf |-> item.buf]
<1>1. /\ UNCHANGED queue /\ worker = "saving" /\ worker' = "waiting"
      /\ dataset' = Append(dataset, x) /\ x.buf.n = item.n /\ x \in Item
  BY DEF Saved, Whole, TypeOK, Item
<1> HIDE DEF x
<1>2. /\ Len(dataset) \in Nat /\ Len(dataset') = Len(dataset) + 1
      /\ \A i \in 1..Len(dataset) : dataset'[i] = dataset[i]
      /\ dataset'[Len(dataset) + 1].buf.n = item.n
  BY <1>1, AppendFacts DEF TypeOK, Item
<1>3. InHand = 1 /\ InHand' = 0 /\ Queued' = Queued /\ Queued \in Nat
  <2>1. InHand = 1 /\ InHand' = 0 /\ Queued' = Queued
    BY <1>1 DEF InHand, Queued
  <2> QED
    BY <2>1, LogShaped DEF LogShape
<1>4. /\ Accepted \in Seq(Nat) /\ Len(Accepted) = Len(dataset) + 1 + Queued
      /\ Accepted' \in Seq(Nat) /\ Len(Accepted') = Len(dataset) + 1 + Queued
  BY <1>2, <1>3, LogShaped, LogShapedNext DEF LogShape
<1>5. /\ \A i \in 1..Len(dataset) : Accepted[i] = dataset[i].buf.n
      /\ Accepted[Len(dataset) + 1] = item.n
      /\ \A j \in 1..Queued : Accepted[Len(dataset) + 1 + j] = queue[j].n
  BY <1>3, LogShaped DEF LogShape
<1>6. /\ \A i \in 1..Len(dataset) + 1 : Accepted'[i] = dataset'[i].buf.n
      /\ \A j \in 1..Queued : Accepted'[Len(dataset) + 1 + j] = queue[j].n
  <2>1. /\ \A i \in 1..Len(dataset') : Accepted'[i] = dataset'[i].buf.n
        /\ \A j \in 1..Queued : Accepted'[Len(dataset') + 0 + j] = queue[j].n
    BY <1>1, <1>3, LogShapedNext DEF LogShape
  <2>2. \A j \in 1..Queued : Len(dataset') + 0 + j = Len(dataset) + 1 + j
    BY <1>2, <1>3
  <2> QED
    BY <1>2, <2>1, <2>2
<1>7. ASSUME NEW i \in 1..Len(Accepted) PROVE Accepted'[i] = Accepted[i]
  <2>0. i \in Nat /\ i >= 1 /\ i <= Len(dataset) + 1 + Queued
    BY <1>2, <1>3, <1>4
  <2>1. CASE i <= Len(dataset)
    <3>1. i \in 1..Len(dataset) /\ i \in 1..Len(dataset) + 1
      BY <1>2, <2>0, <2>1
    <3> QED
      BY <1>2, <1>5, <1>6, <3>1
  <2>2. CASE i = Len(dataset) + 1
    <3>1. i \in 1..Len(dataset) + 1
      BY <1>2, <2>2
    <3> QED
      BY <1>2, <1>5, <1>6, <2>2, <3>1
  <2>3. CASE i > Len(dataset) + 1
    <3> DEFINE j == i - Len(dataset) - 1
    <3>1. j \in 1..Queued /\ i = Len(dataset) + 1 + j
      BY <1>2, <1>3, <2>0, <2>3
    <3> HIDE DEF j
    <3> QED
      BY <1>5, <1>6, <3>1
  <2> QED
    BY <1>2, <2>0, <2>1, <2>2, <2>3
<1>8. Accepted' = Accepted
  BY <1>4, <1>7, SameSequence
<1>9. Len(dataset) < Len(Accepted)
  BY <1>2, <1>3, <1>4
<1> QED
  BY <1>2, <1>8, <1>9 DEF Log!Write

\* Every step of the recorder is a step of the log, or changes nothing in it.
LEMMA LogStep ==
  ASSUME TypeOK, TypeOK', Whole, InOrder, InOrder', [Next]_vars
  PROVE  [Log!Next]_<<Accepted, Len(dataset)>>
<1>1. CASE Start \/ OnImage \/ SpinEnds \/ Joined \/ Finalize \/ Encode \/ UNCHANGED vars
  <2>1. UNCHANGED <<queue, worker, item, dataset>>
    BY <1>1 DEF Start, OnImage, SpinEnds, Joined, Finalize, Encode, recVars, saveVars, vars
  <2> QED
    BY <2>1 DEF Accepted, InHand, Queued
<1>2. CASE Stop
  <2>1. recording /\ UNCHANGED <<item, dataset>>
    BY <1>2 DEF Stop
  <2>2. PICK n \in Nat, b \in Buffer :
          (n = frames \/ n = frames + 1) /\ (Discard \/ (n >= MinFrames /\ HandOver(n, b)))
    BY <1>2, StopEnds
  <2>3. CASE Discard
    BY <2>1, <2>3 DEF Discard, Accepted, InHand, Queued
  <2>4. CASE n >= MinFrames /\ HandOver(n, b)
    <3>1. n \in MinFrames..MaxFrames + 1
      BY <2>1, <2>2, <2>4 DEF InOrder, TypeOK
    <3>2. Log!Keep
      BY <1>2, <2>4, <3>1, HandOverKeeps
    <3> QED
      BY <3>2 DEF Log!Next
  <2> QED
    BY <2>2, <2>3, <2>4
<1>3. CASE EndSaves
  BY <1>3, EndSavesKeepsLog
<1>4. CASE Take
  BY <1>4, TakeKeepsLog
<1>5. CASE Saved
  BY <1>5, SavedWrites DEF Log!Next
<1> QED
  BY <1>1, <1>2, <1>3, <1>4, <1>5 DEF Next

\* The recorder implements the log of episodes (LogSpec), as long as no save fails: what stop()
\* keeps is appended, and the save thread writes the episodes in the order they were kept, each
\* with the frames it was kept with.
THEOREM RecorderKeepsLog == Spec => LogSpec
<1> DEFINE I == TypeOK /\ Counted /\ Whole /\ InOrder
<1>1. Init => I /\ Log!Init
  <2> SUFFICES ASSUME Init PROVE I /\ Log!Init
    OBVIOUS
  <2>1. InOrder
    BY ItemFacts DEF Init, InOrder
  <2>2. Accepted = <<>> /\ Len(dataset) = 0
    <3>1. Len(dataset) = 0 /\ InHand = 0 /\ Queued = 0
      BY ItemFacts DEF Init, InHand, Queued
    <3>2. Accepted \in Seq(Nat) /\ Len(Accepted) = 0
      BY <3>1, LogShaped, Initially DEF LogShape
    <3> QED
      BY <3>1, <3>2
  <2> QED
    BY <2>1, <2>2, Initially DEF Log!Init
<1>2. I /\ [Next]_vars => I' /\ [Log!Next]_<<Accepted, Len(dataset)>>
  <2> SUFFICES ASSUME I, [Next]_vars PROVE I' /\ [Log!Next]_<<Accepted, Len(dataset)>>
    OBVIOUS
  <2>1. I'
    BY TypeStep, CountedStep, WholeStep, InOrderStep
  <2> QED
    BY <2>1, LogStep
<1> QED
  BY <1>1, <1>2, PTL DEF Spec, LogSpec, Log!Spec

-----------------------------------------------------------------------------
(* Sessions on one folder *)

Disks == {"none", "empty", "torn", "bare", "whole"}

\* What the phases and a closed dataset rule out.
Shape ==
  /\ disk \in Disks
  /\ recording => opened /\ phase \in {"spin", "stop", "exit"}
  /\ worker # "none" => opened
  /\ queue # <<>> => opened
  /\ phase = "encode" => opened
  /\ ~opened => unencoded = 0
  /\ phase \in {"spin", "stop", "join", "finalize"} => flushing = 0
  /\ Counted

\* No buffer holds more frames than its episode.
Frames ==
  /\ \A i \in DOMAIN queue : queue[i].buf.n <= queue[i].n
  /\ item.buf.n <= item.n
  /\ NeverMixed
  /\ StartsEmpty
  /\ buffer.n <= frames

\* Which episodes have a video, as long as the process that will encode the others lives.
Videos ==
  /\ disk \in {"none", "empty"} => dataset = <<>>
  /\ opened /\ phase \in {"spin", "stop", "join", "finalize"} =>
       /\ disk \in {"empty", "torn", "whole"}
       /\ videos = 1..Len(dataset) - unencoded
  /\ disk = "bare" /\ phase = "encode" => videos = 1..Len(dataset) - flushing
  /\ LoadsComplete

Saving == IF worker = "saving" THEN 1 ELSE 0

\* The next index leaves room for the episodes that are still to be saved.
Numbered ==
  /\ opened /\ phase \in {"spin", "stop"} => next >= Total + Len(queue) + Saving
  /\ recording /\ phase \in {"spin", "stop"} => episode = next
  /\ AnnouncedIsNew

IInv == TypeOK /\ Shape /\ Frames /\ Videos /\ Numbered

USE RecorderAssumption, SessionsAssumption

-----------------------------------------------------------------------------
(* Types *)

\* Every step of a session keeps the types and the counts: the recorder's own steps do.
LEMMA SessionsTypeStep ==
  ASSUME TypeOK, Shape, [SessionsNext]_sessions
  PROVE  TypeOK' /\ Counted'
<1>1. CASE [Next \/ SaveFailed]_vars
  BY <1>1, TypeStep, CountedStep DEF Shape
<1>2. CASE TeardownFails \/ Kill
  BY <1>2 DEF TeardownFails, Kill, memory, stored, recVars, TypeOK, Counted, Shape
<1>3. CASE Launch
  <2>1. 0 \in 0..Batch - 1
    BY DEF RecorderAssumption
  <2>2. buffer' \in Buffer
    BY <1>3, ItemFacts DEF Launch
  <2>3. queue' \in Seq([idx : Nat, n : Nat, buf : Buffer])
    BY <1>3, ItemFacts DEF Launch, Item
  <2>4. item' \in [idx : Nat, n : Nat, buf : Buffer]
    BY <1>3, ItemFacts DEF Launch, Item
  <2>5. /\ dataset' \in Seq([idx : Nat, n : Nat, buf : Buffer])
        /\ videos' \subseteq DOMAIN dataset' /\ Len(dataset') \in Nat
    BY <1>3 DEF Launch, stored, TypeOK
  <2>6. TypeOK'
    BY <1>3, <2>1, <2>2, <2>3, <2>4, <2>5 DEF Launch, TypeOK
  <2>7. Counted'
    BY <1>3, <2>5 DEF Launch, Counted
  <2> QED
    BY <2>6, <2>7
<1>4. CASE MoveAway
  <2>1. dataset' \in Seq([idx : Nat, n : Nat, buf : Buffer]) /\ videos' \subseteq DOMAIN dataset'
    BY <1>4, ItemFacts DEF MoveAway, Item
  <2>2. TypeOK'
    BY <1>4, <2>1 DEF MoveAway, memory, recVars, TypeOK
  <2>3. Counted'
    <3>1. unencoded' = 0 /\ flushing' = 0 /\ Len(dataset') = 0
      BY <1>4, ItemFacts DEF MoveAway, memory, Shape
    <3> QED
      BY <3>1 DEF Counted
  <2> QED
    BY <2>2, <2>3
<1> QED
  BY <1>1, <1>2, <1>3, <1>4 DEF SessionsNext, sessions, Preload, StartEpisode, SaveEpisode,
    FinalizeDataset, EncodeVideos, Next

-----------------------------------------------------------------------------
(* The phases *)

\* Shape lives through every step.
LEMMA ShapeStep ==
  ASSUME TypeOK, Shape, Counted', [SessionsNext]_sessions
  PROVE  Shape'
<1> USE DEF Shape
<1>0. Len(dataset) \in Nat
  BY DEF TypeOK
<1>1. CASE Preload \/ TeardownFails \/ Kill
  BY <1>1 DEF Preload, TeardownFails, Kill, vars, memory, stored, recVars, Disks
<1>11. CASE UNCHANGED disk /\ (SpinEnds \/ Joined \/ OnImage \/ SaveFailed)
  BY <1>11 DEF SpinEnds, Joined, OnImage, SaveFailed, recVars, saveVars
<1>12. CASE UNCHANGED disk /\ EndSaves
  <2>1. worker # "none" => opened
    OBVIOUS
  <2> QED
    BY <1>12, <2>1 DEF EndSaves, recVars, saveVars
<1>2. CASE Launch
  BY <1>0, <1>2 DEF Launch, stored
<1>3. CASE StartEpisode
  BY <1>3 DEF StartEpisode, Start, OpenDataset, saveVars, Disks
<1>4. CASE SaveEpisode
  <2>1. Len(dataset') = Len(dataset) + 1
    BY <1>4 DEF SaveEpisode, Saved, TypeOK
  <2>2. unencoded' <= Len(dataset) + 1
    BY <1>0, <1>4 DEF SaveEpisode, Saved, TypeOK, Counted
  <2> QED
    BY <1>0, <1>4, <2>1, <2>2 DEF SaveEpisode, Saved, recVars, Disks, TypeOK
<1>5. CASE FinalizeDataset
  BY <1>0, <1>5 DEF FinalizeDataset, Finalize, recVars, Disks, TypeOK
<1>6. CASE EncodeVideos
  BY <1>6 DEF EncodeVideos, Encode, recVars, Disks
<1>7. CASE MoveAway
  BY <1>7, ItemFacts DEF MoveAway, memory, recVars, Disks
<1>8. CASE UNCHANGED disk /\ Stop
  <2>1. /\ opened /\ phase \in {"spin", "stop"} /\ recording' = FALSE
        /\ UNCHANGED <<phase, opened, dataset, unencoded, flushing>>
    BY <1>8 DEF Stop
  <2> QED
    BY <1>8, <2>1
<1>9. CASE UNCHANGED disk /\ Take
  <2>1. /\ opened
        /\ UNCHANGED <<phase, opened, recording, dataset, unencoded, flushing>>
    BY <1>9 DEF Take, recVars
  <2> QED
    BY <1>9, <2>1
<1>10. CASE UNCHANGED sessions
  BY <1>10 DEF sessions, vars
<1> QED
  BY <1>1, <1>2, <1>3, <1>4, <1>5, <1>6, <1>7, <1>8, <1>9, <1>10, <1>11, <1>12 DEF SessionsNext

-----------------------------------------------------------------------------
(* The frames *)

\* No step brings a frame into an episode that is not its own.
LEMMA FramesStep ==
  ASSUME TypeOK, Shape, Frames, [SessionsNext]_sessions
  PROVE  Frames'
<1> USE DEF Frames, NeverMixed, StartsEmpty
<1>0. buffer.n \in Nat /\ frames \in Nat /\ next \in Nat /\ Total \in Nat
  BY DEF TypeOK, Buffer, Total
<1>1. CASE Preload \/ SpinEnds \/ Joined \/ TeardownFails \/ Kill \/ FinalizeDataset \/ EncodeVideos
  BY <1>1 DEF Preload, SpinEnds, Joined, TeardownFails, Kill, FinalizeDataset, Finalize,
    EncodeVideos, Encode, vars, memory, stored, recVars, saveVars
<1>2. CASE Launch
  BY <1>2, ItemFacts DEF Launch, stored
<1>3. CASE StartEpisode
  BY <1>3, <1>0, ItemFacts DEF StartEpisode, Start, saveVars, Shape
<1>4. CASE SaveEpisode
  <2> DEFINE x == [idx |-> item.idx, n |-> item.n, buf |-> item.buf]
  <2>1. x.n = item.n /\ x.buf = item.buf
    OBVIOUS
  <2>2. dataset' = Append(dataset, x) /\ UNCHANGED <<recording, frames, buffer, queue, item>>
    BY <1>4 DEF SaveEpisode, Saved, recVars
  <2>3. x \in Item
    BY DEF TypeOK, Item
  <2> HIDE DEF x
  <2>4. \A i \in DOMAIN dataset' : dataset'[i] = x \/ (i \in DOMAIN dataset /\ dataset'[i] = dataset[i])
    <3>1. dataset \in Seq(Item)
      BY DEF TypeOK, Item
    <3> QED
      BY <2>2, <2>3, <3>1, AppendFacts
  <2> QED
    BY <2>1, <2>2, <2>4
<1>5. CASE OnImage
  <2>1. PICK added \in BOOLEAN :
          /\ frames' = IF added THEN frames + 1 ELSE frames
          /\ buffer' = IF added THEN [buffer EXCEPT !.n = @ + 1] ELSE buffer
    BY <1>5 DEF OnImage
  <2>2. ASSUME added PROVE buffer'.n <= frames'
    <3> DEFINE b == [buffer EXCEPT !.n = buffer.n + 1]
    <3>1. buffer' = b /\ frames' = frames + 1
      BY <2>1, <2>2
    <3>2. b.n = buffer.n + 1
      BY OneFrameMore DEF TypeOK
    <3> HIDE DEF b
    <3> QED
      BY <1>0, <3>1, <3>2
  <2>3. ASSUME ~added PROVE buffer'.n <= frames'
    <3>1. buffer' = buffer /\ frames' = frames
      BY <2>1, <2>3
    <3> QED
      BY <3>1
  <2>4. buffer'.n <= frames'
    BY <2>2, <2>3
  <2> QED
    BY <1>5, <2>4 DEF OnImage, saveVars
<1>6. CASE Stop
  <2>1. PICK n \in Nat, b \in Buffer :
          /\ b.n <= n /\ frames' = n
          /\ Discard \/ HandOver(n, b)
    BY <1>6, <1>0, StopEnds
  <2>2. recording' = FALSE /\ UNCHANGED <<item, dataset>>
    BY <1>6 DEF Stop
  <2>3. CASE Discard
    BY <1>0, <2>1, <2>2, <2>3, ItemFacts DEF Discard
  <2>4. CASE HandOver(n, b)
    <3> DEFINE x == [idx |-> episode, n |-> n, buf |-> b]
    <3>1. x.n = n /\ x.buf = b /\ x \in Item
      BY DEF TypeOK, Item
    <3>2. queue' = Append(queue, x) /\ buffer' = Fresh(next + 1) /\ next + 1 \in Nat
      BY <1>0, <2>4 DEF HandOver
    <3> HIDE DEF x
    <3>3. \A i \in DOMAIN queue' : queue'[i] = x \/ (i \in DOMAIN queue /\ queue'[i] = queue[i])
      BY <3>1, <3>2, AppendFacts DEF TypeOK, Item
    <3> QED
      BY <2>1, <2>2, <3>1, <3>2, <3>3, ItemFacts
  <2> QED
    BY <2>1, <2>3, <2>4
<1>7. CASE EndSaves
  <2>1. CASE queue' = Append(queue, Pill)
    <3>1. \A i \in DOMAIN queue' : queue'[i] = Pill \/ (i \in DOMAIN queue /\ queue'[i] = queue[i])
      <4>1. queue \in Seq(Item) /\ Pill \in Item
        BY ItemFacts DEF TypeOK, Item
      <4> QED
        BY <2>1, <4>1, AppendFacts
    <3> QED
      BY <1>7, <3>1, ItemFacts DEF EndSaves, recVars, saveVars
  <2>2. CASE UNCHANGED queue
    BY <1>7, <2>2 DEF EndSaves, recVars, saveVars
  <2> QED
    BY <1>7, <2>1, <2>2 DEF EndSaves
<1>8. CASE Take
  <2>1. /\ item' = queue[1] /\ 1 \in DOMAIN queue
        /\ \A i \in DOMAIN queue' : i + 1 \in DOMAIN queue /\ queue'[i] = queue[i + 1]
    BY <1>8, TailFacts DEF Take, TypeOK
  <2> QED
    BY <1>8, <2>1 DEF Take, recVars
<1>9. CASE SaveFailed
  BY <1>9, <1>0, ItemFacts DEF SaveFailed, recVars
<1>10. CASE MoveAway
  BY <1>10, ItemFacts DEF MoveAway, memory, recVars
<1>11. CASE UNCHANGED sessions
  BY <1>11 DEF sessions, vars
<1> QED
  BY <1>1, <1>2, <1>3, <1>4, <1>5, <1>6, <1>7, <1>8, <1>9, <1>10, <1>11 DEF SessionsNext

-----------------------------------------------------------------------------
(* The videos *)

\* An episode without its video keeps the folder from being loaded.
LEMMA VideosStep ==
  ASSUME TypeOK, Shape, Videos, [SessionsNext]_sessions
  PROVE  Videos'
<1> USE DEF Videos, LoadsComplete
<1>0. /\ Len(dataset) \in Nat /\ DOMAIN dataset = 1..Len(dataset)
      /\ unencoded \in Nat /\ flushing \in Nat
  BY DEF TypeOK
<1>1. CASE Preload \/ TeardownFails
  BY <1>1 DEF Preload, TeardownFails, vars, memory, stored
<1>10. CASE Kill
  <2>1. worker = "saving" /\ dataset = <<>> => opened
    BY DEF Shape
  <2> QED
    BY <1>10, <2>1 DEF Kill, memory
<1>11. CASE UNCHANGED disk /\ (SpinEnds \/ Joined \/ OnImage \/ EndSaves \/ SaveFailed \/ Take)
  BY <1>11 DEF SpinEnds, Joined, OnImage, EndSaves, SaveFailed, Take, recVars, saveVars
<1>2. CASE UNCHANGED disk /\ Stop
  BY <1>2 DEF Stop
<1>3. CASE Launch
  BY <1>3 DEF Launch, stored
<1>4. CASE StartEpisode
  <2>1. CASE opened
    BY <1>4, <2>1 DEF StartEpisode, Start, OpenDataset, saveVars
  <2>2. CASE ~opened
    <3>1. unencoded = 0 /\ videos = 1..Len(dataset)
      BY <1>0, <1>4, <2>2, ItemFacts DEF StartEpisode, OpenDataset, Shape, TypeOK
    <3>2. \A k \in Nat : k - 0 = k
      OBVIOUS
    <3>3. Len(dataset) - unencoded = Len(dataset)
      BY <1>0, <3>1, <3>2
    <3> QED
      BY <1>0, <1>4, <2>2, <3>1, <3>3 DEF StartEpisode, Start, OpenDataset, saveVars
  <2> QED
    BY <2>1, <2>2
<1>5. CASE SaveEpisode
  <2>1. Len(dataset') = Len(dataset) + 1
    BY <1>5 DEF SaveEpisode, Saved, TypeOK
  <2>2. ASSUME videos = 1..Len(dataset) - unencoded
        PROVE  videos' = 1..Len(dataset') - unencoded'
    <3>1. CASE unencoded + 1 = Batch
      <4>1. /\ videos' = videos \cup (Len(dataset) + 1 - unencoded)..(Len(dataset) + 1)
            /\ unencoded' = 0
        BY <1>5, <3>1 DEF SaveEpisode, Saved
      <4>2. (1..Len(dataset) - unencoded) \cup (Len(dataset) + 1 - unencoded)..(Len(dataset) + 1)
              = 1..Len(dataset) + 1
        BY <1>0 DEF Shape, Counted
      <4>3. Len(dataset') - unencoded' = Len(dataset) + 1
        BY <1>0, <2>1, <4>1
      <4> QED
        BY <2>2, <4>1, <4>2, <4>3
    <3>2. CASE unencoded + 1 # Batch
      <4>1. videos' = videos /\ unencoded' = unencoded + 1
        BY <1>5, <3>2 DEF SaveEpisode, Saved
      <4>2. Len(dataset') - unencoded' = Len(dataset) - unencoded
        BY <1>0, <2>1, <4>1
      <4> QED
        BY <2>2, <4>1, <4>2
    <3> QED
      BY <3>1, <3>2
  <2> QED
    BY <1>5, <2>2 DEF SaveEpisode, Saved, recVars
<1>6. CASE FinalizeDataset
  <2>1. phase = "finalize" /\ flushing' = unencoded /\ UNCHANGED <<opened, dataset, videos>>
    BY <1>6 DEF FinalizeDataset, Finalize
  <2>2. CASE ~opened \/ disk # "torn"
    <3>1. disk' = disk /\ phase' # "finalize" /\ (opened => disk # "bare") /\ phase' \in {"encode", "exit"} /\ (phase' = "encode" => opened)
      BY <1>6, <2>1, <2>2 DEF FinalizeDataset, Finalize
    <3> QED
      BY <2>1, <3>1
  <2>3. CASE opened /\ disk = "torn"
    <3>1. videos = 1..Len(dataset) - unencoded /\ phase' = "encode"
      BY <1>6, <2>1, <2>3 DEF FinalizeDataset, Finalize
    <3>2. disk' = IF flushing' > 0 THEN "bare" ELSE "whole"
      BY <1>6, <2>3 DEF FinalizeDataset
    <3>3. CASE unencoded > 0
      BY <2>1, <3>1, <3>2, <3>3
    <3>4. CASE unencoded = 0
      <4>1. Len(dataset) - unencoded = Len(dataset) /\ ~(flushing' > 0)
        BY <1>0, <2>1, <3>4
      <4> QED
        BY <1>0, <2>1, <3>1, <3>2, <4>1
    <3> QED
      BY <1>0, <3>3, <3>4
  <2> QED
    BY <2>2, <2>3
<1>7. CASE EncodeVideos
  <2>1. /\ phase = "encode" /\ phase' = "exit" /\ UNCHANGED dataset
        /\ videos' = videos \cup (Len(dataset) + 1 - flushing)..Len(dataset)
        /\ disk' = IF disk = "bare" THEN "whole" ELSE disk
    BY <1>7 DEF EncodeVideos, Encode
  <2>2. disk = "whole" \/ disk = "bare" => videos' = 1..Len(dataset)
    <3>1. (1..Len(dataset) - flushing) \cup (Len(dataset) + 1 - flushing)..Len(dataset)
            = 1..Len(dataset)
      BY <1>0 DEF Shape, Counted
    <3>2. 1..Len(dataset) \cup (Len(dataset) + 1 - flushing)..Len(dataset) = 1..Len(dataset)
      BY <1>0 DEF Shape, Counted
    <3> QED
      BY <1>0, <2>1, <3>1, <3>2
  <2> QED
    BY <1>0, <2>1, <2>2
<1>8. CASE MoveAway
  BY <1>8 DEF MoveAway, memory
<1>9. CASE UNCHANGED sessions
  BY <1>9 DEF sessions, vars
<1> QED
  BY <1>1, <1>2, <1>3, <1>4, <1>5, <1>6, <1>7, <1>8, <1>9, <1>10, <1>11 DEF SessionsNext

-----------------------------------------------------------------------------
(* The numbers *)

\* Whatever is discarded, queued or lost to a failed save, the next index stays ahead.
LEMMA NumberedStep ==
  ASSUME TypeOK, Shape, Numbered, [SessionsNext]_sessions
  PROVE  Numbered'
<1> USE DEF Numbered, AnnouncedIsNew, Saving, Total
<1>0. /\ Resumed \in Nat /\ Len(dataset) \in Nat /\ Len(queue) \in Nat
      /\ next \in Nat /\ episode \in Nat
  BY DEF TypeOK
<1>1. CASE Preload \/ SpinEnds \/ Joined \/ TeardownFails \/ Kill \/ FinalizeDataset \/ EncodeVideos \/ OnImage
  BY <1>1 DEF Preload, SpinEnds, Joined, TeardownFails, Kill, FinalizeDataset, Finalize,
    EncodeVideos, Encode, OnImage, vars, memory, stored, recVars, saveVars
<1>2. CASE Launch \/ MoveAway
  BY <1>2 DEF Launch, MoveAway, memory, recVars, Shape
<1>3. CASE StartEpisode
  BY <1>0, <1>3, ItemFacts DEF StartEpisode, Start, saveVars, Shape
<1>4. CASE SaveEpisode
  <2>1. Len(dataset') = Len(dataset) + 1
    BY <1>4 DEF SaveEpisode, Saved, TypeOK
  <2>2. /\ worker = "saving" /\ worker' = "waiting" /\ phase # "exit"
        /\ UNCHANGED <<phase, opened, recording, episode, next, queue>>
    BY <1>4 DEF SaveEpisode, Saved, recVars
  <2> QED
    BY <1>0, <2>1, <2>2 DEF Shape
<1>5. CASE SaveFailed
  BY <1>0, <1>5 DEF SaveFailed, recVars
<1>6. CASE Stop
  <2>1. Discard \/ \E n \in Nat, b \in Buffer : HandOver(n, b)
    BY <1>6, StopEnds
  <2>2. recording' = FALSE /\ UNCHANGED <<phase, opened, dataset>>
    BY <1>6 DEF Stop
  <2>3. CASE Discard
    BY <2>2, <2>3 DEF Discard
  <2>4. ASSUME NEW n \in Nat, NEW b \in Buffer, HandOver(n, b)
        PROVE  Numbered'
    <3> DEFINE x == [idx |-> episode, n |-> n, buf |-> b]
    <3>1. x \in Item /\ queue' = Append(queue, x)
      BY <2>4 DEF HandOver, TypeOK, Item
    <3> HIDE DEF x
    <3>2. Len(queue') = Len(queue) + 1
      BY <3>1, AppendFacts DEF TypeOK, Item
    <3>3. next' = next + 1 /\ (worker' = "saving" => worker = "saving")
      BY <2>4 DEF HandOver
    <3> QED
      BY <1>0, <2>2, <3>2, <3>3
  <2> QED
    BY <2>1, <2>3, <2>4
<1>7. CASE EndSaves
  BY <1>7 DEF EndSaves, recVars, saveVars
<1>8. CASE Take
  <2>1. Len(queue') = Len(queue) - 1 /\ worker = "waiting"
    BY <1>8, TailFacts DEF Take, TypeOK
  <2> QED
    BY <1>0, <1>8, <2>1 DEF Take, recVars
<1>9. CASE UNCHANGED sessions
  BY <1>9 DEF sessions, vars
<1> QED
  BY <1>1, <1>2, <1>3, <1>4, <1>5, <1>6, <1>7, <1>8, <1>9 DEF SessionsNext

-----------------------------------------------------------------------------
(* The theorems *)

\* Every reachable state satisfies the inductive invariant.
THEOREM SessionsInductive == SessionsSpec => []IInv
<1>1. ASSUME SessionsInit
      PROVE  IInv
  <2>1. Init /\ TypeOK /\ Counted
    BY <1>1, Initially DEF SessionsInit
  <2> USE <1>1, <2>1, ItemFacts DEF SessionsInit, Init
  <2>2. Shape
    BY DEF Shape, Disks
  <2>3. Frames
    BY DEF Frames, NeverMixed, StartsEmpty
  <2>4. Videos
    BY DEF Videos, LoadsComplete
  <2>5. Numbered
    BY DEF Numbered, AnnouncedIsNew
  <2> QED
    BY <2>1, <2>2, <2>3, <2>4, <2>5 DEF IInv
<1>2. IInv /\ [SessionsNext]_sessions => IInv'
  BY SessionsTypeStep, ShapeStep, FramesStep, VideosStep, NumberedStep DEF IInv, Shape
<1> QED
  BY <1>1, <1>2, PTL DEF SessionsSpec

\* The recorder's invariant (Inv): types, and frames that stay with their episode although saves
\* fail and clear the buffer being recorded into.
THEOREM FramesStay == SessionsSpec => []Inv
<1>1. IInv => Inv
  BY DEF IInv, Frames, Inv
<1> QED
  BY <1>1, SessionsInductive, PTL

\* A folder that loads has all its videos (LoadsComplete), after any kills and interruptions.
THEOREM FoldersComplete == SessionsSpec => []LoadsComplete
<1>1. IInv => LoadsComplete
  BY DEF IInv, Videos
<1> QED
  BY <1>1, SessionsInductive, PTL

\* An announced number is not in the dataset yet (AnnouncedIsNew).
THEOREM NumbersNew == SessionsSpec => []AnnouncedIsNew
<1>1. IInv => AnnouncedIsNew
  BY DEF IInv, Numbered
<1> QED
  BY <1>1, SessionsInductive, PTL
=============================================================================
