---------------------------- MODULE FramePairing ----------------------------
(***************************************************************************)
(* How the recorder pairs the images of its cameras into frames            *)
(* (_on_image, _commit_pending, _add_frame of lerobot_recorder.py).  All   *)
(* cameras are triggered together; the images of one camera arrive in      *)
(* order, those of several in any.  What becomes of the frames is          *)
(* EpisodeRecorder's matter.                                               *)
(***************************************************************************)
EXTENDS Integers, Sequences, FiniteSets

CONSTANTS
  Secs,     \* the secondary cameras
  Period,   \* time between triggers
  Offsets,  \* what the stamp of a secondary image may be after its trigger
  Tol,      \* pair_tol_s
  Hist,     \* maxlen of _img_hist
  Learn,    \* offsets from which the bias is taken
  Window,   \* maxlen of _skew_est
  NONE,     \* None
  Triggers, \* bound: triggers of a run
  Mishaps,  \* bound: images lost and frames refused in a run
  StartAt   \* bound: the triggers before which an episode may begin

\* What the pairing keeps of an image, and what is remembered of a frame.
Images == [at : Nat, stamp : Int]
Frames == [prim : Nat, sec : [Secs -> Images], bias : [Secs -> Int]]

ASSUME PairingAssumption ==
  /\ Period \in Nat /\ Tol \in Int
  /\ Hist \in Nat \ {0} /\ Learn \in Nat \ {0} /\ Window \in Nat \ {0}
  /\ Triggers \in Nat /\ Mishaps \in Nat
  /\ Offsets \subseteq Int
  /\ \A o, p \in Offsets : o < p + Period \* the stamps of one camera increase
  /\ NONE \notin Int /\ NONE \notin Frames

VARIABLES
  recording,
  pending,   \* trigger of the pending primary image
  hist,      \* _img_hist: trigger and stamp of the last images
  est,       \* _skew_est: the offsets of the last frames
  dropped,   \* _dropped
  nextPrim, nextSec, \* external: trigger of the next image of the primary, of a secondary
  images,    \* history: primary images that came during the episode
  committed, \* history: frames made in the episode, those the dataset refused included
  ended,     \* history: trigger of the image that was pending when the episode was stopped
  last,      \* history: trigger, secondary images and doubled biases of the last frame
  clean,     \* history: no image has been lost or come too late for its frame
  mishaps

external == <<nextPrim, nextSec, clean>>
ledger == <<images, committed, ended>>
vars == <<recording, pending, hist, est, dropped, ledger, last, external, mishaps>>

Mishap == mishaps < Mishaps /\ mishaps' = mishaps + 1

Dist(a, b) == IF a < b THEN b - a ELSE a - b

\* deque(maxlen=n).append
Push(q, x, n) == IF Len(q) < n THEN Append(q, x) ELSE Append(Tail(q), x)

-----------------------------------------------------------------------------
(* Pairing *)

\* The k-th of a sequence's elements in order of size.
Ranked(s, k) ==
  CHOOSE x \in {s[i] : i \in DOMAIN s} :
    /\ Cardinality({i \in DOMAIN s : s[i] < x}) < k
    /\ k <= Cardinality({i \in DOMAIN s : s[i] <= x})

\* np.median, twice over.
Median2(s) == Ranked(s, (Len(s) + 1) \div 2) + Ranked(s, Len(s) \div 2 + 1)

\* Seeded fault: no bias is learnt.
Bias2None(c) == 0

\* Twice the bias of a camera, once enough offsets are known.
Bias2(c) == IF Len(est[c]) >= Learn THEN Median2(est[c]) ELSE 0

\* Seeded fault: the bias has the wrong sign.
Far2Minus(c, i) == Dist(2 * hist[c][i].stamp, 2 * pending * Period - Bias2(c))

\* Twice the distance of an image from the pending stamp plus the bias.
Far2(c, i) == Dist(2 * hist[c][i].stamp, 2 * pending * Period + Bias2(c))

\* The nearest image, the oldest of equals.
Nearest(c) ==
  CHOOSE i \in DOMAIN hist[c] :
    /\ \A o \in DOMAIN hist[c] : Far2(c, i) <= Far2(c, o)
    /\ \A o \in 1..i - 1 : Far2(c, i) < Far2(c, o)
Best(c) == hist[c][Nearest(c)]

Matches ==
  pending # NONE /\ \A c \in Secs : hist[c] # <<>> /\ Far2(c, Nearest(c)) <= 2 * Tol

\* _add_frame refuses a frame when the robot's state is incomplete or an image unusable.
AddFrame == UNCHANGED mishaps \/ Mishap

\* _commit_pending with a match.
Commit ==
  /\ est' = [c \in Secs |-> Push(est[c], Best(c).stamp - pending * Period, Window)]
  /\ last' = [prim |-> pending, sec |-> [c \in Secs |-> Best(c)],
              bias |-> [c \in Secs |-> Bias2(c)]]
  /\ committed' = committed + 1
  /\ AddFrame

NoFrame == UNCHANGED <<est, last, committed, mishaps>>

-----------------------------------------------------------------------------
(* Images *)

\* The images of a trigger come at most one trigger after those of the others.
PrimaryNext ==
  /\ nextPrim < Triggers /\ \A c \in Secs : nextSec[c] >= nextPrim - 1
  /\ nextPrim' = nextPrim + 1
  /\ clean' = (clean /\ \A c \in Secs : nextSec[c] >= nextPrim)
SecondaryNext(c) ==
  /\ nextSec[c] <= nextPrim /\ nextSec[c] < Triggers
  /\ nextSec' = [nextSec EXCEPT ![c] = @ + 1]

\* Seeded fault: an image that finds no match is replaced without being counted.
OnPrimaryUncounted ==
  /\ PrimaryNext
  /\ IF recording
     THEN /\ pending' = nextPrim /\ images' = images + 1
          /\ IF Matches THEN Commit /\ UNCHANGED dropped ELSE NoFrame /\ UNCHANGED dropped
     ELSE UNCHANGED <<pending, images, dropped>> /\ NoFrame
  /\ UNCHANGED <<recording, hist, ended, nextSec>>

\* _on_image of the primary: the image before it becomes a frame or is dropped, and it waits.
OnPrimary ==
  /\ PrimaryNext
  /\ IF recording
     THEN /\ pending' = nextPrim /\ images' = images + 1
          /\ IF Matches THEN Commit /\ UNCHANGED dropped
             ELSE NoFrame /\ dropped' = IF pending = NONE THEN dropped ELSE dropped + 1
     ELSE UNCHANGED <<pending, images, dropped>> /\ NoFrame
  /\ UNCHANGED <<recording, hist, ended, nextSec>>

\* _on_image of a secondary: into its history, recording or not.
OnSecondary(c) ==
  /\ SecondaryNext(c)
  /\ \E o \in Offsets :
       hist' = [hist EXCEPT ![c] =
         Push(@, [at |-> nextSec[c], stamp |-> nextSec[c] * Period + o], Hist)]
  /\ UNCHANGED <<recording, pending, est, dropped, ledger, last, nextPrim, clean, mishaps>>

\* An image is lost on the way.
Lose ==
  /\ Mishap /\ clean' = FALSE
  /\ \/ /\ nextPrim < Triggers /\ \A c \in Secs : nextSec[c] >= nextPrim - 1
        /\ nextPrim' = nextPrim + 1 /\ UNCHANGED nextSec
     \/ \E c \in Secs : SecondaryNext(c) /\ UNCHANGED nextPrim
  /\ UNCHANGED <<recording, pending, hist, est, dropped, ledger, last>>

-----------------------------------------------------------------------------
(* Episodes *)

\* start() clears the pending image and the counts, but neither the history nor the bias.
Start ==
  /\ ~recording /\ recording' = TRUE /\ nextPrim \in StartAt
  /\ pending' = NONE /\ dropped' = 0
  /\ images' = 0 /\ committed' = 0 /\ ended' = NONE
  /\ UNCHANGED <<hist, est, last, external, mishaps>>

\* stop(): a last try to pair the pending image; without a match it is discarded, uncounted.
Stop ==
  /\ recording /\ recording' = FALSE
  /\ IF Matches THEN Commit ELSE NoFrame
  /\ pending' = NONE /\ ended' = pending
  /\ clean' = (clean /\ \A c \in Secs : nextSec[c] >= nextPrim)
  /\ UNCHANGED <<hist, dropped, images, nextPrim, nextSec>>

-----------------------------------------------------------------------------

Init ==
  /\ recording = FALSE /\ pending = NONE /\ dropped = 0
  /\ hist = [c \in Secs |-> <<>>] /\ est = [c \in Secs |-> <<>>]
  /\ nextPrim = 0 /\ nextSec = [c \in Secs |-> 0] /\ clean = TRUE /\ mishaps = 0
  /\ images = 0 /\ committed = 0 /\ ended = NONE /\ last = NONE

Next == OnPrimary \/ (\E c \in Secs : OnSecondary(c)) \/ Lose \/ Start \/ Stop

Spec == Init /\ [][Next]_vars

-----------------------------------------------------------------------------
(* Properties *)

\* Type correctness, and the lengths of the two queues.
TypeOK ==
  /\ recording \in BOOLEAN /\ clean \in BOOLEAN /\ pending \in 0..Triggers \cup {NONE}
  /\ hist \in [Secs -> Seq(Images)] /\ est \in [Secs -> Seq(Int)]
  /\ \A c \in Secs : Len(hist[c]) <= Hist /\ Len(est[c]) <= Window
  /\ nextPrim \in 0..Triggers /\ nextSec \in [Secs -> 0..Triggers]
  /\ dropped \in 0..Triggers /\ mishaps \in 0..Mishaps
  /\ images \in Nat /\ committed \in Nat /\ ended \in 0..Triggers \cup {NONE}
  /\ last \in Frames \cup {NONE}

\* stop() discarded the image that was pending: it is not the last frame.
LastDiscarded == ended # NONE /\ (last = NONE \/ last.prim # ended)

\* While an episode is recorded, every primary image of it has become one frame (which the dataset
\* may have refused with a warning), was counted as dropped, or is pending. After stop() the same
\* holds but for one image at most: the last one, when it was pending and found no match. It is
\* neither counted nor warned of.
AllAccounted ==
  images - committed - dropped =
    IF recording THEN (IF pending = NONE THEN 0 ELSE 1)
    ELSE (IF LastDiscarded THEN 1 ELSE 0)

\* The invariant of the pairing: its type with the lengths of its queues, and the accounting.
Inv == TypeOK /\ AllAccounted

\* Time runs forward in a dataset: no later frame shows an older image of any camera, with lost
\* and late images, across episodes, and while the bias is being learnt and drifts; except when
\* the bias has fallen by more than a period since the last frame.
NeverBack ==
  [][(last # NONE /\ last' # last) =>
       /\ last'.prim > last.prim
       /\ \A c \in Secs : Bias2(c) + 2 * Period >= last.bias[c]
                           => last'.sec[c].at >= last.sec[c].at]_last

\* While nothing is lost or late, a camera whose frames are paired by the bias stays paired with
\* the images of the same trigger, or of the same neighbour of it.
KeepsTrigger ==
  [][(last # NONE /\ last' # last /\ clean') =>
       \A c \in Secs : Len(est[c]) > Learn =>
         last'.prim - last'.sec[c].at = last.prim - last.sec[c].at]_last
=============================================================================
