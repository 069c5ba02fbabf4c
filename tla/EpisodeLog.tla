----------------------------- MODULE EpisodeLog -----------------------------
(***************************************************************************)
(* What the episode recorder promises the operator: every episode long     *)
(* enough to keep is written to the dataset once, whole, and in the order  *)
(* the episodes were recorded.  An episode is its number of frames.        *)
(***************************************************************************)
EXTENDS Naturals, Sequences

CONSTANT Lengths   \* the numbers of frames an episode worth keeping can have

VARIABLES
  accepted,   \* the episodes kept so far, in the order they ended
  written     \* how many of them the dataset holds

Init == accepted = <<>> /\ written = 0

Keep ==
  /\ \E n \in Lengths : accepted' = Append(accepted, n)
  /\ UNCHANGED written

Write ==
  /\ written < Len(accepted)
  /\ written' = written + 1
  /\ UNCHANGED accepted

Next == Keep \/ Write

Spec == Init /\ [][Next]_<<accepted, written>>
=============================================================================
