--------------------------- MODULE MCSafetyFilter ---------------------------
(* Model checking SafetyFilter: two commanded joints and one of the other arm.  The    *)
(* first joint meets the other arm at the top of its reach, and the floor beyond its   *)
(* reach, where only the extrapolation of a command gets.                              *)
EXTENDS SafetyFilter

MCReach == 0..2

MCColliding ==
  {c \in [Joints -> -4..6] :
     \/ c["pan"] = c["other"] /\ c["lift"] = 2
     \/ c["lift"] = 4}
=============================================================================
