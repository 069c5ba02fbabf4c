----------------------------- MODULE MCGripper -----------------------------
(* The instance of Gripper that TLC checks. *)
EXTENDS Gripper
=============================================================================
