--------------------------- MODULE MCFramePairing ---------------------------
(* The instance of FramePairing that TLC checks. *)
EXTENDS FramePairing
=============================================================================
