--------------------------- MODULE MCTeleopBridge ---------------------------
(* The instances of TeleopBridge that TLC checks. *)
EXTENDS TeleopBridge
=============================================================================
