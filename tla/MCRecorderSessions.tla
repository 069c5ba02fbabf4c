------------------------- MODULE MCRecorderSessions -------------------------
(* Model checking RecorderSessions: the constants get values in the .cfg file. *)
EXTENDS RecorderSessions
=============================================================================
