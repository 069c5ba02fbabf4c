------------------------- MODULE MCEpisodeRecorder -------------------------
(* Model checking EpisodeRecorder: the constants get values in the .cfg files. *)
EXTENDS EpisodeRecorder
=============================================================================
