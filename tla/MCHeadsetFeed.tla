--------------------------- MODULE MCHeadsetFeed ---------------------------
(* The instances of HeadsetFeed that TLC checks. *)
EXTENDS HeadsetFeed
=============================================================================
