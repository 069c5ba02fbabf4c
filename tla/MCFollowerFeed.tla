--------------------------- MODULE MCFollowerFeed ---------------------------
(* The instances of FollowerFeed that TLC checks: one joint that stands for all. *)
EXTENDS FollowerFeed
MCPoses == 0..3
=============================================================================
