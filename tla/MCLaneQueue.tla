----------------------------- MODULE MCLaneQueue -----------------------------
(* LaneQueue for TLC. *)
EXTENDS LaneQueue
=============================================================================
