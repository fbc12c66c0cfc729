------------------------- MODULE MC_ControlReplies -------------------------
(* ControlReplies for TLC. *)
EXTENDS ControlReplies
============================================================================
