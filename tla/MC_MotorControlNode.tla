------------------------ MODULE MC_MotorControlNode ------------------------
(* MotorControlNode for TLC: two motors, a fault mask beside the empty one  *)
(* and timeouts of one or two ticks, so that every age can be below, at and *)
(* past its limit while the others are anywhere.                            *)
EXTENDS MotorControlNode
============================================================================
