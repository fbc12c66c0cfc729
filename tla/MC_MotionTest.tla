--------------------------- MODULE MC_MotionTest ---------------------------
(* The instances of MotionTest that TLC checks. *)
EXTENDS MotionTest

MCConfig ==
  [distance |-> 2, angle |-> 3, linear_speed |-> 1, angular_speed |-> 2,
   linear_accel |-> 1, angular_accel |-> 1, distance_tolerance |-> 1,
   angle_tolerance |-> 1, settle_time |-> 2, segment_timeout |-> 3,
   stall_timeout |-> 2, feedback_timeout |-> 2, circle_radius |-> 1,
   square_side |-> 2, circle_timeout |-> 4, s_length |-> 2, s_radius |-> 1,
   repetitions |-> 1, clockwise |-> TRUE]
(* As MCConfig, but a reading may be used for longer than settling takes. *)
StaleConfig == [MCConfig EXCEPT !.settle_time = 1, !.feedback_timeout = 3]

MCReach == -2 .. 2
MCKinds == {"straight", "rotate", "circle", "square", "s"}
=============================================================================
