------------------------ MODULE MC_EncoderOdometry ------------------------
(* The instances of EncoderOdometry that TLC checks. *)
EXTENDS EncoderOdometry

Turned(left, right) ==
  [w \in Wheels |-> IF w = "left" THEN left ELSE right]

(* The robot is driven along a path and back on which each wheel may jump, *)
(* turning two counts between two reports, while the other one turns none  *)
(* or one. From their largest value the counter of the left wheel wraps    *)
(* forwards and that of the right one, whose motor is inverted, backwards. *)
PathOfJumps ==
  {Turned(-1, 0), Turned(0, 0), Turned(1, 0), Turned(1, -1), Turned(1, -2)}

(* The robot stands, for the run about the status alone. *)
StandsStill == {AtRest}
=============================================================================
