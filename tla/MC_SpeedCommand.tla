-------------------------- MODULE MC_SpeedCommand --------------------------
(* SpeedCommand for TLC: doubles of eleven significant bits in units of     *)
(* 1/2048.                                                                  *)
EXTENDS SpeedCommand

MCGaps == {2 ^ k : k \in 0 .. 11}

\* Half a metre, two and a half and three metres per second, either way.
MCLinear == {-6144, -5120, -1024, 0, 1024, 5120}

\* Two and three radians per second; the wheels are 0.4762 m apart.
MCAngular == {-4096, 0, 1024, 4096}

MCHalfSeparation == 488
MCRpmPerMps == 230082
=============================================================================
