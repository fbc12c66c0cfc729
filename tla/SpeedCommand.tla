---------------------------- MODULE SpeedCommand ----------------------------
(***************************************************************************)
(* The numbers of the speed loop while the gate is open: a cmd_vel becomes *)
(* two motor speeds (DifferentialDriveKinematics), the speeds become the   *)
(* bytes of a frame (MotorCanProtocol), the motors turn the wheels, and    *)
(* the bytes of a speed reply become wheel speeds again. When a frame may  *)
(* be sent at all is the matter of MotorControlNode.                       *)
(*                                                                         *)
(* The units of a command and those of a reply are configured apart: the   *)
(* controller takes whole revolutions per minute and reports tenths.       *)
(*                                                                         *)
(* A double is shown as an integer in units of 1/One, of which one in every *)
(* gap is a double: the gap doubles where the significand would outgrow     *)
(* its bits. The result of each operation is rounded to the nearest double, *)
(* ties to even. Twists whose wheel speeds overflow a double are left out.  *)
(***************************************************************************)
EXTENDS Integers

CONSTANTS
  One,             \* the unit of a double is 1/One
  Half,            \* the least number with all significant bits, 2^52
  Gaps,            \* how far two doubles may be apart: the powers of two
  Linear, Angular, \* the velocities a cmd_vel may carry, in 1/One
  HalfSeparation,  \* wheel_separation_m / 2, in 1/One
  RpmPerMps,       \* gear_ratio * 60 / (2 pi wheel_radius_m), in 1/One
  Limit,           \* max_motor_speed_rpm
  MaxSpeedRpm,     \* kMaxSpeedRpm
  UnitsPerRpm,     \* 1 / rpm_resolution, of a command
  FeedbackUnitsPerRpm, \* 1 / feedback_rpm_resolution, of a reply
  InvertLeft, InvertRight,
  Tolerance        \* what the rounding may add up to, in units of a command

(* The node refuses a limit above kMaxSpeedRpm when it is constructed. *)
ASSUME SpeedAssumption ==
  /\ One \in Nat \ {0} /\ Half \in Nat \ {0}
  /\ Gaps \subseteq Nat \ {0} /\ 1 \in Gaps
  /\ Linear \subseteq Int /\ Angular \subseteq Int
  /\ HalfSeparation \in Nat /\ RpmPerMps \in Nat
  /\ Limit \in Nat \ {0} /\ MaxSpeedRpm \in Nat
  /\ Limit <= MaxSpeedRpm
  /\ UnitsPerRpm \in {1, 10} /\ FeedbackUnitsPerRpm \in {1, 10}
  /\ 2 * (MaxSpeedRpm * UnitsPerRpm) < 32768
  /\ 2 * (MaxSpeedRpm * FeedbackUnitsPerRpm) < 32768
  /\ InvertLeft \in BOOLEAN /\ InvertRight \in BOOLEAN
  /\ Tolerance \in Nat

VARIABLES
  linear_velocity_mps,
  angular_velocity_radps,
  frame,       \* the speed bytes the drive was sent last
  refused,     \* the last control callback could not encode its speeds
  wheel_rpm,   \* the wheel speeds published last
  asked,       \* history: the twist "frame" was computed from
  measured     \* history: wheel_rpm was measured under "frame"

twist == <<linear_velocity_mps, angular_velocity_radps>>
feedback == <<wheel_rpm, measured>>
vars == <<twist, frame, refused, feedback, asked>>

Magnitude(n) == IF n >= 0 THEN n ELSE -n
Greatest(a, b) == IF a >= b THEN a ELSE b
Least(a, b) == IF a <= b THEN a ELSE b
WithSign(n, m) == IF n >= 0 THEN m ELSE -m

-----------------------------------------------------------------------------
(* Arithmetic of doubles. *)

(* n / d to the nearest integer, ties to the even one, for n >= 0. *)
HalfEven(n, d) ==
  n \div d + (IF 2 * (n % d) > d \/ (2 * (n % d) = d /\ (n \div d) % 2 = 1)
              THEN 1 ELSE 0)

(* The distance of the doubles around n / d, for n >= 0. *)
Spacing(n, d) ==
  LET apart == {g \in Gaps : g = 1 \/ n \div d >= g * Half}
  IN  CHOOSE g \in apart : \A h \in apart : h <= g

(* The double nearest to n / d. *)
Double(n, d) ==
  LET gap == Spacing(Magnitude(n), d)
  IN  WithSign(n, gap * HalfEven(Magnitude(n), d * gap))

Sum(a, b) == Double(a + b, 1)
Product(a, b) == Double(a * b, One)
Quotient(a, b) == Double(a * One, b)

-----------------------------------------------------------------------------
(* DifferentialDriveKinematics *)

Inverted(w) == [left  |-> IF InvertLeft THEN -w.left ELSE w.left,
                right |-> IF InvertRight THEN -w.right ELSE w.right]

(* Mutant: each wheel is limited for itself. *)
LimitedEach(w) ==
  LET Cut(v) == WithSign(v, Least(Magnitude(v), Limit * One))
  IN  [left |-> Cut(w.left), right |-> Cut(w.right)]

(* Mutant: no limit. *)
Unlimited(w) == w

(* Both speeds are scaled by what brings the larger one down to the limit. *)
Limited(w) ==
  LET largest == Greatest(Magnitude(w.left), Magnitude(w.right))
      scale == Quotient(Limit * One, largest)
  IN  IF largest > Limit * One
      THEN [left |-> Product(w.left, scale), right |-> Product(w.right, scale)]
      ELSE w

(* The speeds before they are limited. *)
WheelRpm(linear, angular) ==
  LET turn == Product(angular, HalfSeparation)
  IN  [left  |-> Product(Sum(linear, -turn), RpmPerMps),
       right |-> Product(Sum(linear, turn), RpmPerMps)]

(* The scale that brings a speed down to the limit is a fraction of One; it *)
(* is shown well enough if the speed is not too large for the unit, which   *)
(* in the code, with a unit of 2^-1074, no double is.                       *)
ASSUME ScaleAssumption ==
  /\ 2 * Limit <= Half
  /\ \A linear \in Linear \cup {0}, angular \in Angular \cup {0} :
       LET w == WheelRpm(linear, angular)
       IN  2 * Greatest(Magnitude(w.left), Magnitude(w.right)) <= One * One

twist_to_motor_rpm(linear, angular) ==
  Inverted(Limited(WheelRpm(linear, angular)))

motor_values_to_wheel(m) == Inverted(m)

-----------------------------------------------------------------------------
(* MotorCanProtocol: a speed as the two bytes of an int16, low byte first. *)

(* Mutant: the sign is not folded into the high byte. *)
write_signed_little_endian(v) == <<v % 256, v \div 256>>

write_int16_little_endian(v) == <<v % 256, (v \div 256) % 256>>

read_int16_little_endian(bytes) ==
  LET value == bytes[1] + 256 * bytes[2]
  IN  IF value <= 32767 THEN value ELSE value - 65536

Encodable(rpm) == Magnitude(rpm) <= MaxSpeedRpm * One

(* std::round takes a half away from zero. *)
encode_speed_units(rpm) ==
  LET units == Double(rpm * UnitsPerRpm, 1)
  IN  WithSign(units, (2 * Magnitude(units) + One) \div (2 * One))

SpeedBytes(m) ==
  [left  |-> write_int16_little_endian(encode_speed_units(m.left)),
   right |-> write_int16_little_endian(encode_speed_units(m.right))]

(* Mutant: a reply is read in the units of a command. *)
DecodedAsCommanded(bytes) ==
  Double(read_int16_little_endian(bytes) * One, UnitsPerRpm)

DecodedSpeed(bytes) ==
  Product(read_int16_little_endian(bytes) * One,
          Double(One, FeedbackUnitsPerRpm))

(* What the controller may answer for a motor that turns as "bytes" told   *)
(* it: the speed in the units of a reply, where these are the coarser ones *)
(* rounded either way.                                                     *)
Replies(bytes) ==
  LET n == read_int16_little_endian(bytes) * FeedbackUnitsPerRpm
  IN  {write_int16_little_endian(r) : r \in {n \div UnitsPerRpm,
                                             -((-n) \div UnitsPerRpm)}}

-----------------------------------------------------------------------------
Stopped == SpeedBytes([left |-> 0, right |-> 0])

(* enable_motors sent a zero and opened the gate. *)
Init ==
  /\ linear_velocity_mps = 0
  /\ angular_velocity_radps = 0
  /\ frame = Stopped
  /\ refused = FALSE
  /\ asked = <<0, 0>>
  /\ wheel_rpm = [left |-> 0, right |-> 0]
  /\ measured = FALSE

CommandCallback(linear, angular) ==
  /\ linear_velocity_mps' = linear
  /\ angular_velocity_radps' = angular
  /\ UNCHANGED <<frame, refused, asked, feedback>>

(* publish_motor_rpm: nothing is sent unless both speeds can be encoded. *)
Publish(m, of) ==
  LET sent == Encodable(m.left) /\ Encodable(m.right)
  IN  /\ refused' = ~sent
      /\ frame' = (IF sent THEN SpeedBytes(m) ELSE frame)
      /\ asked' = (IF sent THEN of ELSE asked)
      /\ measured' = (measured /\ ~sent)
      /\ UNCHANGED <<twist, wheel_rpm>>

ControlCallback ==
  Publish(twist_to_motor_rpm(linear_velocity_mps, angular_velocity_radps),
          twist)

(* The watchdog asks for zero; the next cmd_vel overwrites the twist. *)
WatchdogExpires == Publish([left |-> 0, right |-> 0], <<0, 0>>)

(* The controller answers a speed query; its motors turn as they were told. *)
ReceiveSpeeds ==
  /\ \E left \in Replies(frame.left), right \in Replies(frame.right) :
       wheel_rpm' = motor_values_to_wheel([left  |-> DecodedSpeed(left),
                                           right |-> DecodedSpeed(right)])
  /\ measured' = TRUE
  /\ UNCHANGED <<twist, frame, refused, asked>>

Next ==
  \/ \E linear \in Linear, angular \in Angular :
       CommandCallback(linear, angular)
  \/ ControlCallback
  \/ WatchdogExpires
  \/ ReceiveSpeeds

Spec == Init /\ [][Next]_vars

-----------------------------------------------------------------------------
(* Properties. *)

Bytes == (0 .. 255) \X (0 .. 255)

TypeOK ==
  /\ linear_velocity_mps \in Linear \cup {0}
  /\ angular_velocity_radps \in Angular \cup {0}
  /\ frame \in [left : Bytes, right : Bytes]
  /\ refused \in BOOLEAN
  /\ wheel_rpm \in [left : Int, right : Int]
  /\ asked \in (Linear \cup {0}) \X (Angular \cup {0})
  /\ measured \in BOOLEAN

(* The wheels' speeds for the twist that was asked, in 1/One m/s. *)
Wanted ==
  LET turn == (asked[2] * HalfSeparation) \div One
  IN  [left |-> asked[1] - turn, right |-> asked[1] + turn]

(* The speeds v, of which per_rpm make one rpm, keep the course of the     *)
(* twist up to a tolerance: no wheel turns the wrong way, the two are in   *)
(* the proportion that was asked for, so the robot drives the same curve,  *)
(* and the faster one turns as asked or at the limit.                      *)
KeepsCourse(v, per_rpm, tolerance) ==
  LET fastest == Greatest(Magnitude(Wanted.left), Magnitude(Wanted.right))
  IN  /\ v.left * Wanted.left >= 0 /\ v.right * Wanted.right >= 0
      /\ Magnitude(v.left * Wanted.right - v.right * Wanted.left)
           <= tolerance * fastest
      /\ Magnitude(Greatest(Magnitude(v.left), Magnitude(v.right)) * One
                   - Least((fastest * RpmPerMps) \div One, Limit * One)
                       * per_rpm)
           <= tolerance * One

(* What the wheels do with the frame on the bus keeps the course, whatever *)
(* the limit, the inversions and the sign and width of the numbers.        *)
CourseKept ==
  KeepsCourse(Inverted([left  |-> read_int16_little_endian(frame.left),
                        right |-> read_int16_little_endian(frame.right)]),
              UnitsPerRpm, Tolerance)

(* A reply in coarser units than the command's is off by less than one. *)
ReplyRounding == IF FeedbackUnitsPerRpm < UnitsPerRpm THEN UnitsPerRpm ELSE 0

(* The wheel speeds published once a frame took effect, in rpm, are those  *)
(* of the twist the frame came from, whichever units a command and a reply *)
(* have. They are compared in units small enough for both.                 *)
FeedbackMirrorsCommand ==
  LET Common(rpm) == Double(rpm * FeedbackUnitsPerRpm, One) * UnitsPerRpm
  IN  measured =>
        KeepsCourse([left  |-> Common(wheel_rpm.left),
                     right |-> Common(wheel_rpm.right)],
                    UnitsPerRpm * FeedbackUnitsPerRpm,
                    Tolerance * FeedbackUnitsPerRpm + 2 * ReplyRounding)

(* "The node clamps targets to max_motor_speed_rpm": every target can be   *)
(* sent once it is clamped, so no callback leaves the drive at an older    *)
(* speed.                                                                  *)
CommandIsSent == ~refused
=============================================================================
