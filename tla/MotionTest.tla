----------------------------- MODULE MotionTest -----------------------------
(***************************************************************************)
(* MotionTest: the state machine that generates the velocities of a        *)
(* built-in motion test from samples of the odometry and the wheel speeds. *)
(* The node calls update once per control cycle while the test is active,  *)
(* and abort from any of its other callbacks.                              *)
(*                                                                         *)
(* Quantities are integers on a coarse grid. A speed the code computes     *)
(* with a square root or a quotient is rounded down to the grid. The pose  *)
(* is reduced to the coordinate that progress() measures, relative to the  *)
(* origin of the segment; where the robot goes is left to the environment. *)
(* The steering of the S pattern is an arbitrary angular target, within    *)
(* the limit the code clamps it to.                                        *)
(***************************************************************************)
EXTENDS Integers, FiniteSetsExt

CONSTANTS
  Config,       \* motion_test_config_
  Kinds,        \* the patterns that are asked for
  QuarterTurn,  \* pi / 2
  FullTurn,     \* 2 pi
  HalfWidth,    \* half the wheel separation
  Reach         \* bound: the poses that occur, relative to the origin

Positive ==
  {"distance", "angle", "linear_speed", "angular_speed", "linear_accel",
   "angular_accel", "distance_tolerance", "angle_tolerance", "settle_time",
   "segment_timeout", "stall_timeout", "feedback_timeout", "circle_radius",
   "square_side", "circle_timeout", "s_length", "s_radius", "repetitions"}

(* validate *)
Valid(c) ==
  /\ \A field \in Positive : c[field] > 0
  /\ c.s_length > c.distance_tolerance
  /\ c.repetitions <= 100
  /\ c.distance > c.distance_tolerance
  /\ c.angle > c.angle_tolerance
  /\ c.segment_timeout > c.settle_time
  /\ c.stall_timeout < c.segment_timeout
  /\ c.stall_timeout < c.circle_timeout
  /\ c.square_side > c.distance_tolerance
  /\ c.angle_tolerance < QuarterTurn

(* The node is not constructed with a configuration that is not valid. The *)
(* last conjunct is one of the grid: a circle's speed does not round to 0. *)
ASSUME MotionTestAssumption ==
  /\ DOMAIN Config = Positive \cup {"clockwise"}
  /\ \A field \in Positive : Config[field] \in Int
  /\ Config.clockwise \in BOOLEAN
  /\ Valid(Config)
  /\ Kinds \subseteq {"straight", "rotate", "circle", "square", "s"}
  /\ QuarterTurn \in Nat /\ FullTurn \in Nat
  /\ HalfWidth \in Nat
  /\ Reach \subseteq Int
  /\ Config.circle_radius <= Config.linear_speed
  /\ Config.circle_radius <= Config.linear_accel

VARIABLES
  state, kind, segment,
  delta,          \* the pose relative to origin_, or s_distance_
  phase_age,      \* last_time_ - phase_started_
  still_age,      \* last_time_ - still_since_, or Unset
  speed,
  best_progress,
  progress_age,   \* last_time_ - last_progress_time_
  s_angular,
  s_finishing,
  dt,             \* the time between the last two updates
  reading,        \* the last wheel speeds: within stop_rpm?, and their age
  command,        \* what update returned last
  measured        \* history: since it last moved, the wheels were seen at
                  \* rest by a reading that was taken in this phase

ramp == <<speed, s_angular>>
tracking == <<delta, best_progress, progress_age, s_finishing>>
vars == <<state, kind, segment, phase_age, still_age, ramp, tracking, dt,
          reading, command, measured>>

Unset == -1
Ages == 0 .. Config.feedback_timeout + 1
Zero == [linear |-> 0, angular |-> 0]

-----------------------------------------------------------------------------
(* The geometry of the patterns. *)

Least(a, b) == IF a <= b THEN a ELSE b
Greatest(a, b) == IF a >= b THEN a ELSE b
Magnitude(n) == IF n >= 0 THEN n ELSE -n

active == state \in {"running", "settling"}

SegmentsOf(k) ==
  Config.repetitions * (CASE k = "square" -> 8
                          [] k \in {"circle", "s"} -> 1
                          [] OTHER -> 2)

segment_count == SegmentsOf(kind)

angular_segment ==
  \/ kind \in {"rotate", "circle"}
  \/ kind = "square" /\ segment > 0 /\ segment % 2 = 0

segment_target ==
  CASE kind = "circle" -> FullTurn
    [] kind = "s" -> Config.s_length
    [] kind = "square" -> IF angular_segment THEN QuarterTurn
                                             ELSE Config.square_side
    [] OTHER -> IF angular_segment THEN Config.angle ELSE Config.distance

direction ==
  CASE kind = "circle" \/ (kind = "square" /\ angular_segment) ->
         IF Config.clockwise THEN -1 ELSE 1
    [] kind = "square" -> 1
    [] OTHER -> IF segment % 2 = 1 THEN 1 ELSE -1

tolerance == IF angular_segment THEN Config.angle_tolerance
                                ELSE Config.distance_tolerance

(* A rate around the circle: the angular one, or the linear one over the   *)
(* radius if that is less.                                                 *)
CircleRate(angular, linear) ==
  Max({v \in 0 .. angular : v * Config.circle_radius <= linear})

(* Mutant: the linear limit of a circle is forgotten. *)
UnlimitedSpeed ==
  IF kind = "circle" \/ angular_segment THEN Config.angular_speed
                                        ELSE Config.linear_speed

segment_speed ==
  IF kind = "circle"
  THEN CircleRate(Config.angular_speed, Config.linear_speed)
  ELSE IF angular_segment THEN Config.angular_speed ELSE Config.linear_speed

segment_acceleration ==
  IF kind = "circle"
  THEN CircleRate(Config.angular_accel, Config.linear_accel)
  ELSE IF angular_segment THEN Config.angular_accel ELSE Config.linear_accel

s_speed == Least(Config.linear_speed, Config.angular_speed * Config.s_radius)

(* The speed of the faster wheel, at most; a test is not started if this   *)
(* is beyond the limit of the motors.                                      *)
maximum_wheel_speed(k) ==
  CASE k = "s" -> s_speed + Config.angular_speed * HalfWidth
    [] k = "circle" ->
         CircleRate(Config.angular_speed, Config.linear_speed)
           * (Config.circle_radius + HalfWidth)
    [] k = "square" -> Greatest(Config.linear_speed,
                                Config.angular_speed * HalfWidth)
    [] k = "straight" -> Config.linear_speed
    [] OTHER -> Config.angular_speed * HalfWidth

velocity_command(v) ==
  IF kind = "circle"
  THEN [linear |-> Config.circle_radius * v, angular |-> direction * v]
  ELSE IF angular_segment
  THEN [linear |-> 0, angular |-> direction * v]
  ELSE [linear |-> direction * v, angular |-> 0]

(* The highest speed up to "limit" from which "accel" still stops in "gap". *)
BrakingSpeed(limit, accel, gap) ==
  Max({v \in 0 .. limit : v * v <= 2 * accel * Greatest(0, gap)})

(* The value between low and high that is nearest to n. *)
Clamp(n, low, high) == Least(Greatest(n, low), high)

(* Mutant: the target is taken over at once. *)
Jump(from, to, most) == to

(* Mutant: the last step goes past the target. *)
Overshoot(from, to, most) ==
  IF to > from THEN from + most ELSE IF to < from THEN from - most ELSE from

Ramp(from, to, most) == from + Clamp(to - from, -most, most)

-----------------------------------------------------------------------------
(* The environment: the sample an update works on. *)

(* The wheel speeds after a time t: a new reading, or the last grown older. *)
Readings(t) ==
  [still : BOOLEAN, age : 0 .. Least(t - 1, Config.feedback_timeout)]
    \cup {[still |-> reading.still,
           age |-> Least(reading.age + t, Config.feedback_timeout + 1)]}

(* A sample tells the time since the last update, where the robot is, the  *)
(* wheel speeds, and whether the odometry is older than its limit.         *)
Positions == Reach \cap (delta - 1 .. delta + 1)

-----------------------------------------------------------------------------
(* start, abort *)

(* The node starts a test only at rest, by a reading that is not stale. *)
Start(k) ==
  /\ ~active
  /\ state' = "settling"
  /\ kind' = k
  /\ segment' = 0
  /\ delta' = 0
  /\ phase_age' = 0
  /\ progress_age' = 0
  /\ still_age' = Unset
  /\ speed' = 0
  /\ best_progress' = 0
  /\ s_angular' = 0
  /\ s_finishing' = FALSE
  /\ dt' = 0
  /\ \E age \in 0 .. Config.feedback_timeout :
       reading' = [still |-> TRUE, age |-> age]
  /\ command' = Zero
  /\ measured' = FALSE

(* What abort leaves, and the zero that follows it. *)
Aborted ==
  /\ state' = "aborted"
  /\ speed' = 0
  /\ s_angular' = 0
  /\ command' = Zero
  /\ UNCHANGED <<kind, segment, phase_age, still_age, tracking, measured>>

Abort ==
  /\ active
  /\ Aborted
  /\ UNCHANGED <<dt, reading>>

-----------------------------------------------------------------------------
(* update *)

deadline ==
  IF kind = "circle" /\ state = "running" THEN Config.circle_timeout
                                          ELSE Config.segment_timeout

(* Mutant: a wait for standstill has no deadline. *)
OverdueRunning(s) ==
  \/ s.odom_stale
  \/ s.reading.age > Config.feedback_timeout
  \/ s.dt > Config.feedback_timeout
  \/ state = "running" /\ phase_age + s.dt > deadline

(* Stale feedback, a missed control cycle, or the deadline of the phase. *)
Overdue(s) ==
  \/ s.odom_stale
  \/ s.reading.age > Config.feedback_timeout
  \/ s.dt > Config.feedback_timeout
  \/ phase_age + s.dt > deadline

UpdateGivesUp(s) ==
  /\ active /\ Overdue(s)
  /\ Aborted

(* How long the wheels have been still, by this sample. *)
StillFor(s) ==
  IF ~s.reading.still THEN Unset
  ELSE IF still_age = Unset THEN 0 ELSE still_age + s.dt

(* Mutant: the first still reading will do. *)
SettledAtOnce(s) == s.reading.still

Settled(s) == s.reading.still /\ StillFor(s) >= Config.settle_time

Settle(s) ==
  /\ state = "settling" /\ ~Overdue(s)
  /\ still_age' = StillFor(s)
  /\ measured' = (s.reading.still /\ (measured \/ s.reading.age <= phase_age + s.dt))
  /\ command' = Zero

(* Mutant: the phase starts anew at every update. *)
PhaseStartsAnew(s) == phase_age' = 0

PhaseGoesOn(s) == phase_age' = phase_age + s.dt

(* progress_age means nothing before the next segment. *)
UpdateWaits(s) ==
  /\ Settle(s) /\ ~Settled(s)
  /\ delta' = s.delta
  /\ PhaseGoesOn(s)
  /\ UNCHANGED <<state, kind, segment, ramp, best_progress, progress_age,
                 s_finishing>>

UpdateCompletes(s) ==
  /\ Settle(s) /\ Settled(s)
  /\ segment = segment_count
  /\ state' = "completed"
  /\ delta' = s.delta
  /\ PhaseGoesOn(s)
  /\ UNCHANGED <<kind, segment, ramp, best_progress, progress_age,
                 s_finishing>>

UpdateBeginsSegment(s) ==
  /\ Settle(s) /\ Settled(s)
  /\ segment # segment_count
  /\ state' = "running"
  /\ segment' = segment + 1
  /\ delta' = 0
  /\ phase_age' = 0
  /\ progress_age' = 0
  /\ speed' = 0
  /\ best_progress' = 0
  /\ s_angular' = 0
  /\ s_finishing' = FALSE
  /\ UNCHANGED kind

(* The end of a segment's motion: wait for standstill. *)
BeginSettling ==
  /\ state' = "settling"
  /\ phase_age' = 0
  /\ still_age' = Unset
  /\ measured' = FALSE

KeepRunning(s) ==
  /\ PhaseGoesOn(s)
  /\ UNCHANGED <<state, still_age, measured>>

progress(s) == IF kind = "s" THEN s.delta ELSE direction * s.delta

remaining(s) == segment_target - progress(s)

Running(s) ==
  /\ state = "running" /\ ~Overdue(s)
  /\ UNCHANGED <<kind, segment>>

(* The tolerance of the target is reached: ramp down, then settle. *)
UpdateRampsDown(s) ==
  /\ Running(s) /\ kind # "s"
  /\ remaining(s) <= tolerance
  /\ delta' = s.delta
  /\ speed' = Greatest(0, speed - segment_acceleration * s.dt)
  /\ command' = velocity_command(speed')
  /\ IF speed' > 0 THEN KeepRunning(s) ELSE BeginSettling
  /\ progress_age' = progress_age + s.dt
  /\ UNCHANGED <<best_progress, s_angular, s_finishing>>

(* Progress beyond the best so far by more than a quarter of "tol". *)
Progressed(s, tol) == 4 * (progress(s) - best_progress) > tol

Track(s, tol) ==
  /\ best_progress' = (IF Progressed(s, tol) THEN progress(s)
                                             ELSE best_progress)
  /\ progress_age' = (IF Progressed(s, tol) THEN 0
                                            ELSE progress_age + s.dt)

Stalls(s, tol) ==
  ~Progressed(s, tol) /\ progress_age + s.dt > Config.stall_timeout

UpdateDrives(s) ==
  /\ Running(s) /\ kind # "s"
  /\ remaining(s) > tolerance
  /\ ~Stalls(s, tolerance)
  /\ delta' = s.delta
  /\ Track(s, tolerance)
  /\ speed' = Ramp(speed,
                   BrakingSpeed(segment_speed, segment_acceleration,
                                remaining(s) - tolerance),
                   segment_acceleration * s.dt)
  /\ command' = velocity_command(speed')
  /\ KeepRunning(s)
  /\ UNCHANGED <<s_angular, s_finishing>>

(* The end of an S is remembered, and no stall is looked for any more. *)
Finishing(s) == s_finishing \/ remaining(s) <= Config.distance_tolerance

UpdateStalls(s) ==
  /\ state = "running" /\ ~Overdue(s)
  /\ IF kind = "s" THEN ~Finishing(s) /\ Stalls(s, Config.distance_tolerance)
     ELSE remaining(s) > tolerance /\ Stalls(s, tolerance)
  /\ Aborted

(* Mutant: the turn of the robot is not waited for. *)
StoppedDriving == s_finishing' /\ speed' = 0

Stopped == s_finishing' /\ speed' = 0 /\ s_angular' = 0

(* update_s_command: the steering "turn" is arbitrary until the end. *)
UpdateSteers(s, turn) ==
  /\ Running(s) /\ kind = "s"
  /\ s_finishing' = Finishing(s)
  /\ delta' = s.delta
  /\ IF Finishing(s)
     THEN /\ progress_age' = progress_age + s.dt
          /\ UNCHANGED best_progress
     ELSE /\ ~Stalls(s, Config.distance_tolerance)
          /\ Track(s, Config.distance_tolerance)
  /\ speed' = Ramp(speed,
                   IF Finishing(s) THEN 0
                   ELSE BrakingSpeed(s_speed, Config.linear_accel,
                          remaining(s) - Config.distance_tolerance),
                   Config.linear_accel * s.dt)
  /\ s_angular' = Ramp(s_angular, IF Finishing(s) THEN 0 ELSE turn,
                       Config.angular_accel * s.dt)
  /\ command' = [linear |-> speed', angular |-> s_angular']
  /\ IF Stopped THEN BeginSettling ELSE KeepRunning(s)

Turns == -Config.angular_speed .. Config.angular_speed

UpdateWith(s) ==
  \/ UpdateGivesUp(s)
  \/ UpdateWaits(s) \/ UpdateCompletes(s) \/ UpdateBeginsSegment(s)
  \/ UpdateRampsDown(s) \/ UpdateDrives(s) \/ UpdateStalls(s)
  \/ \E turn \in Turns : UpdateSteers(s, turn)

Update ==
  \E t \in 1 .. Config.feedback_timeout + 1 :
    /\ dt' = t
    /\ \E r \in Readings(t) :
         /\ reading' = r
         /\ \E d \in Positions, stale \in BOOLEAN :
              UpdateWith([dt |-> t, reading |-> r, delta |-> d,
                          odom_stale |-> stale])

-----------------------------------------------------------------------------
Init ==
  /\ state = "idle"
  /\ kind \in Kinds
  /\ segment = 0
  /\ delta = 0
  /\ phase_age = 0
  /\ progress_age = 0
  /\ still_age = Unset
  /\ speed = 0
  /\ best_progress = 0
  /\ s_angular = 0
  /\ s_finishing = FALSE
  /\ dt = 0
  /\ reading = [still |-> TRUE, age |-> 0]
  /\ command = Zero
  /\ measured = FALSE

Next == \/ \E k \in Kinds : Start(k)
        \/ Abort
        \/ Update

(* The control timer calls update as long as the test is active. *)
Spec == Init /\ [][Next]_vars

FairSpec == Spec /\ WF_vars(Update)

-----------------------------------------------------------------------------
(* Properties. *)

TypeOK ==
  /\ state \in {"idle", "settling", "running", "completed", "aborted"}
  /\ kind \in Kinds
  /\ segment \in 0 .. segment_count
  /\ delta \in Int
  /\ phase_age \in Nat
  /\ progress_age \in Nat
  /\ still_age \in Nat \cup {Unset}
  /\ speed \in 0 .. (IF kind = "s" THEN s_speed ELSE segment_speed)
  /\ best_progress \in Nat
  /\ s_angular \in Turns
  /\ s_finishing \in BOOLEAN
  /\ dt \in Ages
  /\ reading \in [still : BOOLEAN, age : Ages]
  /\ command \in [linear : Int, angular : Int]
  /\ measured \in BOOLEAN

(* No command makes a wheel turn faster than the node checked against the  *)
(* limit of the motors before it started the test.                         *)
WheelSpeedWasChecked ==
  Magnitude(command.linear) + Magnitude(command.angular) * HalfWidth
    <= maximum_wheel_speed(kind)

(* "Commands accelerate and decelerate within the configured limits": from *)
(* one update to the next neither velocity changes by more than its        *)
(* acceleration allows in the time between, across the changes of phase    *)
(* and direction, unless the test is aborted.                              *)
CommandRamps ==
  [][state' # "aborted" =>
       /\ Magnitude(command'.linear - command.linear)
            <= Config.linear_accel * dt'
       /\ Magnitude(command'.angular - command.angular)
            <= Config.angular_accel * dt']_vars

(* Nothing moves before, and no test completes unless, the standstill was  *)
(* seen in a reading taken since the commands became zero.                 *)
StandstillIsMeasured ==
  [][state = "settling" /\ state' \in {"running", "completed"}
       => measured']_vars

(* No phase outlives its deadline, and a segment short of its end has made *)
(* directed progress within the stall timeout: being pushed back, turning  *)
(* around or oscillating is no progress.                                   *)
PhaseIsBounded ==
  /\ active => phase_age <= deadline
  /\ state = "running"
     => \/ progress_age <= Config.stall_timeout
        \/ IF kind = "s" THEN s_finishing
           ELSE segment_target - direction * delta <= tolerance

Sequence == INSTANCE TestSequence
              WITH SegmentCounts <- {SegmentsOf(k) : k \in Kinds},
                   stage <- CASE state = "settling" -> "rest"
                              [] state = "running" -> "segment"
                              [] OTHER -> state,
                   count <- segment_count,
                   moving <- command # Zero

(* The test implements TestSequence. *)
ImplementsSequence == Sequence!Spec

(* A test ends, whatever the robot and its sensors do. *)
TestEnds == active ~> ~active
=============================================================================
