-------------------------- MODULE MotionTest_proofs --------------------------
(***************************************************************************)
(* Proofs about MotionTest, for every valid configuration, any number of   *)
(* repetitions, every pattern, every width of the robot and every pose the *)
(* odometry may report.                                                    *)
(***************************************************************************)
EXTENDS MotionTest, WellFoundedInduction, TLAPS

-----------------------------------------------------------------------------
(* Arithmetic. *)

LEMMA ProductIsNatural ==
  \A a, b \in Nat : a * b \in Nat
OBVIOUS

LEMMA ProductGrows ==
  ASSUME NEW a \in Int, NEW b \in Int, NEW c \in Nat, a <= b
  PROVE  a * c <= b * c
<1>1. b - a \in Nat
  OBVIOUS
<1>2. (b - a) * c \in Nat
  BY <1>1, ProductIsNatural
<1>3. (b - a) * c = b * c - a * c
  OBVIOUS
<1> QED
  BY <1>2, <1>3

(* A bounded set of naturals that is not empty has a greatest element. *)
LEMMA GreatestExists ==
  ASSUME NEW n \in Nat, NEW S, S \subseteq 0 .. n, S # {}
  PROVE  Max(S) \in S /\ \A y \in S : Max(S) >= y
<1> DEFINE T == {n - x : x \in S}
<1>1. T \subseteq Nat /\ T # {}
  <2>1. \A x \in S : n - x \in Nat
    OBVIOUS
  <2>2. PICK x \in S : TRUE
    OBVIOUS
  <2>3. n - x \in T
    OBVIOUS
  <2> QED
    BY <2>1, <2>3
<1>2. PICK t \in T : \A y \in T : ~(<<y, t>> \in OpToRel(<, Nat))
  <2> DEFINE R == OpToRel(<, Nat)
  <2>1. IsWellFoundedOn(R, Nat)
    BY NatLessThanWellFounded
  <2> HIDE DEF R, T
  <2>2. \E t \in T : \A y \in T : ~(<<y, t>> \in R)
    BY <1>1, <2>1, WFMin
  <2> QED
    BY <2>2 DEF R
<1>3. \A y \in T : ~(y < t)
  <2> SUFFICES ASSUME NEW y \in T, y < t
               PROVE  FALSE
    OBVIOUS
  <2>1. <<y, t>> \in Nat \X Nat
    BY <1>1
  <2>2. <<y, t>>[1] < <<y, t>>[2]
    OBVIOUS
  <2> QED
    BY <1>2, <2>1, <2>2 DEF OpToRel
<1>4. PICK x \in S : t = n - x
  OBVIOUS
<1>5. \A y \in S : x >= y
  <2> SUFFICES ASSUME NEW y \in S
               PROVE  x >= y
    OBVIOUS
  <2>1. n - y \in T
    OBVIOUS
  <2>2. ~(n - y < n - x)
    BY <1>3, <1>4, <2>1
  <2>3. x \in Int /\ y \in Int
    OBVIOUS
  <2> QED
    BY <2>2, <2>3
<1> QED
  BY <1>5 DEF Max

LEMMA RampBounds ==
  ASSUME NEW from \in Int, NEW to \in Int, NEW most \in Nat,
         NEW low \in Int, NEW high \in Int,
         low <= from, from <= high, low <= to, to <= high
  PROVE  /\ Ramp(from, to, most) \in low .. high
         /\ Magnitude(Ramp(from, to, most) - from) <= most
BY DEF Ramp, Clamp, Least, Greatest, Magnitude

-----------------------------------------------------------------------------
(* The configuration and the geometry. *)

LEMMA ConfigType ==
  /\ \A field \in Positive : Config[field] \in Nat /\ Config[field] > 0
  /\ Config.clockwise \in BOOLEAN
  /\ Kinds \subseteq {"straight", "rotate", "circle", "square", "s"}
  /\ QuarterTurn \in Nat /\ FullTurn \in Nat /\ HalfWidth \in Nat
  /\ Reach \subseteq Int
BY MotionTestAssumption DEF Valid

LEMMA Fields ==
  /\ Config.distance \in Nat /\ Config.angle \in Nat
  /\ Config.linear_speed \in Nat /\ Config.angular_speed \in Nat
  /\ Config.linear_accel \in Nat /\ Config.angular_accel \in Nat
  /\ Config.distance_tolerance \in Nat /\ Config.angle_tolerance \in Nat
  /\ Config.settle_time \in Nat /\ Config.segment_timeout \in Nat
  /\ Config.stall_timeout \in Nat /\ Config.feedback_timeout \in Nat
  /\ Config.circle_radius \in Nat /\ Config.square_side \in Nat
  /\ Config.circle_timeout \in Nat /\ Config.s_length \in Nat
  /\ Config.s_radius \in Nat /\ Config.repetitions \in Nat
  /\ Config.repetitions > 0 /\ Config.distance_tolerance > 0
  /\ Config.angle_tolerance > 0
BY ConfigType DEF Positive

LEMMA CircleRateBounds ==
  ASSUME NEW angular \in Nat, NEW linear \in Nat
  PROVE  /\ CircleRate(angular, linear) \in 0 .. angular
         /\ CircleRate(angular, linear) * Config.circle_radius <= linear
<1> DEFINE S == {v \in 0 .. angular : v * Config.circle_radius <= linear}
<1>1. 0 \in S
  BY Fields
<1>2. Max(S) \in S
  <2>1. S \subseteq 0 .. angular /\ S # {}
    BY <1>1
  <2> HIDE DEF S
  <2> QED
    BY <2>1, GreatestExists
<1> QED
  BY <1>2 DEF CircleRate

LEMMA BrakingSpeedBounds ==
  ASSUME NEW limit \in Nat, NEW accel \in Nat, NEW gap \in Int
  PROVE  BrakingSpeed(limit, accel, gap) \in 0 .. limit
<1> DEFINE S == {v \in 0 .. limit : v * v <= 2 * accel * Greatest(0, gap)}
<1>1. 0 \in S
  <2>1. Greatest(0, gap) \in Nat
    BY DEF Greatest
  <2>2. 2 * accel \in Nat
    OBVIOUS
  <2>3. 2 * accel * Greatest(0, gap) \in Nat
    BY <2>1, <2>2, ProductIsNatural
  <2> QED
    BY <2>3
<1>2. Max(S) \in S
  <2>1. S \subseteq 0 .. limit /\ S # {}
    BY <1>1
  <2> HIDE DEF S
  <2> QED
    BY <2>1, GreatestExists
<1> QED
  BY <1>2 DEF BrakingSpeed

LEMMA SegmentCountType ==
  ASSUME NEW k
  PROVE  SegmentsOf(k) \in Nat
<1> DEFINE each == CASE k = "square" -> 8
                     [] k \in {"circle", "s"} -> 1
                     [] OTHER -> 2
<1> HIDE DEF each
<1>1. each \in Nat
  BY DEF each
<1>2. Config.repetitions * each \in Nat
  BY <1>1, Fields, ProductIsNatural
<1> QED
  BY <1>2 DEF SegmentsOf, each

LEMMA DirectionType == direction \in {-1, 1} /\ direction' \in {-1, 1}
<1>1. direction \in {-1, 1}
  BY DEF direction
<1>2. (direction \in {-1, 1})'
  BY <1>1, PTL
<1> QED
  BY <1>1, <1>2

LEMMA GeometryType ==
  /\ segment_speed \in Nat /\ segment_acceleration \in Nat /\ s_speed \in Nat
  /\ tolerance \in Nat /\ tolerance > 0
  /\ segment_target \in Int /\ deadline \in Nat
  /\ direction \in {-1, 1}
<1>1. s_speed \in Nat
  BY Fields, ProductIsNatural DEF s_speed, Least
<1>2. segment_speed \in Nat
  <2>1. Config.angular_speed \in Nat /\ Config.linear_speed \in Nat
    BY Fields
  <2>2. CircleRate(Config.angular_speed, Config.linear_speed)
          \in 0 .. Config.angular_speed
    BY <2>1, CircleRateBounds
  <2> QED
    BY <2>1, <2>2 DEF segment_speed
<1>3. segment_acceleration \in Nat
  <2>1. Config.angular_accel \in Nat /\ Config.linear_accel \in Nat
    BY Fields
  <2>2. CircleRate(Config.angular_accel, Config.linear_accel)
          \in 0 .. Config.angular_accel
    BY <2>1, CircleRateBounds
  <2> QED
    BY <2>1, <2>2 DEF segment_acceleration
<1>4. tolerance \in Nat /\ tolerance > 0
  BY Fields DEF tolerance
<1>5. segment_target \in Int
  BY Fields, ConfigType DEF segment_target
<1>6. deadline \in Nat
  BY Fields DEF deadline
<1>7. direction \in {-1, 1}
  BY DEF direction
<1> QED
  BY <1>1, <1>2, <1>3, <1>4, <1>5, <1>6, <1>7

(* A speed of the wheels in a segment, in the two velocities. *)
LEMMA VelocityCases ==
  ASSUME NEW v \in Int
  PROVE  /\ velocity_command(v) \in [linear : Int, angular : Int]
         /\ kind = "circle" =>
              velocity_command(v) = [linear  |-> Config.circle_radius * v,
                                     angular |-> direction * v]
         /\ kind # "circle" /\ angular_segment =>
              velocity_command(v) = [linear |-> 0, angular |-> direction * v]
         /\ kind # "circle" /\ ~angular_segment =>
              velocity_command(v) = [linear |-> direction * v, angular |-> 0]
<1>1. direction * v \in Int
  BY GeometryType
<1>2. Config.circle_radius * v \in Int
  BY Fields
<1> QED
  BY <1>1, <1>2 DEF velocity_command

LEMMA StandstillIsZero == velocity_command(0) = Zero
<1>1. 0 \in Int /\ direction * 0 = 0 /\ Config.circle_radius * 0 = 0
  BY GeometryType, Fields
<1>2. CASE kind = "circle"
  BY <1>1, <1>2, VelocityCases DEF Zero
<1>3. CASE kind # "circle" /\ angular_segment
  BY <1>1, <1>3, VelocityCases DEF Zero
<1>4. CASE kind # "circle" /\ ~angular_segment
  BY <1>1, <1>4, VelocityCases DEF Zero
<1> QED
  BY <1>2, <1>3, <1>4

(* Within a segment its geometry stays the same. *)
LEMMA SameSegment ==
  ASSUME kind' = kind, segment' = segment
  PROVE  /\ segment_count' = segment_count
         /\ angular_segment' <=> angular_segment
         /\ segment_speed' = segment_speed
         /\ segment_target' = segment_target
         /\ direction' = direction
         /\ tolerance' = tolerance
         /\ velocity_command(speed)' = velocity_command(speed')
<1>1. angular_segment' <=> angular_segment
  BY DEF angular_segment
<1>2. segment_count' = segment_count
  BY DEF segment_count
<1>3. segment_speed' = segment_speed
  BY <1>1 DEF segment_speed
<1>4. segment_target' = segment_target
  BY <1>1 DEF segment_target
<1>5. direction' = direction
  BY <1>1 DEF direction
<1>6. tolerance' = tolerance
  BY <1>1 DEF tolerance
<1>7. velocity_command(speed)' = velocity_command(speed')
  BY <1>1, <1>5 DEF velocity_command
<1> QED
  BY <1>1, <1>2, <1>3, <1>4, <1>5, <1>6, <1>7

-----------------------------------------------------------------------------
(* The samples, and the types. *)

Samples ==
  [dt : 1 .. Config.feedback_timeout + 1,
   reading : [still : BOOLEAN, age : Ages],
   delta : Int, odom_stale : BOOLEAN]

LEMMA UpdateSample ==
  ASSUME TypeOK, Update
  PROVE  \E s \in Samples : dt' = s.dt /\ reading' = s.reading /\ UpdateWith(s)
<1>1. PICK t \in 1 .. Config.feedback_timeout + 1 :
        /\ dt' = t
        /\ \E r \in Readings(t) :
             /\ reading' = r
             /\ \E d \in Positions, stale \in BOOLEAN :
                  UpdateWith([dt |-> t, reading |-> r, delta |-> d,
                              odom_stale |-> stale])
  BY DEF Update
<1>2. PICK r \in Readings(t) :
        /\ reading' = r
        /\ \E d \in Positions, stale \in BOOLEAN :
             UpdateWith([dt |-> t, reading |-> r, delta |-> d,
                         odom_stale |-> stale])
  BY <1>1
<1>3. PICK d \in Positions, stale \in BOOLEAN :
        UpdateWith([dt |-> t, reading |-> r, delta |-> d,
                    odom_stale |-> stale])
  BY <1>2
<1>4. r \in [still : BOOLEAN, age : Ages]
  <2>1. reading.still \in BOOLEAN /\ reading.age \in Ages
    BY DEF TypeOK
  <2>2. Least(reading.age + t, Config.feedback_timeout + 1) \in Ages
    BY <2>1, Fields DEF Least, Ages
  <2>3. 0 .. Least(t - 1, Config.feedback_timeout) \subseteq Ages
    BY Fields DEF Least, Ages
  <2> QED
    BY <1>2, <2>1, <2>2, <2>3 DEF Readings
<1>5. d \in Int
  BY <1>3, ConfigType DEF Positions
<1> DEFINE s == [dt |-> t, reading |-> r, delta |-> d, odom_stale |-> stale]
<1>6. s \in Samples
  BY <1>4, <1>5 DEF Samples
<1>7. dt' = s.dt /\ reading' = s.reading /\ UpdateWith(s)
  BY <1>1, <1>2, <1>3
<1> QED
  BY <1>6, <1>7

LEMMA SampleFields ==
  ASSUME NEW s \in Samples
  PROVE  /\ s.dt \in Nat /\ s.dt >= 1 /\ s.dt \in Ages
         /\ s.reading \in [still : BOOLEAN, age : Ages]
         /\ s.reading.still \in BOOLEAN /\ s.reading.age \in Nat
         /\ s.delta \in Int /\ s.odom_stale \in BOOLEAN
         /\ progress(s) \in Int /\ remaining(s) \in Int
<1>1. /\ s.dt \in 1 .. Config.feedback_timeout + 1
      /\ s.reading \in [still : BOOLEAN, age : Ages]
      /\ s.delta \in Int /\ s.odom_stale \in BOOLEAN
  BY DEF Samples
<1>2. progress(s) \in Int
  BY <1>1, GeometryType DEF progress
<1> QED
  BY <1>1, <1>2, GeometryType, Fields DEF Ages, remaining

Limit == IF kind = "s" THEN s_speed ELSE segment_speed

LEMMA StateFields ==
  ASSUME TypeOK
  PROVE  /\ kind \in Kinds
         /\ segment \in Nat /\ segment <= segment_count
         /\ segment_count \in Nat
         /\ delta \in Int
         /\ phase_age \in Nat /\ progress_age \in Nat
         /\ still_age \in Nat \cup {Unset}
         /\ speed \in 0 .. Limit /\ speed \in Nat /\ Limit \in Nat
         /\ best_progress \in Nat
         /\ s_angular \in Turns /\ s_angular \in Int
         /\ s_finishing \in BOOLEAN /\ measured \in BOOLEAN
         /\ dt \in Nat
         /\ command \in [linear : Int, angular : Int]
<1>1. Limit \in Nat
  BY GeometryType DEF Limit
<1>2. segment_count \in Nat
  BY SegmentCountType DEF segment_count
<1> QED
  BY <1>1, <1>2, Fields DEF TypeOK, Limit, Turns, Ages

(* TypeOK, as what each action has to establish. *)
TypedPhase ==
  /\ state \in {"idle", "settling", "running", "completed", "aborted"}
  /\ kind \in Kinds /\ segment \in 0 .. segment_count
  /\ phase_age \in Nat /\ still_age \in Nat \cup {Unset}
  /\ measured \in BOOLEAN

TypedMotion ==
  /\ speed \in 0 .. Limit
  /\ s_angular \in Turns
  /\ command \in [linear : Int, angular : Int]

TypedTracking ==
  /\ delta \in Int /\ best_progress \in Nat /\ progress_age \in Nat
  /\ s_finishing \in BOOLEAN

TypedSample == dt \in Ages /\ reading \in [still : BOOLEAN, age : Ages]

LEMMA TypeParts ==
  TypeOK <=> TypedPhase /\ TypedMotion /\ TypedTracking /\ TypedSample
BY DEF TypeOK, TypedPhase, TypedMotion, TypedTracking, TypedSample, Limit

LEMMA AtRest ==
  /\ Zero \in [linear : Int, angular : Int]
  /\ 0 \in Turns
  /\ 0 \in 0 .. Limit /\ 0 \in 0 .. Limit'
  /\ 0 \in 0 .. segment_count /\ 0 \in 0 .. segment_count'
  /\ Unset \notin Nat
<1>1. Zero \in [linear : Int, angular : Int]
  BY DEF Zero
<1>2. 0 \in Turns
  BY Fields DEF Turns
<1>3. Limit \in Nat
  BY GeometryType DEF Limit
<1>4. Limit' \in Nat
  <2>1. segment_speed' \in Nat
    <3>1. CircleRate(Config.angular_speed, Config.linear_speed) \in Nat
      <4>1. Config.angular_speed \in Nat /\ Config.linear_speed \in Nat
        BY Fields
      <4>2. CircleRate(Config.angular_speed, Config.linear_speed)
              \in 0 .. Config.angular_speed
        BY <4>1, CircleRateBounds
      <4> QED
        BY <4>1, <4>2
    <3> QED
      BY <3>1, Fields DEF segment_speed
  <2> QED
    BY <2>1, GeometryType DEF Limit
<1>5. segment_count \in Nat /\ segment_count' \in Nat
  BY SegmentCountType DEF segment_count
<1> QED
  BY <1>1, <1>2, <1>3, <1>4, <1>5 DEF Unset

LEMMA TypePartsNext ==
  ASSUME TypedPhase', TypedMotion', TypedTracking', TypedSample'
  PROVE  TypeOK'
BY DEF TypeOK, TypedPhase, TypedMotion, TypedTracking, TypedSample, Limit

LEMMA Cleared == 0 \in Int /\ 0 \in Nat /\ FALSE \in BOOLEAN
OBVIOUS

LEMMA InitTyped == Init => TypeOK
<1> SUFFICES ASSUME Init PROVE TypeOK
  OBVIOUS
<1>1. TypedPhase
  BY AtRest DEF Init, TypedPhase
<1>2. TypedMotion
  BY AtRest DEF Init, TypedMotion
<1>3. TypedTracking
  BY Cleared DEF Init, TypedTracking
<1>4. TypedSample
  BY Fields DEF Init, TypedSample, Ages
<1> QED
  BY <1>1, <1>2, <1>3, <1>4, TypeParts

LEMMA StartTyped ==
  ASSUME NEW k \in Kinds, TypeOK, Start(k)
  PROVE  TypeOK'
<1>1. TypedPhase'
  BY AtRest DEF Start, TypedPhase
<1>2. TypedMotion'
  BY AtRest DEF Start, TypedMotion
<1>3. TypedTracking'
  BY Cleared DEF Start, TypedTracking
<1>4. TypedSample'
  BY Fields DEF Start, TypedSample, Ages
<1> QED
  BY <1>1, <1>2, <1>3, <1>4, TypePartsNext

LEMMA SampleTyped ==
  ASSUME NEW s \in Samples, dt' = s.dt, reading' = s.reading
  PROVE  TypedSample'
BY SampleFields DEF TypedSample

LEMMA AbortedTyped ==
  ASSUME TypeOK, Aborted
  PROVE  TypedPhase' /\ TypedMotion' /\ TypedTracking'
<1>1. segment_count' = segment_count
  BY DEF Aborted, segment_count
<1>2. TypedPhase'
  BY <1>1 DEF TypeOK, TypedPhase, Aborted
<1>3. TypedMotion'
  BY AtRest DEF TypedMotion, Aborted
<1>4. TypedTracking'
  BY DEF TypeOK, TypedTracking, Aborted, tracking
<1> QED
  BY <1>2, <1>3, <1>4

LEMMA StillForType ==
  ASSUME TypeOK, NEW s \in Samples
  PROVE  StillFor(s) \in Nat \cup {Unset}
BY StateFields, SampleFields DEF StillFor

(* The updates that wait for standstill. *)
LEMMA SettleTyped ==
  ASSUME TypeOK, NEW s \in Samples,
         UpdateWaits(s) \/ UpdateCompletes(s) \/ UpdateBeginsSegment(s)
  PROVE  TypedPhase' /\ TypedMotion' /\ TypedTracking'
<1>1. still_age' \in Nat \cup {Unset}
  BY StillForType DEF UpdateWaits, UpdateCompletes, UpdateBeginsSegment, Settle
<1>2. measured' \in BOOLEAN
  BY StateFields, SampleFields
  DEF UpdateWaits, UpdateCompletes, UpdateBeginsSegment, Settle
<1>3. command' = Zero /\ kind' = kind
  BY DEF UpdateWaits, UpdateCompletes, UpdateBeginsSegment, Settle
<1>4. segment_count' = segment_count
  BY <1>3 DEF segment_count
<1>5. CASE UpdateWaits(s) \/ UpdateCompletes(s)
  <2>1. /\ segment' = segment /\ speed' = speed /\ s_angular' = s_angular
        /\ state' \in {"settling", "completed"}
        /\ phase_age' = phase_age + s.dt /\ progress_age' = progress_age
        /\ delta' = s.delta
        /\ best_progress' = best_progress /\ s_finishing' = s_finishing
    BY <1>5 DEF UpdateWaits, UpdateCompletes, Settle, PhaseGoesOn, ramp
  <2>2. Limit' = Limit
    BY <1>3, <2>1, SameSegment DEF Limit
  <2>3. TypedPhase'
    <3>1. phase_age' \in Nat
      BY <2>1, StateFields, SampleFields
    <3> QED
      BY <1>1, <1>2, <1>3, <1>4, <2>1, <3>1 DEF TypeOK, TypedPhase
  <2>4. TypedMotion'
    BY <1>3, <2>1, <2>2, StateFields, AtRest DEF TypedMotion
  <2>5. TypedTracking'
    BY <2>1, StateFields, SampleFields DEF TypedTracking
  <2> QED
    BY <2>3, <2>4, <2>5
<1>6. CASE UpdateBeginsSegment(s)
  <2>1. segment' \in 0 .. segment_count
    BY <1>6, StateFields DEF UpdateBeginsSegment
  <2>2. TypedPhase'
    BY <1>1, <1>2, <1>3, <1>4, <1>6, <2>1, StateFields
    DEF UpdateBeginsSegment, TypedPhase
  <2>3. TypedMotion'
    BY <1>3, <1>6, AtRest DEF UpdateBeginsSegment, TypedMotion
  <2>4. TypedTracking'
    BY <1>6, Cleared DEF UpdateBeginsSegment, TypedTracking
  <2> QED
    BY <2>2, <2>3, <2>4
<1> QED
  BY <1>5, <1>6

(* What the updates that move have in common. *)
LEMMA RunningPhase ==
  ASSUME TypeOK, NEW s \in Samples, Running(s),
         KeepRunning(s) \/ BeginSettling
  PROVE  TypedPhase'
<1>1. kind' = kind /\ segment' = segment
  BY DEF Running
<1>2. segment_count' = segment_count
  BY <1>1, SameSegment
<1>3. phase_age' \in Nat
  BY StateFields, SampleFields DEF KeepRunning, BeginSettling, PhaseGoesOn
<1>4. /\ still_age' \in Nat \cup {Unset} /\ measured' \in BOOLEAN
      /\ state' \in {"settling", "running"}
  BY StateFields DEF KeepRunning, BeginSettling, Running
<1> QED
  BY <1>1, <1>2, <1>3, <1>4 DEF TypeOK, TypedPhase

LEMMA TrackTyped ==
  ASSUME TypeOK, NEW s \in Samples, NEW tol \in Nat, Track(s, tol)
  PROVE  best_progress' \in Nat /\ progress_age' \in Nat
<1>1. CASE Progressed(s, tol)
  <2>1. 4 * (progress(s) - best_progress) > tol
    BY <1>1 DEF Progressed
  <2>2. progress(s) \in Nat
    BY <2>1, StateFields, SampleFields
  <2> QED
    BY <1>1, <2>2 DEF Track
<1>2. CASE ~Progressed(s, tol)
  BY <1>2, StateFields, SampleFields DEF Track
<1> QED
  BY <1>1, <1>2

(* The new speed of the segment, and how far it is from the old one. *)
LEMMA RampsDownSpeed ==
  ASSUME TypeOK, NEW s \in Samples, UpdateRampsDown(s)
  PROVE  /\ speed' \in 0 .. Limit /\ speed' \in Nat
         /\ Magnitude(speed' - speed) <= segment_acceleration * s.dt
<1>1. segment_acceleration * s.dt \in Nat
  BY GeometryType, SampleFields, ProductIsNatural
<1>2. speed' = Greatest(0, speed - segment_acceleration * s.dt)
  BY DEF UpdateRampsDown
<1> DEFINE most == segment_acceleration * s.dt
<1> HIDE DEF most
<1>3. most \in Nat /\ speed' = Greatest(0, speed - most)
  BY <1>1, <1>2 DEF most
<1>4. /\ speed' \in 0 .. Limit /\ speed' \in Nat
      /\ Magnitude(speed' - speed) <= most
  BY <1>3, StateFields DEF Greatest, Magnitude
<1> QED
  BY <1>4 DEF most

LEMMA DrivesSpeed ==
  ASSUME TypeOK, NEW s \in Samples, UpdateDrives(s)
  PROVE  /\ speed' \in 0 .. Limit /\ speed' \in Nat
         /\ Magnitude(speed' - speed) <= segment_acceleration * s.dt
<1> DEFINE most == segment_acceleration * s.dt
           gap == remaining(s) - tolerance
           target == BrakingSpeed(segment_speed, segment_acceleration, gap)
<1>1. most \in Nat
  BY GeometryType, SampleFields, ProductIsNatural
<1>2. target \in 0 .. segment_speed
  <2>1. gap \in Int
    BY GeometryType, SampleFields
  <2> HIDE DEF gap
  <2> QED
    BY <2>1, GeometryType, BrakingSpeedBounds
<1>3. Limit = segment_speed
  BY DEF UpdateDrives, Limit
<1>4. speed' = Ramp(speed, target, most)
  BY DEF UpdateDrives
<1> HIDE DEF most, target
<1>5. speed' \in 0 .. Limit /\ Magnitude(speed' - speed) <= most
  <2> DEFINE low == 0
             high == Limit
  <2>1. /\ speed \in Int /\ target \in Int /\ low \in Int /\ high \in Int
        /\ low <= speed /\ speed <= high /\ low <= target /\ target <= high
    BY <1>2, <1>3, StateFields
  <2> HIDE DEF low, high
  <2>2. /\ Ramp(speed, target, most) \in low .. high
        /\ Magnitude(Ramp(speed, target, most) - speed) <= most
    BY <1>1, <2>1, RampBounds
  <2> QED
    BY <1>4, <2>2 DEF low, high
<1> QED
  BY <1>5, StateFields DEF most

LEMMA SteersSpeed ==
  ASSUME TypeOK, NEW s \in Samples, NEW turn \in Turns, UpdateSteers(s, turn)
  PROVE  /\ speed' \in 0 .. Limit /\ speed' \in Nat
         /\ s_angular' \in Turns /\ s_angular' \in Int
         /\ Magnitude(speed' - speed) <= Config.linear_accel * s.dt
         /\ Magnitude(s_angular' - s_angular) <= Config.angular_accel * s.dt
<1> DEFINE most == Config.linear_accel * s.dt
           bend == Config.angular_accel * s.dt
           gap == remaining(s) - Config.distance_tolerance
           target == IF Finishing(s) THEN 0
                     ELSE BrakingSpeed(s_speed, Config.linear_accel, gap)
           wanted == IF Finishing(s) THEN 0 ELSE turn
<1>1. most \in Nat /\ bend \in Nat
  BY Fields, SampleFields, ProductIsNatural
<1>2. target \in 0 .. s_speed
  <2>1. gap \in Int
    BY Fields, SampleFields
  <2> HIDE DEF gap
  <2>2. BrakingSpeed(s_speed, Config.linear_accel, gap) \in 0 .. s_speed
    BY <2>1, GeometryType, Fields, BrakingSpeedBounds
  <2> QED
    BY <2>2, GeometryType
<1>3. wanted \in Turns
  BY AtRest
<1>4. Limit = s_speed
  BY DEF UpdateSteers, Limit
<1>5. speed' = Ramp(speed, target, most)
  BY DEF UpdateSteers
<1>6. s_angular' = Ramp(s_angular, wanted, bend)
  BY DEF UpdateSteers
<1> HIDE DEF most, bend, target, wanted
<1>7. speed' \in 0 .. Limit /\ Magnitude(speed' - speed) <= most
  <2> DEFINE low == 0
             high == Limit
  <2>1. /\ speed \in Int /\ target \in Int /\ low \in Int /\ high \in Int
        /\ low <= speed /\ speed <= high /\ low <= target /\ target <= high
    BY <1>2, <1>4, StateFields
  <2> HIDE DEF low, high
  <2>2. /\ Ramp(speed, target, most) \in low .. high
        /\ Magnitude(Ramp(speed, target, most) - speed) <= most
    BY <1>1, <2>1, RampBounds
  <2> QED
    BY <1>5, <2>2 DEF low, high
<1>8. s_angular' \in Turns /\ Magnitude(s_angular' - s_angular) <= bend
  <2> DEFINE high == Config.angular_speed
             low == -Config.angular_speed
  <2>1. /\ s_angular \in Int /\ wanted \in Int /\ low \in Int /\ high \in Int
        /\ low <= s_angular /\ s_angular <= high
        /\ low <= wanted /\ wanted <= high
    BY <1>3, StateFields, Fields DEF Turns
  <2> HIDE DEF low, high
  <2>2. /\ Ramp(s_angular, wanted, bend) \in low .. high
        /\ Magnitude(Ramp(s_angular, wanted, bend) - s_angular) <= bend
    BY <1>1, <2>1, RampBounds
  <2> QED
    BY <1>6, <2>2 DEF low, high, Turns
<1> QED
  BY <1>7, <1>8, StateFields, Fields DEF most, bend, Turns

LEMMA RampsDownTyped ==
  ASSUME TypeOK, NEW s \in Samples, UpdateRampsDown(s)
  PROVE  TypedPhase' /\ TypedMotion' /\ TypedTracking'
<1>1. Running(s) /\ (KeepRunning(s) \/ BeginSettling)
  BY DEF UpdateRampsDown
<1>2. kind' = kind /\ segment' = segment
  BY <1>1 DEF Running
<1>3. Limit' = Limit
  BY <1>2, SameSegment DEF Limit
<1>4. TypedMotion'
  <2>1. command' \in [linear : Int, angular : Int]
    BY RampsDownSpeed, VelocityCases DEF UpdateRampsDown
  <2>2. s_angular' = s_angular
    BY DEF UpdateRampsDown
  <2> QED
    BY <1>3, <2>1, <2>2, RampsDownSpeed, StateFields DEF TypedMotion
<1>5. TypedTracking'
  BY StateFields, SampleFields DEF UpdateRampsDown, TypedTracking
<1> QED
  BY <1>1, <1>4, <1>5, RunningPhase

LEMMA DrivesTyped ==
  ASSUME TypeOK, NEW s \in Samples, UpdateDrives(s)
  PROVE  TypedPhase' /\ TypedMotion' /\ TypedTracking'
<1>1. Running(s) /\ KeepRunning(s) /\ Track(s, tolerance)
  BY DEF UpdateDrives
<1>2. kind' = kind /\ segment' = segment
  BY <1>1 DEF Running
<1>3. Limit' = Limit
  BY <1>2, SameSegment DEF Limit
<1>4. TypedMotion'
  <2>1. command' \in [linear : Int, angular : Int]
    BY DrivesSpeed, VelocityCases DEF UpdateDrives
  <2>2. s_angular' = s_angular
    BY DEF UpdateDrives
  <2> QED
    BY <1>3, <2>1, <2>2, DrivesSpeed, StateFields DEF TypedMotion
<1>5. TypedTracking'
  <2>1. best_progress' \in Nat /\ progress_age' \in Nat
    BY <1>1, GeometryType, TrackTyped
  <2> QED
    BY <2>1, StateFields, SampleFields DEF UpdateDrives, TypedTracking
<1> QED
  BY <1>1, <1>4, <1>5, RunningPhase

LEMMA SteersTyped ==
  ASSUME TypeOK, NEW s \in Samples, NEW turn \in Turns, UpdateSteers(s, turn)
  PROVE  TypedPhase' /\ TypedMotion' /\ TypedTracking'
<1>1. Running(s) /\ (KeepRunning(s) \/ BeginSettling)
  BY DEF UpdateSteers
<1>2. kind' = kind /\ segment' = segment
  BY <1>1 DEF Running
<1>3. Limit' = Limit
  BY <1>2, SameSegment DEF Limit
<1>4. TypedMotion'
  <2>1. command' = [linear |-> speed', angular |-> s_angular']
    BY DEF UpdateSteers
  <2> QED
    BY <1>3, <2>1, SteersSpeed DEF TypedMotion
<1>5. TypedTracking'
  <2>1. best_progress' \in Nat /\ progress_age' \in Nat
    <3>1. CASE Finishing(s)
      BY <3>1, StateFields, SampleFields DEF UpdateSteers
    <3>2. CASE ~Finishing(s)
      BY <3>2, Fields, TrackTyped DEF UpdateSteers
    <3> QED
      BY <3>1, <3>2
  <2>2. Finishing(s) \in BOOLEAN
    BY StateFields DEF Finishing
  <2>3. s_finishing' \in BOOLEAN /\ delta' \in Int
    BY <2>2, SampleFields DEF UpdateSteers
  <2> QED
    BY <2>1, <2>3 DEF TypedTracking
<1> QED
  BY <1>1, <1>4, <1>5, RunningPhase

LEMMA StepTyped == TypeOK /\ [Next]_vars => TypeOK'
<1> SUFFICES ASSUME TypeOK, [Next]_vars PROVE TypeOK'
  OBVIOUS
<1>1. CASE \E k \in Kinds : Start(k)
  BY <1>1, StartTyped
<1>2. CASE Abort
  <2>1. TypedSample'
    BY <1>2, TypeParts DEF Abort, TypedSample
  <2> QED
    BY <1>2, <2>1, AbortedTyped, TypePartsNext DEF Abort
<1>3. CASE Update
  <2>1. PICK s \in Samples :
          dt' = s.dt /\ reading' = s.reading /\ UpdateWith(s)
    BY <1>3, UpdateSample
  <2>2. TypedSample'
    BY <2>1, SampleTyped
  <2>3. CASE UpdateGivesUp(s) \/ UpdateStalls(s)
    BY <2>2, <2>3, AbortedTyped, TypePartsNext DEF UpdateGivesUp, UpdateStalls
  <2>4. CASE UpdateWaits(s) \/ UpdateCompletes(s) \/ UpdateBeginsSegment(s)
    BY <2>2, <2>4, SettleTyped, TypePartsNext
  <2>5. CASE UpdateRampsDown(s)
    BY <2>2, <2>5, RampsDownTyped, TypePartsNext
  <2>6. CASE UpdateDrives(s)
    BY <2>2, <2>6, DrivesTyped, TypePartsNext
  <2>7. CASE \E turn \in Turns : UpdateSteers(s, turn)
    BY <2>2, <2>7, SteersTyped, TypePartsNext
  <2> QED
    BY <2>1, <2>3, <2>4, <2>5, <2>6, <2>7 DEF UpdateWith
<1>4. CASE UNCHANGED vars
  <2>1. TypedSample' /\ TypedTracking' /\ TypedPhase'
    <3>1. segment_count' = segment_count
      BY <1>4 DEF vars, segment_count
    <3>2. TypedPhase'
      BY <1>4, <3>1, TypeParts DEF vars, TypedPhase
    <3> QED
      BY <1>4, <3>2, TypeParts
      DEF vars, tracking, TypedSample, TypedTracking
  <2>2. Limit' = Limit
    BY <1>4, SameSegment DEF vars, Limit
  <2>3. TypedMotion'
    BY <1>4, <2>2, TypeParts DEF vars, ramp, TypedMotion
  <2> QED
    BY <2>1, <2>3, TypePartsNext
<1> QED
  BY <1>1, <1>2, <1>3, <1>4 DEF Next

(* The types of the state, the range of the segment, and that no speed of a *)
(* segment is beyond the one its pattern allows.                            *)
THEOREM TypeCorrect == Spec => []TypeOK
BY InitTyped, StepTyped, PTL DEF Spec

-----------------------------------------------------------------------------
(* No phase outlives its deadline. *)

PhaseAge == active => phase_age <= deadline

Advances ==
  state = "running" =>
    \/ progress_age <= Config.stall_timeout
    \/ IF kind = "s" THEN s_finishing
       ELSE segment_target - direction * delta <= tolerance

LEMMA NotOverdue ==
  ASSUME TypeOK, NEW s \in Samples, ~Overdue(s)
  PROVE  /\ phase_age + s.dt <= deadline
         /\ s.reading.age <= Config.feedback_timeout
BY StateFields, SampleFields, GeometryType, Fields DEF Overdue

LEMMA FreshPhase ==
  ASSUME phase_age' = 0
  PROVE  PhaseAge'
BY Fields DEF PhaseAge, deadline

LEMMA SamePhase ==
  ASSUME TypeOK, NEW s \in Samples, ~Overdue(s),
         phase_age' = phase_age + s.dt, state' = state, kind' = kind
  PROVE  PhaseAge'
<1>1. deadline' = deadline
  BY DEF deadline
<1> QED
  BY <1>1, NotOverdue DEF PhaseAge

LEMMA InitBounded == Init => PhaseIsBounded
BY DEF Init, PhaseIsBounded, active

LEMMA StepBounded ==
  TypeOK /\ PhaseIsBounded /\ [Next]_vars => PhaseIsBounded'
<1> SUFFICES ASSUME TypeOK, PhaseIsBounded, [Next]_vars
             PROVE  PhaseAge' /\ Advances'
  BY DEF PhaseIsBounded, PhaseAge, Advances
<1>1. CASE \E k \in Kinds : Start(k)
  BY <1>1, FreshPhase DEF Start, Advances
<1>2. ASSUME Aborted
      PROVE  PhaseAge' /\ Advances'
  BY <1>2 DEF Aborted, PhaseAge, Advances, active
<1>3. CASE Abort
  BY <1>2, <1>3 DEF Abort
<1>4. CASE Update
  <2>1. PICK s \in Samples :
          dt' = s.dt /\ reading' = s.reading /\ UpdateWith(s)
    BY <1>4, UpdateSample
  <2>2. CASE UpdateGivesUp(s) \/ UpdateStalls(s)
    BY <1>2, <2>2 DEF UpdateGivesUp, UpdateStalls
  <2>3. CASE UpdateWaits(s)
    <3>1. PhaseAge'
      BY <2>3, SamePhase DEF UpdateWaits, Settle, PhaseGoesOn
    <3> QED
      BY <2>3, <3>1 DEF UpdateWaits, Settle, Advances
  <2>4. CASE UpdateCompletes(s)
    BY <2>4 DEF UpdateCompletes, PhaseAge, Advances, active
  <2>5. CASE UpdateBeginsSegment(s)
    BY <2>5, FreshPhase, Fields DEF UpdateBeginsSegment, Advances
  <2>6. ASSUME Running(s), KeepRunning(s)
        PROVE  PhaseAge'
    BY <2>6, SamePhase DEF Running, KeepRunning, PhaseGoesOn
  <2>7. ASSUME BeginSettling
        PROVE  PhaseAge' /\ Advances'
    BY <2>7, FreshPhase DEF BeginSettling, Advances
  <2>8. CASE UpdateRampsDown(s)
    <3>1. CASE BeginSettling
      BY <2>7, <3>1
    <3>2. CASE KeepRunning(s)
      <4>1. PhaseAge'
        BY <2>6, <2>8, <3>2 DEF UpdateRampsDown
      <4>2. kind' = kind /\ segment' = segment /\ delta' = s.delta /\ kind # "s"
        BY <2>8 DEF UpdateRampsDown, Running
      <4>3. segment_target - direction * s.delta <= tolerance
        BY <2>8, <4>2 DEF UpdateRampsDown, remaining, progress
      <4>4. segment_target' - direction' * delta' <= tolerance'
        BY <4>2, <4>3, SameSegment
      <4> QED
        BY <4>1, <4>2, <4>4 DEF Advances
    <3> QED
      BY <2>8, <3>1, <3>2 DEF UpdateRampsDown
  <2>9. ASSUME NEW tol \in Nat, Track(s, tol), ~Stalls(s, tol)
        PROVE  progress_age' <= Config.stall_timeout
    BY <2>9, StateFields, SampleFields, Fields DEF Track, Stalls
  <2>10. CASE UpdateDrives(s)
    <3>1. PhaseAge'
      BY <2>6, <2>10 DEF UpdateDrives
    <3>2. progress_age' <= Config.stall_timeout
      BY <2>9, <2>10, GeometryType DEF UpdateDrives
    <3> QED
      BY <3>1, <3>2 DEF Advances
  <2>11. CASE \E turn \in Turns : UpdateSteers(s, turn)
    <3>1. PICK turn \in Turns : UpdateSteers(s, turn)
      BY <2>11
    <3>2. CASE BeginSettling
      BY <2>7, <3>2
    <3>3. CASE KeepRunning(s)
      <4>1. PhaseAge'
        BY <2>6, <3>1, <3>3 DEF UpdateSteers
      <4>2. kind' = "s"
        BY <3>1 DEF UpdateSteers, Running
      <4>3. CASE Finishing(s)
        BY <3>1, <4>1, <4>2, <4>3 DEF UpdateSteers, Advances
      <4>4. CASE ~Finishing(s)
        <5>1. progress_age' <= Config.stall_timeout
          BY <2>9, <3>1, <4>4, Fields DEF UpdateSteers
        <5> QED
          BY <4>1, <5>1 DEF Advances
      <4> QED
        BY <4>3, <4>4
    <3> QED
      BY <3>1, <3>2, <3>3 DEF UpdateSteers
  <2> QED
    BY <2>1, <2>2, <2>3, <2>4, <2>5, <2>8, <2>10, <2>11 DEF UpdateWith
<1>5. CASE UNCHANGED vars
  <2>1. /\ state' = state /\ kind' = kind /\ segment' = segment
        /\ phase_age' = phase_age /\ progress_age' = progress_age
        /\ s_finishing' = s_finishing /\ delta' = delta
    BY <1>5 DEF vars, tracking
  <2>2. deadline' = deadline /\ active' = active
    BY <2>1 DEF deadline, active
  <2> QED
    BY <2>1, <2>2, SameSegment DEF PhaseIsBounded, PhaseAge, Advances
<1> QED
  BY <1>1, <1>3, <1>4, <1>5 DEF Next

(* Whatever the robot and its sensors do, no phase of a test outlives its   *)
(* deadline, and a segment short of its end has made progress within the    *)
(* stall timeout.                                                           *)
THEOREM PhasesAreBounded == Spec => []PhaseIsBounded
BY TypeCorrect, InitBounded, StepBounded, PTL DEF Spec

-----------------------------------------------------------------------------
(* The standstill. *)

(* The wheels have not been still for longer than the phase has lasted. *)
StillWithinPhase ==
  state = "settling" /\ still_age # Unset => still_age <= phase_age

LEMMA InitStill == Init => StillWithinPhase
BY DEF Init, StillWithinPhase

LEMMA StillForWithinPhase ==
  ASSUME TypeOK, StillWithinPhase, NEW s \in Samples, state = "settling",
         StillFor(s) # Unset
  PROVE  StillFor(s) <= phase_age + s.dt
BY StateFields, SampleFields, AtRest DEF StillFor, StillWithinPhase

LEMMA StepStill ==
  TypeOK /\ StillWithinPhase /\ [Next]_vars => StillWithinPhase'
<1> SUFFICES ASSUME TypeOK, StillWithinPhase, [Next]_vars
             PROVE  StillWithinPhase'
  OBVIOUS
<1>1. CASE \E k \in Kinds : Start(k)
  BY <1>1 DEF Start, StillWithinPhase
<1>2. CASE Abort
  BY <1>2 DEF Abort, Aborted, StillWithinPhase
<1>3. CASE Update
  <2>1. PICK s \in Samples :
          dt' = s.dt /\ reading' = s.reading /\ UpdateWith(s)
    BY <1>3, UpdateSample
  <2>2. CASE UpdateGivesUp(s) \/ UpdateStalls(s)
    BY <2>2 DEF UpdateGivesUp, UpdateStalls, Aborted, StillWithinPhase
  <2>3. CASE UpdateWaits(s)
    BY <2>3, StillForWithinPhase
    DEF UpdateWaits, Settle, PhaseGoesOn, StillWithinPhase
  <2>4. CASE UpdateCompletes(s) \/ UpdateBeginsSegment(s)
    BY <2>4 DEF UpdateCompletes, UpdateBeginsSegment, StillWithinPhase
  <2>5. ASSUME Running(s), KeepRunning(s) \/ BeginSettling
        PROVE  StillWithinPhase'
    BY <2>5 DEF Running, KeepRunning, BeginSettling, StillWithinPhase
  <2>6. CASE UpdateRampsDown(s)
    BY <2>5, <2>6 DEF UpdateRampsDown
  <2>7. CASE UpdateDrives(s)
    BY <2>5, <2>7 DEF UpdateDrives
  <2>8. CASE \E turn \in Turns : UpdateSteers(s, turn)
    BY <2>5, <2>8 DEF UpdateSteers
  <2> QED
    BY <2>1, <2>2, <2>3, <2>4, <2>6, <2>7, <2>8 DEF UpdateWith
<1>4. CASE UNCHANGED vars
  BY <1>4 DEF vars, StillWithinPhase
<1> QED
  BY <1>1, <1>2, <1>3, <1>4 DEF Next

(* As long as a reading may not be used for longer than settling takes, the *)
(* standstill before a segment and at the end was seen by a reading taken   *)
(* since the commands became zero.                                          *)
THEOREM StandstillMeasured ==
  ASSUME Config.feedback_timeout <= Config.settle_time
  PROVE  Spec => StandstillIsMeasured
<1> DEFINE Confirmed ==
      state = "settling" /\ state' \in {"running", "completed"} => measured'
<1>1. TypeOK /\ StillWithinPhase /\ [Next]_vars => [Confirmed]_vars
  <2> SUFFICES ASSUME TypeOK, StillWithinPhase, Next, state = "settling",
                      state' \in {"running", "completed"}
               PROVE  measured'
    OBVIOUS
  <2>1. ~(\E k \in Kinds : Start(k)) /\ ~Abort
    BY DEF Start, Abort, Aborted, active
  <2>2. PICK s \in Samples :
          dt' = s.dt /\ reading' = s.reading /\ UpdateWith(s)
    BY <2>1, UpdateSample DEF Next
  <2>3. ~UpdateGivesUp(s) /\ ~UpdateStalls(s) /\ ~UpdateWaits(s)
    BY DEF UpdateGivesUp, UpdateStalls, Aborted, UpdateWaits
  <2>4. ~Running(s)
    BY DEF Running
  <2>5. UpdateCompletes(s) \/ UpdateBeginsSegment(s)
    BY <2>2, <2>3, <2>4
    DEF UpdateWith, UpdateRampsDown, UpdateDrives, UpdateSteers
  <2>6. Settle(s) /\ Settled(s)
    BY <2>5 DEF UpdateCompletes, UpdateBeginsSegment
  <2>7. s.reading.still /\ StillFor(s) \in Nat
        /\ Config.settle_time <= StillFor(s)
    BY <2>6, StillForType, Fields DEF Settled, Unset
  <2>8. StillFor(s) <= phase_age + s.dt
    BY <2>7, StillForWithinPhase, AtRest
  <2>9. s.reading.age <= Config.feedback_timeout
    BY <2>6, NotOverdue DEF Settle
  <2>10. s.reading.age <= phase_age + s.dt
    BY <2>7, <2>8, <2>9, StateFields, SampleFields, Fields
  <2> QED
    BY <2>6, <2>7, <2>10 DEF Settle
<1> QED
  BY <1>1, TypeCorrect, InitStill, StepStill, PTL
  DEF Spec, StandstillIsMeasured

-----------------------------------------------------------------------------
(* The commands. *)

(* A command is the speed of the segment; there is none outside of one. *)
Commanded ==
  /\ state = "running"
       => command = IF kind = "s" THEN [linear |-> speed, angular |-> s_angular]
                                  ELSE velocity_command(speed)
  /\ state # "running" => command = Zero

LEMMA InitCommanded == Init => Commanded
BY DEF Init, Commanded

LEMMA StepCommanded ==
  TypeOK /\ Commanded /\ [Next]_vars => Commanded'
<1> SUFFICES ASSUME TypeOK, Commanded, [Next]_vars
             PROVE  Commanded'
  OBVIOUS
<1>1. CASE \E k \in Kinds : Start(k)
  BY <1>1 DEF Start, Commanded
<1>2. ASSUME Aborted
      PROVE  Commanded'
  BY <1>2 DEF Aborted, Commanded
<1>3. CASE Abort
  BY <1>2, <1>3 DEF Abort
<1>4. CASE Update
  <2>1. PICK s \in Samples :
          dt' = s.dt /\ reading' = s.reading /\ UpdateWith(s)
    BY <1>4, UpdateSample
  <2>2. CASE UpdateGivesUp(s) \/ UpdateStalls(s)
    BY <1>2, <2>2 DEF UpdateGivesUp, UpdateStalls
  <2>3. CASE UpdateWaits(s) \/ UpdateCompletes(s)
    BY <2>3 DEF UpdateWaits, UpdateCompletes, Settle, ramp, Commanded
  <2>4. CASE UpdateBeginsSegment(s)
    <3>1. /\ state' = "running" /\ command' = Zero /\ speed' = 0
          /\ s_angular' = 0
      BY <2>4 DEF UpdateBeginsSegment, Settle
    <3>2. direction' * 0 = 0 /\ Config.circle_radius * 0 = 0
      <4>1. direction' \in {-1, 1}
        BY DirectionType
      <4>2. \A n \in {-1, 1} : n * 0 = 0
        OBVIOUS
      <4>3. Config.circle_radius * 0 = 0
        BY Fields
      <4> QED
        BY <4>1, <4>2, <4>3
    <3>3. velocity_command(speed)' = Zero
      BY <3>1, <3>2 DEF velocity_command, Zero
    <3> QED
      BY <3>1, <3>3 DEF Commanded, Zero
  <2>5. ASSUME Running(s), kind # "s", command' = velocity_command(speed'),
               s_angular' = s_angular, KeepRunning(s)
        PROVE  Commanded'
    <3>1. velocity_command(speed)' = velocity_command(speed')
      BY <2>5, SameSegment DEF Running
    <3> QED
      BY <2>5, <3>1 DEF Running, KeepRunning, Commanded
  <2>6. CASE UpdateRampsDown(s)
    <3>1. CASE speed' > 0
      BY <2>5, <2>6, <3>1 DEF UpdateRampsDown
    <3>2. CASE ~(speed' > 0)
      <4>1. speed' = 0
        BY <2>6, <3>2, RampsDownSpeed
      <4>2. command' = Zero
        BY <2>6, <4>1, StandstillIsZero DEF UpdateRampsDown
      <4>3. state' = "settling"
        BY <2>6, <3>2 DEF UpdateRampsDown, BeginSettling
      <4> QED
        BY <4>2, <4>3 DEF Commanded
    <3> QED
      BY <3>1, <3>2
  <2>7. CASE UpdateDrives(s)
    BY <2>5, <2>7 DEF UpdateDrives
  <2>8. CASE \E turn \in Turns : UpdateSteers(s, turn)
    <3>1. PICK turn \in Turns : UpdateSteers(s, turn)
      BY <2>8
    <3>2. kind' = "s" /\ command' = [linear |-> speed', angular |-> s_angular']
      BY <3>1 DEF UpdateSteers, Running
    <3>3. CASE Stopped
      BY <3>1, <3>2, <3>3
      DEF UpdateSteers, BeginSettling, Stopped, Commanded, Zero
    <3>4. CASE ~Stopped
      BY <3>1, <3>2, <3>4 DEF UpdateSteers, Running, KeepRunning, Commanded
    <3> QED
      BY <3>3, <3>4
  <2> QED
    BY <2>1, <2>2, <2>3, <2>4, <2>6, <2>7, <2>8 DEF UpdateWith
<1>5. CASE UNCHANGED vars
  <2>1. velocity_command(speed)' = velocity_command(speed)
    BY <1>5, SameSegment DEF vars, ramp
  <2> QED
    BY <1>5, <2>1 DEF vars, ramp, Commanded
<1> QED
  BY <1>1, <1>3, <1>4, <1>5 DEF Next

LEMMA Magnitudes ==
  ASSUME NEW v \in Nat
  PROVE  /\ Magnitude(0) = 0 /\ Magnitude(v) = v
         /\ Magnitude(direction * v) = v
<1>1. \A d \in {-1, 1} : Magnitude(d * v) = v
  BY DEF Magnitude
<1> QED
  BY <1>1, DirectionType DEF Magnitude

LEMMA WheelSpeeds ==
  ASSUME TypeOK, Commanded
  PROVE  WheelSpeedWasChecked
<1> DEFINE fastest == Config.angular_speed * HalfWidth
           rate == CircleRate(Config.angular_speed, Config.linear_speed)
           turning == rate * (Config.circle_radius + HalfWidth)
           wheel == Magnitude(command.linear)
                      + Magnitude(command.angular) * HalfWidth
<1>1. fastest \in Nat
  BY Fields, ConfigType, ProductIsNatural
<1>2. rate \in Nat
  <2>1. Config.angular_speed \in Nat /\ Config.linear_speed \in Nat
    BY Fields
  <2>2. rate \in 0 .. Config.angular_speed
    BY <2>1, CircleRateBounds
  <2> QED
    BY <2>1, <2>2
<1>3. turning \in Nat
  <2>1. Config.circle_radius + HalfWidth \in Nat
    BY Fields, ConfigType
  <2> HIDE DEF rate
  <2> QED
    BY <1>2, <2>1, ProductIsNatural
<1>4. maximum_wheel_speed(kind) =
        (CASE kind = "s" -> s_speed + fastest
           [] kind = "circle" -> turning
           [] kind = "square" -> Greatest(Config.linear_speed, fastest)
           [] kind = "straight" -> Config.linear_speed
           [] OTHER -> fastest)
  BY DEF maximum_wheel_speed
<1>5. kind \in {"straight", "rotate", "circle", "square", "s"}
  BY StateFields, ConfigType
<1>6. HalfWidth \in Nat /\ s_speed \in Nat /\ speed \in Nat
      /\ Config.linear_speed \in Nat
  BY ConfigType, GeometryType, StateFields, Fields
<1> HIDE DEF fastest
<1>7. CASE state # "running"
  <2>1. wheel = 0
    <3>1. 0 * HalfWidth = 0
      BY <1>6
    <3>2. command.linear = 0 /\ command.angular = 0
      BY <1>7 DEF Commanded, Zero
    <3> QED
      BY <3>1, <3>2, Magnitudes
  <2>2. maximum_wheel_speed(kind) \in Nat
    <3> HIDE DEF turning
    <3> QED
      BY <1>1, <1>3, <1>4, <1>5, <1>6 DEF Greatest
  <2> QED
    BY <2>1, <2>2 DEF WheelSpeedWasChecked
<1>8. CASE state = "running" /\ kind = "s"
  <2>1. command.linear = speed /\ command.angular = s_angular
    BY <1>8 DEF Commanded
  <2>2. speed <= s_speed
    BY <1>8, StateFields DEF Limit
  <2>3. Magnitude(s_angular) \in Nat
        /\ Magnitude(s_angular) <= Config.angular_speed
    BY StateFields, Fields DEF Turns, Magnitude
  <2>4. /\ Magnitude(s_angular) * HalfWidth <= fastest
        /\ Magnitude(s_angular) * HalfWidth \in Nat
    BY <1>6, <2>3, Fields, ProductGrows, ProductIsNatural DEF fastest
  <2> DEFINE turn == Magnitude(s_angular) * HalfWidth
  <2>5. wheel = speed + turn
    BY <1>6, <2>1, Magnitudes
  <2> HIDE DEF turn, wheel
  <2>6. wheel <= s_speed + fastest
    BY <1>1, <1>6, <2>2, <2>4, <2>5 DEF turn
  <2> QED
    BY <1>4, <1>8, <2>6 DEF WheelSpeedWasChecked, wheel
<1>9. CASE state = "running" /\ kind # "s"
  <2>1. command = velocity_command(speed)
    BY <1>9 DEF Commanded
  <2>2. speed <= segment_speed
    BY <1>9, StateFields DEF Limit
  <2>3. CASE kind = "circle"
    <3>1. command.linear = Config.circle_radius * speed
          /\ command.angular = direction * speed
      BY <1>6, <2>1, <2>3, VelocityCases
    <3>2. Config.circle_radius * speed \in Nat
      BY <1>6, Fields, ProductIsNatural
    <3>3. wheel = Config.circle_radius * speed + speed * HalfWidth
      BY <1>6, <3>1, <3>2, Magnitudes
    <3>4. Config.circle_radius * speed + speed * HalfWidth
            = speed * (Config.circle_radius + HalfWidth)
      BY <1>6, Fields
    <3>5. speed <= rate
      BY <2>2, <2>3 DEF segment_speed
    <3>6. Config.circle_radius + HalfWidth \in Nat
      BY <1>6, Fields
    <3> DEFINE width == Config.circle_radius + HalfWidth
    <3> HIDE DEF rate, width
    <3>7. speed * width <= rate * width
      BY <1>2, <1>6, <3>5, <3>6, ProductGrows DEF width
    <3> QED
      BY <1>4, <2>3, <3>3, <3>4, <3>7 DEF WheelSpeedWasChecked, width
  <2>4. CASE kind # "circle" /\ angular_segment
    <3>1. command.linear = 0 /\ command.angular = direction * speed
      BY <1>6, <2>1, <2>4, VelocityCases
    <3>2. wheel = speed * HalfWidth
      <4>1. speed * HalfWidth \in Nat
        BY <1>6, ProductIsNatural
      <4> QED
        BY <1>6, <3>1, <4>1, Magnitudes
    <3>3. speed <= Config.angular_speed
      BY <2>2, <2>4 DEF segment_speed
    <3>4. speed * HalfWidth <= fastest
      BY <1>6, <3>3, Fields, ProductGrows DEF fastest
    <3>5. kind \in {"rotate", "square"}
      BY <1>5, <1>9, <2>4 DEF angular_segment
    <3>6. fastest <= maximum_wheel_speed(kind)
      BY <1>1, <1>4, <1>6, <3>5 DEF Greatest
    <3>7. speed * HalfWidth \in Nat /\ maximum_wheel_speed(kind) \in Nat
      BY <1>1, <1>4, <1>6, <3>5, ProductIsNatural DEF Greatest
    <3> HIDE DEF wheel
    <3>8. wheel <= maximum_wheel_speed(kind)
      BY <1>1, <3>2, <3>4, <3>6, <3>7
    <3> QED
      BY <3>8 DEF WheelSpeedWasChecked, wheel
  <2>5. CASE kind # "circle" /\ ~angular_segment
    <3>1. command.linear = direction * speed /\ command.angular = 0
      BY <1>6, <2>1, <2>5, VelocityCases
    <3>2. wheel = speed
      <4>1. 0 * HalfWidth = 0
        BY <1>6
      <4> QED
        BY <1>6, <3>1, <4>1, Magnitudes
    <3>3. speed <= Config.linear_speed
      BY <2>2, <2>5 DEF segment_speed
    <3>4. kind \in {"straight", "square"}
      BY <1>5, <1>9, <2>5 DEF angular_segment
    <3>5. Config.linear_speed <= maximum_wheel_speed(kind)
          /\ maximum_wheel_speed(kind) \in Nat
      BY <1>1, <1>4, <1>6, <3>4 DEF Greatest
    <3> HIDE DEF wheel
    <3>6. wheel <= maximum_wheel_speed(kind)
      BY <1>6, <3>2, <3>3, <3>5
    <3> QED
      BY <3>6 DEF WheelSpeedWasChecked, wheel
  <2> QED
    BY <2>3, <2>4, <2>5
<1> QED
  BY <1>7, <1>8, <1>9

(* No wheel turns faster than what the node compared with the limit of the  *)
(* motors before it started the test.                                       *)
THEOREM WheelSpeedsAreChecked == Spec => []WheelSpeedWasChecked
BY TypeCorrect, InitCommanded, StepCommanded, WheelSpeeds, PTL DEF Spec

(* A change of the speed of a segment, in the two velocities. *)
LEMMA ScaledDistance ==
  ASSUME NEW r \in Nat, NEW v \in Int, NEW w \in Int
  PROVE  Magnitude(r * v - r * w) = Magnitude(v - w) * r
<1> DEFINE x == v - w
<1>1. x \in Int /\ r * v - r * w = r * x
  OBVIOUS
<1> HIDE DEF x
<1>2. CASE x >= 0
  <2>1. r * x \in Nat
    BY <1>1, <1>2, ProductIsNatural
  <2> QED
    BY <1>1, <1>2, <2>1 DEF Magnitude, x
<1>3. CASE ~(x >= 0)
  <2>1. -x \in Nat /\ r * (-x) \in Nat
    BY <1>1, <1>3, ProductIsNatural
  <2>2. r * (-x) = -(r * x) /\ r * (-x) = (-x) * r
    BY <1>1
  <2>3. r * x \in Int
    BY <1>1
  <2>4. Magnitude(r * x) = -(r * x)
    BY <2>1, <2>2, <2>3 DEF Magnitude
  <2>5. Magnitude(x) = -x
    BY <1>3 DEF Magnitude
  <2> QED
    BY <1>1, <2>2, <2>4, <2>5 DEF x
<1> QED
  BY <1>2, <1>3

LEMMA SignedDistance ==
  ASSUME NEW v \in Int, NEW w \in Int
  PROVE  Magnitude(direction * v - direction * w) = Magnitude(v - w)
<1>1. \A d \in {-1, 1} : Magnitude(d * v - d * w) = Magnitude(v - w)
  BY DEF Magnitude
<1> QED
  BY <1>1, DirectionType

LEMMA VelocityChange ==
  ASSUME NEW v \in Nat, NEW w \in Nat, NEW t \in Nat,
         Magnitude(v - w) <= segment_acceleration * t
  PROVE  /\ Magnitude(velocity_command(v).linear - velocity_command(w).linear)
              <= Config.linear_accel * t
         /\ Magnitude(velocity_command(v).angular - velocity_command(w).angular)
              <= Config.angular_accel * t
<1> DEFINE change == Magnitude(v - w)
           lin == Config.linear_accel * t
           ang == Config.angular_accel * t
<1>1. change \in Nat /\ v \in Int /\ w \in Int
  BY DEF Magnitude
<1>2. lin \in Nat /\ ang \in Nat
  BY Fields, ProductIsNatural
<1>3. Magnitude(0 - 0) = 0
  BY DEF Magnitude
<1>4. CASE kind = "circle"
  <2> DEFINE rate == CircleRate(Config.angular_accel, Config.linear_accel)
             r == Config.circle_radius
  <2>1. rate \in Nat /\ rate <= Config.angular_accel
        /\ rate * r <= Config.linear_accel
    <3>1. Config.angular_accel \in Nat /\ Config.linear_accel \in Nat
      BY Fields
    <3>2. rate \in 0 .. Config.angular_accel /\ rate * r <= Config.linear_accel
      BY <3>1, CircleRateBounds
    <3> HIDE DEF rate
    <3> QED
      BY <3>1, <3>2
  <2>2. segment_acceleration = rate
    BY <1>4 DEF segment_acceleration
  <2> HIDE DEF rate
  <2>3. change <= rate * t
    BY <2>2
  <2>4. rate * t <= ang
    BY <2>1, Fields, ProductGrows
  <2>5. r \in Nat /\ rate * t \in Nat
    BY <2>1, Fields, ProductIsNatural
  <2> HIDE DEF change, r, lin, ang
  <2>6. change * r <= (rate * t) * r
    BY <1>1, <2>3, <2>5, ProductGrows
  <2>7. (rate * t) * r = (rate * r) * t
    BY <2>1, <2>5
  <2>8. (rate * r) * t <= lin
    <3>1. rate * r \in Nat
      BY <2>1, <2>5, ProductIsNatural
    <3> QED
      BY <2>1, <3>1, Fields, ProductGrows DEF lin
  <2>9. change * r \in Nat /\ (rate * r) * t \in Nat
    <3>1. rate * r \in Nat
      BY <2>1, <2>5, ProductIsNatural
    <3> QED
      BY <1>1, <2>5, <3>1, ProductIsNatural
  <2>10. change * r <= lin /\ change <= ang
    BY <1>1, <1>2, <2>3, <2>4, <2>5, <2>6, <2>7, <2>8, <2>9
  <2>11. /\ velocity_command(v) = [linear |-> r * v, angular |-> direction * v]
         /\ velocity_command(w) = [linear |-> r * w, angular |-> direction * w]
    BY <1>1, <1>4, VelocityCases DEF r
  <2>12. /\ Magnitude(r * v - r * w) = change * r
         /\ Magnitude(direction * v - direction * w) = change
    BY <1>1, <2>5, ScaledDistance, SignedDistance DEF change
  <2> QED
    BY <2>10, <2>11, <2>12 DEF lin, ang
<1>5. CASE kind # "circle" /\ angular_segment
  <2>1. /\ velocity_command(v) = [linear |-> 0, angular |-> direction * v]
        /\ velocity_command(w) = [linear |-> 0, angular |-> direction * w]
    BY <1>1, <1>5, VelocityCases
  <2>2. change <= ang
    BY <1>5 DEF segment_acceleration
  <2>3. Magnitude(direction * v - direction * w) = change
    BY <1>1, SignedDistance
  <2> HIDE DEF change, lin, ang
  <2> QED
    BY <1>2, <1>3, <2>1, <2>2, <2>3 DEF lin, ang
<1>6. CASE kind # "circle" /\ ~angular_segment
  <2>1. /\ velocity_command(v) = [linear |-> direction * v, angular |-> 0]
        /\ velocity_command(w) = [linear |-> direction * w, angular |-> 0]
    BY <1>1, <1>6, VelocityCases
  <2>2. change <= lin
    BY <1>6 DEF segment_acceleration
  <2>3. Magnitude(direction * v - direction * w) = change
    BY <1>1, SignedDistance
  <2> HIDE DEF change, lin, ang
  <2> QED
    BY <1>2, <1>3, <2>1, <2>2, <2>3 DEF lin, ang
<1> QED
  BY <1>4, <1>5, <1>6

Ramped ==
  state' # "aborted" =>
    /\ Magnitude(command'.linear - command.linear) <= Config.linear_accel * dt'
    /\ Magnitude(command'.angular - command.angular)
         <= Config.angular_accel * dt'

LEMMA NoChange ==
  ASSUME command' = command, command \in [linear : Int, angular : Int],
         dt' \in Nat
  PROVE  Ramped
<1>1. \A n \in Int : Magnitude(n - n) = 0
  BY DEF Magnitude
<1>2. Config.linear_accel * dt' \in Nat /\ Config.angular_accel * dt' \in Nat
  BY Fields, ProductIsNatural
<1>3. command.linear \in Int /\ command.angular \in Int
  OBVIOUS
<1>4. /\ Magnitude(command'.linear - command.linear) = 0
      /\ Magnitude(command'.angular - command.angular) = 0
  BY <1>1, <1>3
<1> QED
  BY <1>2, <1>4 DEF Ramped

LEMMA StepRamped ==
  ASSUME TypeOK, TypeOK', Commanded, Next
  PROVE  Ramped
<1>1. dt' \in Nat /\ command \in [linear : Int, angular : Int]
  BY StateFields, Fields DEF TypeOK, Ages
<1>2. CASE \E k \in Kinds : Start(k)
  BY <1>1, <1>2, NoChange DEF Start, active, Commanded
<1>3. ASSUME Aborted
      PROVE  Ramped
  BY <1>3 DEF Aborted, Ramped
<1>4. CASE Abort
  BY <1>3, <1>4 DEF Abort
<1>5. CASE Update
  <2>1. PICK s \in Samples :
          dt' = s.dt /\ reading' = s.reading /\ UpdateWith(s)
    BY <1>5, UpdateSample
  <2>2. CASE UpdateGivesUp(s) \/ UpdateStalls(s)
    BY <1>3, <2>2 DEF UpdateGivesUp, UpdateStalls
  <2>3. CASE UpdateWaits(s) \/ UpdateCompletes(s) \/ UpdateBeginsSegment(s)
    <3>1. command' = command
      BY <2>3
      DEF UpdateWaits, UpdateCompletes, UpdateBeginsSegment, Settle, Commanded
    <3> QED
      BY <1>1, <3>1, NoChange
  <2>4. ASSUME Running(s), kind # "s", command' = velocity_command(speed'),
               speed' \in Nat,
               Magnitude(speed' - speed) <= segment_acceleration * s.dt
        PROVE  Ramped
    <3>1. command = velocity_command(speed)
      BY <2>4 DEF Running, Commanded
    <3>2. speed \in Nat /\ s.dt \in Nat
      BY StateFields, SampleFields
    <3>3. /\ Magnitude(velocity_command(speed').linear
                         - velocity_command(speed).linear)
               <= Config.linear_accel * s.dt
          /\ Magnitude(velocity_command(speed').angular
                         - velocity_command(speed).angular)
               <= Config.angular_accel * s.dt
      BY <2>4, <3>2, VelocityChange
    <3> QED
      BY <2>1, <2>4, <3>1, <3>3 DEF Ramped
  <2>5. CASE UpdateRampsDown(s)
    BY <2>4, <2>5, RampsDownSpeed DEF UpdateRampsDown
  <2>6. CASE UpdateDrives(s)
    BY <2>4, <2>6, DrivesSpeed DEF UpdateDrives
  <2>7. CASE \E turn \in Turns : UpdateSteers(s, turn)
    <3>1. PICK turn \in Turns : UpdateSteers(s, turn)
      BY <2>7
    <3>2. /\ command'.linear = speed' /\ command'.angular = s_angular'
          /\ command.linear = speed /\ command.angular = s_angular
      BY <3>1 DEF UpdateSteers, Running, Commanded
    <3> QED
      BY <2>1, <3>1, <3>2, SteersSpeed DEF Ramped
  <2> QED
    BY <2>1, <2>2, <2>3, <2>5, <2>6, <2>7 DEF UpdateWith
<1> QED
  BY <1>2, <1>4, <1>5 DEF Next

(* "Commands accelerate and decelerate within the configured limits", from  *)
(* one command to the next, across the changes of phase and of direction,   *)
(* unless the test is aborted.                                              *)
THEOREM CommandsRamp == Spec => CommandRamps
<1>1. TypeOK /\ TypeOK' /\ Commanded /\ [Next]_vars => [Ramped]_vars
  BY StepRamped
<1>2. CommandRamps <=> [][Ramped]_vars
  BY DEF CommandRamps, Ramped
<1> QED
  BY <1>1, <1>2, TypeCorrect, InitCommanded, StepCommanded, PTL DEF Spec

-----------------------------------------------------------------------------
(* The refinement. *)

Stage == CASE state = "settling" -> "rest"
           [] state = "running" -> "segment"
           [] OTHER -> state

Counts == {SegmentsOf(k) : k \in Kinds}

LEMMA InitSequence == Init => Sequence!Init
<1> SUFFICES ASSUME Init PROVE Sequence!Init
  OBVIOUS
<1>1. segment_count \in Counts
  BY DEF Init, segment_count, Counts
<1> QED
  BY <1>1 DEF Init, Sequence!Init, Counts

LEMMA StepSequence ==
  ASSUME TypeOK, TypeOK', Commanded, Commanded', Next
  PROVE  Sequence!Next \/ UNCHANGED Sequence!vars
<1>1. CASE \E k \in Kinds : Start(k)
  <2>1. /\ Stage' = "rest" /\ Stage \notin {"rest", "segment"}
        /\ segment' = 0
    BY <1>1 DEF Start, Stage, active, TypeOK
  <2>2. segment_count' \in Counts
    BY <1>1 DEF Start, segment_count, Counts
  <2>3. (command # Zero)' = (command # Zero)
    BY <1>1 DEF Start, Commanded, active, Zero
  <2> QED
    BY <2>1, <2>2, <2>3
    DEF Sequence!Next, Sequence!Begin, Sequence!Active, Stage, Counts
<1>2. ASSUME active, Aborted
      PROVE  Sequence!Next
  <2>1. /\ Stage' = "aborted" /\ Stage \in {"rest", "segment"}
        /\ segment' = segment
    BY <1>2 DEF Aborted, Stage, active
  <2>2. segment_count' = segment_count
    BY <1>2 DEF Aborted, segment_count
  <2>3. (command # Zero)' = FALSE
    BY <1>2 DEF Aborted, Zero
  <2> QED
    BY <2>1, <2>2, <2>3
    DEF Sequence!Next, Sequence!Abort, Sequence!Active, Stage
<1>3. CASE Abort
  BY <1>2, <1>3 DEF Abort
<1>4. CASE Update
  <2>1. PICK s \in Samples :
          dt' = s.dt /\ reading' = s.reading /\ UpdateWith(s)
    BY <1>4, UpdateSample
  <2>2. CASE UpdateGivesUp(s) \/ UpdateStalls(s)
    BY <1>2, <2>2 DEF UpdateGivesUp, UpdateStalls, active
  <2>3. ASSUME Settle(s)
        PROVE  (command # Zero)' = (command # Zero) /\ Stage = "rest"
    BY <2>3 DEF Settle, Commanded, Stage, Zero
  <2>4. CASE UpdateWaits(s)
    <3>1. /\ state' = state /\ segment' = segment /\ kind' = kind /\ Settle(s)
      BY <2>4 DEF UpdateWaits
    <3>2. segment_count' = segment_count
      BY <3>1 DEF segment_count
    <3>3. Stage' = Stage
      BY <3>1 DEF Stage
    <3> QED
      BY <2>3, <3>1, <3>2, <3>3 DEF Sequence!vars, Stage
  <2>5. CASE UpdateCompletes(s)
    <3>1. /\ Stage' = "completed" /\ segment = segment_count
          /\ segment' = segment /\ kind' = kind /\ Settle(s)
      BY <2>5 DEF UpdateCompletes, Stage
    <3>2. segment_count' = segment_count
      BY <3>1 DEF segment_count
    <3> QED
      BY <2>3, <3>1, <3>2 DEF Sequence!Next, Sequence!Complete, Stage
  <2>6. CASE UpdateBeginsSegment(s)
    <3>1. /\ Stage' = "segment" /\ segment # segment_count
          /\ segment' = segment + 1 /\ kind' = kind /\ Settle(s)
      BY <2>6 DEF UpdateBeginsSegment, Stage
    <3>2. segment_count' = segment_count
      BY <3>1 DEF segment_count
    <3>3. segment < segment_count
      BY <3>1, StateFields
    <3> QED
      BY <2>3, <3>1, <3>2, <3>3
      DEF Sequence!Next, Sequence!BeginSegment, Stage
  <2>7. ASSUME Running(s), KeepRunning(s) \/ BeginSettling
        PROVE  Sequence!Next
    <3>1. /\ Stage = "segment" /\ kind' = kind /\ segment' = segment
      BY <2>7 DEF Running, Stage
    <3>2. segment_count' = segment_count
      BY <3>1 DEF segment_count
    <3>3. CASE KeepRunning(s)
      <4>1. Stage' = "segment"
        BY <2>7, <3>3 DEF Running, KeepRunning, Stage
      <4> QED
        BY <3>1, <3>2, <4>1 DEF Sequence!Next, Sequence!Move, Stage
    <3>4. CASE BeginSettling
      <4>1. Stage' = "rest"
        BY <3>4 DEF BeginSettling, Stage
      <4>2. (command # Zero)' = FALSE
        BY <3>4 DEF BeginSettling, Commanded, Zero
      <4> QED
        BY <3>1, <3>2, <4>1, <4>2
        DEF Sequence!Next, Sequence!EndSegment, Stage
    <3> QED
      BY <2>7, <3>3, <3>4
  <2>8. CASE UpdateRampsDown(s)
    BY <2>7, <2>8 DEF UpdateRampsDown
  <2>9. CASE UpdateDrives(s)
    BY <2>7, <2>9 DEF UpdateDrives
  <2>10. CASE \E turn \in Turns : UpdateSteers(s, turn)
    BY <2>7, <2>10 DEF UpdateSteers
  <2> QED
    BY <2>1, <2>2, <2>4, <2>5, <2>6, <2>8, <2>9, <2>10 DEF UpdateWith
<1> QED
  BY <1>1, <1>3, <1>4 DEF Next

(* A test performs its segments in order, each from rest to rest, moves     *)
(* only during a segment, and ends completed after the last or at rest.     *)
THEOREM TestImplementsSequence == Spec => ImplementsSequence
<1>1. TypeOK /\ TypeOK' /\ Commanded /\ Commanded' /\ [Next]_vars
        => [Sequence!Next]_(Sequence!vars)
  <2> SUFFICES ASSUME TypeOK, TypeOK', Commanded, Commanded', [Next]_vars
               PROVE  Sequence!Next \/ UNCHANGED Sequence!vars
    OBVIOUS
  <2>1. CASE UNCHANGED vars
    BY <2>1 DEF vars, Sequence!vars, segment_count, Zero
  <2> QED
    BY <2>1, StepSequence
<1> QED
  BY <1>1, TypeCorrect, InitCommanded, StepCommanded, InitSequence, PTL
  DEF Spec, ImplementsSequence, Sequence!Spec
=============================================================================
