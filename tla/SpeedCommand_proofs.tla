------------------------- MODULE SpeedCommand_proofs -------------------------
(***************************************************************************)
(* Proofs about SpeedCommand, for doubles of every precision and unit,     *)
(* every geometry, limit and inversion, and every set of twists.           *)
(***************************************************************************)
EXTENDS SpeedCommand, WellFoundedInduction, TLAPS

-----------------------------------------------------------------------------
(* Integers. *)

LEMMA Division ==
  ASSUME NEW n \in Int, NEW d \in Nat \ {0}
  PROVE  /\ n \div d \in Int /\ n % d \in Nat /\ n % d < d
         /\ n = d * (n \div d) + (n % d)
         /\ n \in Nat => n \div d \in Nat
OBVIOUS

LEMMA MagnitudeFacts ==
  ASSUME NEW n \in Int
  PROVE  /\ Magnitude(n) \in Nat
         /\ n <= Magnitude(n) /\ -n <= Magnitude(n)
         /\ Magnitude(n) = n \/ Magnitude(n) = -n
         /\ Magnitude(-n) = Magnitude(n)
BY DEF Magnitude

LEMMA ZeroHasNoSign ==
  ASSUME NEW n \in Int, n >= 0, n <= 0
  PROVE  -n = n
OBVIOUS

LEMMA ProductGrows ==
  ASSUME NEW r \in Nat, NEW a \in Int, NEW b \in Int, a <= b
  PROVE  r * a <= r * b
OBVIOUS

LEMMA ProductShrinks ==
  ASSUME NEW r \in Nat \ {0}, NEW a \in Int, NEW b \in Int, r * a <= r * b
  PROVE  a <= b
OBVIOUS

(* A bounded set of naturals that is not empty has a greatest element. *)
LEMMA GreatestExists ==
  ASSUME NEW n \in Nat, NEW S, S \subseteq 0 .. n, S # {}
  PROVE  \E x \in S : \A y \in S : y <= x
<1> DEFINE T == {n - x : x \in S}
<1>1. T \subseteq Nat /\ T # {}
  <2>1. \A x \in S : n - x \in Nat
    OBVIOUS
  <2>2. PICK x \in S : TRUE
    OBVIOUS
  <2>3. n - x \in T
    OBVIOUS
  <2> QED
    BY <2>1, <2>3
<1>2. PICK t \in T : \A y \in T : ~(<<y, t>> \in OpToRel(<, Nat))
  <2> DEFINE R == OpToRel(<, Nat)
  <2>1. IsWellFoundedOn(R, Nat)
    BY NatLessThanWellFounded
  <2> HIDE DEF R, T
  <2>2. \E t \in T : \A y \in T : ~(<<y, t>> \in R)
    BY <1>1, <2>1, WFMin
  <2> QED
    BY <2>2 DEF R
<1>3. \A y \in T : ~(y < t)
  <2> SUFFICES ASSUME NEW y \in T, y < t
               PROVE  FALSE
    OBVIOUS
  <2>1. <<y, t>> \in Nat \X Nat
    BY <1>1
  <2>2. <<y, t>>[1] < <<y, t>>[2]
    OBVIOUS
  <2> QED
    BY <1>2, <2>1, <2>2 DEF OpToRel
<1>4. PICK x \in S : t = n - x
  OBVIOUS
<1>5. \A y \in S : y <= x
  <2> SUFFICES ASSUME NEW y \in S
               PROVE  y <= x
    OBVIOUS
  <2>1. n - y \in T
    OBVIOUS
  <2>2. ~(n - y < n - x)
    BY <1>3, <1>4, <2>1
  <2>3. x \in Int /\ y \in Int
    OBVIOUS
  <2> QED
    BY <2>2, <2>3
<1> QED
  BY <1>5

LEMMA GreatestChosen ==
  ASSUME NEW S, \E x \in S : \A y \in S : y <= x
  PROVE  (CHOOSE x \in S : \A y \in S : y <= x) \in S
OBVIOUS

-----------------------------------------------------------------------------
(* Doubles. *)

LEMMA Parameters ==
  /\ One \in Nat /\ One > 0 /\ Half \in Nat /\ Half > 0
  /\ Gaps \subseteq Nat \ {0} /\ 1 \in Gaps
  /\ Linear \subseteq Int /\ Angular \subseteq Int
  /\ HalfSeparation \in Nat /\ RpmPerMps \in Nat
  /\ Limit \in Nat /\ Limit > 0 /\ MaxSpeedRpm \in Nat /\ Limit <= MaxSpeedRpm
  /\ UnitsPerRpm \in {1, 10} /\ 2 * (MaxSpeedRpm * UnitsPerRpm) < 32768
  /\ FeedbackUnitsPerRpm \in {1, 10}
  /\ 2 * (MaxSpeedRpm * FeedbackUnitsPerRpm) < 32768
  /\ InvertLeft \in BOOLEAN /\ InvertRight \in BOOLEAN
  /\ Tolerance \in Nat
BY SpeedAssumption

(* Doubles are one unit apart, or by so much that the significand is full. *)
LEMMA SpacingFacts ==
  ASSUME NEW n \in Nat, NEW d \in Nat \ {0}
  PROVE  /\ Spacing(n, d) \in Nat \ {0}
         /\ Spacing(n, d) = 1 \/ Spacing(n, d) * Half * d <= n
<1> DEFINE q == n \div d
           apart == {g \in Gaps : g = 1 \/ q >= g * Half}
           gap == CHOOSE g \in apart : \A h \in apart : h <= g
<1>1. q \in Nat /\ d * q <= n
  BY Division
<1> HIDE DEF q
<1>2. \E g \in apart : \A h \in apart : h <= g
  <2>1. apart \subseteq 0 .. (1 + q) /\ apart # {}
    <3>1. ASSUME NEW g \in apart PROVE g \in 0 .. (1 + q)
      <4>1. g \in Nat /\ (g = 1 \/ q >= g * Half)
        BY Parameters
      <4>2. g * 1 <= g * Half
        BY <4>1, Parameters, ProductGrows
      <4> HIDE DEF apart
      <4>3. g * Half \in Nat
        BY <4>1, Parameters
      <4> QED
        BY <1>1, <4>1, <4>2, <4>3
    <3>2. 1 \in apart
      BY Parameters
    <3> HIDE DEF apart
    <3> QED
      BY <3>1, <3>2
  <2>2. 1 + q \in Nat
    BY <1>1
  <2> HIDE DEF apart
  <2> QED
    BY <2>1, <2>2, GreatestExists
<1>3. gap \in apart
  <2> HIDE DEF apart
  <2> QED
    BY <1>2, GreatestChosen
<1>4. gap \in Nat \ {0} /\ (gap = 1 \/ gap * Half <= q)
  <2> HIDE DEF gap
  <2>1. gap \in Gaps /\ (gap = 1 \/ q >= gap * Half)
    BY <1>3
  <2> QED
    BY <1>1, <2>1, Parameters
<1>5. gap = Spacing(n, d)
  BY DEF Spacing, q
<1>6. CASE gap * Half <= q
  <2> HIDE DEF gap
  <2>1. gap * Half \in Nat
    BY <1>4, Parameters
  <2>2. d * (gap * Half) <= d * q
    BY <1>1, <1>6, <2>1, ProductGrows
  <2>3. gap * Half * d = d * (gap * Half) /\ d * q \in Nat
    BY <1>1, <1>4, Parameters
  <2> QED
    BY <1>1, <1>4, <1>5, <2>1, <2>2, <2>3
<1> QED
  BY <1>4, <1>5, <1>6

LEMMA HalfEvenFacts ==
  ASSUME NEW n \in Nat, NEW d \in Nat \ {0}
  PROVE  /\ HalfEven(n, d) \in Nat
         /\ 2 * (d * HalfEven(n, d)) <= 2 * n + d
         /\ 2 * n <= 2 * (d * HalfEven(n, d)) + d
<1> DEFINE q == n \div d
           r == n % d
           up == 2 * r > d \/ (2 * r = d /\ q % 2 = 1)
<1>1. q \in Nat /\ r \in Nat /\ r < d /\ n = d * q + r
  BY Division
<1>2. HalfEven(n, d) = q + (IF up THEN 1 ELSE 0)
  BY DEF HalfEven
<1>3. up => 2 * r >= d
  OBVIOUS
<1>4. ~up => 2 * r <= d
  BY <1>1
<1> HIDE DEF q, r, up
<1>5. d * q \in Nat /\ d * (q + 1) = d * q + d
  BY <1>1
<1>6. CASE up
  BY <1>1, <1>2, <1>3, <1>5, <1>6
<1>7. CASE ~up
  BY <1>1, <1>2, <1>4, <1>5, <1>7
<1> QED
  BY <1>6, <1>7

(* The nearest double is half a gap away at most. *)
LEMMA DoubleFacts ==
  ASSUME NEW n \in Int, NEW d \in Nat \ {0}
  PROVE  /\ Double(n, d) \in Int
         /\ n >= 0 => Double(n, d) >= 0
         /\ n <= 0 => Double(n, d) <= 0
         /\ Magnitude(Double(n, d)) = Double(Magnitude(n), d)
         /\ 2 * Magnitude(d * Double(n, d) - n) <= Spacing(Magnitude(n), d) * d
<1> DEFINE m == Magnitude(n)
           g == Spacing(m, d)
           h == HalfEven(m, d * g)
<1>1. m \in Nat /\ (n >= 0 => m = n) /\ (n < 0 => m = -n)
  BY DEF Magnitude
<1>2. g \in Nat \ {0}
  BY <1>1, SpacingFacts
<1> HIDE DEF m, g
<1>3. d * g \in Nat \ {0}
  BY <1>2
<1>4. /\ h \in Nat
      /\ 2 * (d * g * h) <= 2 * m + d * g
      /\ 2 * m <= 2 * (d * g * h) + d * g
  BY <1>1, <1>3, HalfEvenFacts
<1> HIDE DEF h
<1>5. Double(n, d) = IF n >= 0 THEN g * h ELSE -(g * h)
  BY DEF Double, WithSign, m, g, h
<1>6. g * h \in Nat
  BY <1>2, <1>4
<1>7. Double(m, d) = g * h
  <2>1. Magnitude(m) = m
    BY <1>1 DEF Magnitude
  <2> QED
    BY <1>1, <2>1 DEF Double, WithSign, g, h
<1>8. d * (g * h) = d * g * h /\ d * (-(g * h)) = -(d * g * h) /\ g * d = d * g
      /\ d * g * h \in Nat
  BY <1>2, <1>4
<1>9. 2 * Magnitude(d * Double(n, d) - n) <= g * d
  <2> DEFINE p == d * g * h
  <2>1. d * Double(n, d) = IF n >= 0 THEN p ELSE -p
    BY <1>5, <1>8
  <2>2. p \in Nat /\ 2 * p <= 2 * m + d * g /\ 2 * m <= 2 * p + d * g
    BY <1>4, <1>8
  <2> HIDE DEF p
  <2> QED
    BY <1>1, <1>3, <1>8, <2>1, <2>2 DEF Magnitude
<1>10. n = 0 => g * h = 0
  <2> SUFFICES ASSUME n = 0 PROVE g * h = 0
    OBVIOUS
  <2>1. m = 0
    BY <1>1
  <2>2. 2 * (d * g * h) <= d * g
    BY <1>3, <1>4, <1>8, <2>1
  <2>3. h = 0
    <3>1. CASE h >= 1
      <4>1. d * g * h >= d * g
        BY <1>3, <1>4, <3>1
      <4> QED
        BY <1>3, <1>8, <2>2, <4>1
    <3> QED
      BY <1>4, <3>1
  <2> QED
    BY <1>2, <2>3
<1> QED
  BY <1>1, <1>5, <1>6, <1>7, <1>9, <1>10 DEF Magnitude, m, g

(* The rounding of a double, relative to the significand it fills. *)
LEMMA Rounding ==
  ASSUME NEW n \in Int, NEW d \in Nat \ {0}
  PROVE  2 * Half * Magnitude(d * Double(n, d) - n)
           <= Greatest(Half * d, Magnitude(n))
<1> DEFINE m == Magnitude(n)
           g == Spacing(m, d)
           e == Magnitude(d * Double(n, d) - n)
<1>1. m \in Nat
  BY MagnitudeFacts
<1>2. g \in Nat \ {0} /\ (g = 1 \/ g * Half * d <= m)
  BY <1>1, SpacingFacts
<1>3. 2 * e <= g * d /\ e \in Nat
  <2>1. Double(n, d) \in Int
    BY DoubleFacts
  <2>2. d * Double(n, d) - n \in Int
    BY <2>1
  <2> QED
    BY <2>2, DoubleFacts, MagnitudeFacts
<1> HIDE DEF m, g, e
<1>4. Half * (2 * e) <= Half * (g * d)
  <2>1. g * d \in Int
    BY <1>2
  <2> QED
    BY <1>3, <2>1, Parameters, ProductGrows
<1>5. Half * (2 * e) = 2 * Half * e /\ Half * (g * d) = g * Half * d
      /\ Half * d \in Nat
  BY <1>2, <1>3, Parameters
<1>6. 2 * Half * e <= Half * d \/ 2 * Half * e <= m
  <2>1. CASE g = 1
    BY <1>4, <1>5, <2>1, Parameters
  <2>2. CASE g * Half * d <= m
    BY <1>1, <1>2, <1>3, <1>4, <1>5, <2>2, Parameters
  <2> QED
    BY <1>2, <2>1, <2>2
<1>7. 2 * Half * e \in Nat
  BY <1>3, Parameters
<1>8. 2 * Half * e <= Greatest(Half * d, m)
  BY <1>1, <1>5, <1>6, <1>7 DEF Greatest
<1> QED
  BY <1>8 DEF e, m

LEMMA DoubleOfZero ==
  ASSUME NEW d \in Nat \ {0}
  PROVE  Double(0, d) = 0
<1>1. Double(0, d) \in Int /\ Double(0, d) >= 0 /\ Double(0, d) <= 0
  BY DoubleFacts
<1> QED
  BY <1>1

LEMMA OperationTypes ==
  ASSUME NEW a \in Int, NEW b \in Int
  PROVE  /\ Sum(a, b) \in Int /\ Product(a, b) \in Int
         /\ b > 0 => Quotient(a, b) \in Int
<1>1. a + b \in Int /\ a * b \in Int /\ a * One \in Int
  BY Parameters
<1>2. 1 \in Nat \ {0} /\ One \in Nat \ {0} /\ (b > 0 => b \in Nat \ {0})
  BY Parameters
<1>3. Double(a + b, 1) \in Int
  BY <1>1, <1>2, DoubleFacts
<1>4. Double(a * b, One) \in Int
  BY <1>1, <1>2, DoubleFacts
<1>5. b > 0 => Double(a * One, b) \in Int
  BY <1>1, <1>2, DoubleFacts
<1> QED
  BY <1>3, <1>4, <1>5 DEF Sum, Product, Quotient

-----------------------------------------------------------------------------
(* Wheel and motor speeds. *)

Speeds == [left : Int, right : Int]

LEMMA TwistTypes ==
  ASSUME NEW linear \in Linear \cup {0}, NEW angular \in Angular \cup {0}
  PROVE  linear \in Int /\ angular \in Int
BY Parameters

LEMMA WheelRpmType ==
  ASSUME NEW linear \in Int, NEW angular \in Int
  PROVE  WheelRpm(linear, angular) \in Speeds
<1> DEFINE turn == Product(angular, HalfSeparation)
<1>1. HalfSeparation \in Int /\ RpmPerMps \in Int
  BY Parameters
<1>2. turn \in Int
  BY <1>1, OperationTypes
<1> HIDE DEF turn
<1>3. Sum(linear, -turn) \in Int /\ Sum(linear, turn) \in Int
  <2>1. -turn \in Int
    BY <1>2
  <2> QED
    BY <1>2, <2>1, OperationTypes
<1>4. /\ Product(Sum(linear, -turn), RpmPerMps) \in Int
      /\ Product(Sum(linear, turn), RpmPerMps) \in Int
  BY <1>1, <1>3, OperationTypes
<1> QED
  BY <1>4 DEF WheelRpm, turn, Speeds

LEMMA InvertedType ==
  ASSUME NEW w \in Speeds
  PROVE  Inverted(w) \in Speeds
BY DEF Inverted, Speeds

LEMMA LargestFacts ==
  ASSUME NEW a \in Int, NEW b \in Int
  PROVE  /\ Greatest(Magnitude(a), Magnitude(b)) \in Nat
         /\ Magnitude(a) <= Greatest(Magnitude(a), Magnitude(b))
         /\ Magnitude(b) <= Greatest(Magnitude(a), Magnitude(b))
BY DEF Greatest, Magnitude

(* The larger speed, and what brings it down to the limit. *)
Largest(w) == Greatest(Magnitude(w.left), Magnitude(w.right))
Scale(w) == Quotient(Limit * One, Largest(w))

LEMMA LimitedCases ==
  ASSUME NEW w
  PROVE  Limited(w) = IF Largest(w) > Limit * One
                      THEN [left  |-> Product(w.left, Scale(w)),
                            right |-> Product(w.right, Scale(w))]
                      ELSE w
BY DEF Limited, Largest, Scale

LEMMA ScaleType ==
  ASSUME NEW w \in Speeds, Largest(w) > Limit * One
  PROVE  Scale(w) \in Nat /\ Largest(w) \in Nat \ {0}
<1>1. Largest(w) \in Nat
  BY LargestFacts DEF Largest, Speeds
<1>2. Limit * One \in Nat
  BY Parameters
<1>3. Largest(w) > 0
  BY <1>1, <1>2
<1>4. Quotient(Limit * One, Largest(w)) >= 0
      /\ Quotient(Limit * One, Largest(w)) \in Int
  <2>1. Limit * One * One \in Int /\ Limit * One * One >= 0
    BY Parameters
  <2> QED
    BY <1>1, <1>3, <2>1, DoubleFacts DEF Quotient
<1> QED
  BY <1>1, <1>3, <1>4 DEF Scale

LEMMA LimitedType ==
  ASSUME NEW w \in Speeds
  PROVE  Limited(w) \in Speeds
<1>1. CASE Largest(w) > Limit * One
  <2>1. w.left \in Int /\ w.right \in Int /\ Scale(w) \in Int
    BY <1>1, ScaleType DEF Speeds
  <2>2. Product(w.left, Scale(w)) \in Int /\ Product(w.right, Scale(w)) \in Int
    BY <2>1, OperationTypes
  <2> QED
    BY <1>1, <2>2, LimitedCases DEF Speeds
<1>2. CASE ~(Largest(w) > Limit * One)
  BY <1>2, LimitedCases
<1> QED
  BY <1>1, <1>2

LEMMA MotorType ==
  ASSUME NEW linear \in Int, NEW angular \in Int
  PROVE  twist_to_motor_rpm(linear, angular) \in Speeds
BY WheelRpmType, LimitedType, InvertedType DEF twist_to_motor_rpm

-----------------------------------------------------------------------------
(* The bytes of a speed. *)

(* What is written as an int16 is read as it was, if it fits. *)
LEMMA RoundTrip ==
  ASSUME NEW v \in Int, Magnitude(v) <= 32767
  PROVE  read_int16_little_endian(write_int16_little_endian(v)) = v
<1> DEFINE low == v % 256
           high == (v \div 256) % 256
           value == low + 256 * high
<1>1. value = (IF v >= 0 THEN v ELSE v + 65536) /\ v <= 32767 /\ -v <= 32767
  BY DEF Magnitude
<1>2. write_int16_little_endian(v) = <<low, high>>
  BY DEF write_int16_little_endian
<1>3. read_int16_little_endian(<<low, high>>)
        = IF value <= 32767 THEN value ELSE value - 65536
  BY DEF read_int16_little_endian
<1> HIDE DEF low, high, value
<1> QED
  BY <1>1, <1>2, <1>3

LEMMA BytesType ==
  ASSUME NEW v \in Int
  PROVE  write_int16_little_endian(v) \in Bytes
<1>1. v % 256 \in 0 .. 255 /\ (v \div 256) % 256 \in 0 .. 255
  OBVIOUS
<1> QED
  BY <1>1 DEF write_int16_little_endian, Bytes

LEMMA EncodedType ==
  ASSUME NEW rpm \in Int
  PROVE  encode_speed_units(rpm) \in Int
<1> DEFINE units == Double(rpm * UnitsPerRpm, 1)
<1>1. units \in Int
  <2>1. rpm * UnitsPerRpm \in Int
    BY Parameters
  <2> QED
    BY <2>1, DoubleFacts
<1> HIDE DEF units
<1>2. Magnitude(units) \in Nat
  BY <1>1, MagnitudeFacts
<1>3. (2 * Magnitude(units) + One) \div (2 * One) \in Int
  <2>1. 2 * Magnitude(units) + One \in Int /\ 2 * One \in Nat \ {0}
    BY <1>2, Parameters
  <2> QED
    BY <2>1, Division
<1>4. WithSign(units, (2 * Magnitude(units) + One) \div (2 * One)) \in Int
  BY <1>3 DEF WithSign
<1> QED
  BY <1>4 DEF encode_speed_units, units

LEMMA FrameType ==
  ASSUME NEW m \in Speeds
  PROVE  SpeedBytes(m) \in [left : Bytes, right : Bytes]
<1>1. m.left \in Int /\ m.right \in Int
  BY DEF Speeds
<1>2. encode_speed_units(m.left) \in Int /\ encode_speed_units(m.right) \in Int
  BY <1>1, EncodedType
<1>3. /\ write_int16_little_endian(encode_speed_units(m.left)) \in Bytes
      /\ write_int16_little_endian(encode_speed_units(m.right)) \in Bytes
  BY <1>2, BytesType
<1> QED
  BY <1>3 DEF SpeedBytes

LEMMA ReadType ==
  ASSUME NEW bytes \in Bytes
  PROVE  read_int16_little_endian(bytes) \in Int
<1> DEFINE low == bytes[1]
           high == bytes[2]
<1>1. low \in 0 .. 255 /\ high \in 0 .. 255
  BY DEF Bytes
<1>2. low \in Int /\ high \in Int
  <2> HIDE DEF low, high
  <2> QED
    BY <1>1
<1>3. bytes[1] + 256 * bytes[2] \in Int
  BY <1>2
<1> QED
  BY <1>3 DEF read_int16_little_endian

(* What the controller may answer: the speed it was told, in the units of  *)
(* a reply, with its sign.                                                 *)
LEMMA ReplyUnits ==
  ASSUME NEW n \in Int,
         NEW r \in {(n * FeedbackUnitsPerRpm) \div UnitsPerRpm,
                   -((-(n * FeedbackUnitsPerRpm)) \div UnitsPerRpm)}
  PROVE  /\ r \in Int
         /\ n >= 0 => r >= 0
         /\ n <= 0 => r <= 0
         /\ UnitsPerRpm * r - FeedbackUnitsPerRpm * n <= ReplyRounding
         /\ FeedbackUnitsPerRpm * n - UnitsPerRpm * r <= ReplyRounding
         /\ UnitsPerRpm * Magnitude(r)
              < FeedbackUnitsPerRpm * Magnitude(n) + UnitsPerRpm
<1>1. CASE UnitsPerRpm = 1 /\ FeedbackUnitsPerRpm = 1
  BY <1>1 DEF Magnitude, ReplyRounding
<1>2. CASE UnitsPerRpm = 1 /\ FeedbackUnitsPerRpm = 10
  BY <1>2 DEF Magnitude, ReplyRounding
<1>3. CASE UnitsPerRpm = 10 /\ FeedbackUnitsPerRpm = 10
  BY <1>3 DEF Magnitude, ReplyRounding
<1>4. CASE UnitsPerRpm = 10 /\ FeedbackUnitsPerRpm = 1
  BY <1>4 DEF Magnitude, ReplyRounding
<1> QED
  BY <1>1, <1>2, <1>3, <1>4, Parameters

LEMMA ReplyType ==
  ASSUME NEW bytes \in Bytes
  PROVE  Replies(bytes) \subseteq Bytes
<1> DEFINE n == read_int16_little_endian(bytes)
           S == {(n * FeedbackUnitsPerRpm) \div UnitsPerRpm,
                 -((-(n * FeedbackUnitsPerRpm)) \div UnitsPerRpm)}
<1>1. n \in Int
  BY ReadType
<1>2. Replies(bytes) = {write_int16_little_endian(r) : r \in S}
  BY DEF Replies
<1> HIDE DEF n
<1>3. \A r \in S : r \in Int
  BY <1>1, ReplyUnits
<1> HIDE DEF S
<1> QED
  BY <1>2, <1>3, BytesType

LEMMA DecodedType ==
  ASSUME NEW bytes \in Bytes
  PROVE  DecodedSpeed(bytes) \in Int
<1>1. read_int16_little_endian(bytes) \in Int
  BY ReadType
<1>2. read_int16_little_endian(bytes) * One \in Int
  BY <1>1, Parameters
<1>3. Double(One, FeedbackUnitsPerRpm) \in Int
  <2>1. One \in Int /\ FeedbackUnitsPerRpm \in Nat \ {0}
    BY Parameters
  <2> QED
    BY <2>1, DoubleFacts
<1> QED
  BY <1>2, <1>3, OperationTypes DEF DecodedSpeed

Standstill == [left |-> 0, right |-> 0]

LEMMA StandstillType == Standstill \in Speeds
BY DEF Standstill, Speeds

(* The twist of standstill makes the speeds the watchdog asks for. *)
LEMMA StandstillTwist == twist_to_motor_rpm(0, 0) = Standstill
<1>1. One \in Nat \ {0} /\ 1 \in Nat \ {0}
  BY Parameters
<1>2. Product(0, HalfSeparation) = 0 /\ Product(0, RpmPerMps) = 0
  <2>1. 0 * HalfSeparation = 0 /\ 0 * RpmPerMps = 0
    BY Parameters
  <2>2. Double(0, One) = 0
    BY <1>1, DoubleOfZero
  <2> QED
    BY <2>1, <2>2 DEF Product
<1>3. Sum(0, 0) = 0
  BY <1>1, DoubleOfZero DEF Sum
<1>4. WheelRpm(0, 0) = Standstill
  <2>1. -Product(0, HalfSeparation) = Product(0, HalfSeparation)
    BY <1>2, ZeroHasNoSign
  <2> QED
    BY <1>2, <1>3, <2>1 DEF WheelRpm, Standstill
<1>5. Limited(Standstill) = Standstill
  <2>1. Largest(Standstill) = 0
    BY DEF Largest, Standstill, Greatest, Magnitude
  <2>2. ~(0 > Limit * One)
    BY Parameters
  <2> QED
    BY <2>1, <2>2, LimitedCases
<1>6. Inverted(Standstill) = Standstill
  BY DEF Inverted, Standstill
<1> QED
  BY <1>4, <1>5, <1>6 DEF twist_to_motor_rpm

-----------------------------------------------------------------------------
(* Type correctness. *)

LEMMA PublishTypes ==
  ASSUME TypeOK, NEW m \in Speeds,
         NEW of \in (Linear \cup {0}) \X (Angular \cup {0}), Publish(m, of)
  PROVE  TypeOK'
<1>1. SpeedBytes(m) \in [left : Bytes, right : Bytes]
  BY FrameType
<1>2. refused' \in BOOLEAN /\ measured' \in BOOLEAN
  BY DEF Publish, TypeOK, Encodable
<1>3. frame' \in [left : Bytes, right : Bytes]
  BY <1>1 DEF Publish, TypeOK
<1>4. asked' \in (Linear \cup {0}) \X (Angular \cup {0})
  BY DEF Publish, TypeOK
<1> QED
  BY <1>2, <1>3, <1>4 DEF Publish, TypeOK, twist

LEMMA InitTypes == Init => TypeOK
<1>1. Stopped \in [left : Bytes, right : Bytes]
  BY FrameType, StandstillType DEF Stopped, Standstill
<1>2. <<0, 0>> \in (Linear \cup {0}) \X (Angular \cup {0})
  OBVIOUS
<1>3. [left |-> 0, right |-> 0] \in [left : Int, right : Int]
  OBVIOUS
<1> QED
  BY <1>1, <1>2, <1>3 DEF Init, TypeOK

LEMMA StepTypes == TypeOK /\ [Next]_vars => TypeOK'
<1> SUFFICES ASSUME TypeOK, [Next]_vars PROVE TypeOK'
  OBVIOUS
<1>1. CASE \E linear \in Linear, angular \in Angular :
             CommandCallback(linear, angular)
  BY <1>1 DEF CommandCallback, TypeOK, feedback
<1>2. CASE ControlCallback
  <2>1. linear_velocity_mps \in Linear \cup {0}
        /\ angular_velocity_radps \in Angular \cup {0}
    BY DEF TypeOK
  <2>2. twist_to_motor_rpm(linear_velocity_mps, angular_velocity_radps) \in Speeds
    BY <2>1, TwistTypes, MotorType
  <2>3. twist \in (Linear \cup {0}) \X (Angular \cup {0})
    BY <2>1 DEF twist
  <2> QED
    BY <1>2, <2>2, <2>3, PublishTypes DEF ControlCallback
<1>3. CASE WatchdogExpires
  <2>1. <<0, 0>> \in (Linear \cup {0}) \X (Angular \cup {0})
    OBVIOUS
  <2> QED
    BY <1>3, <2>1, StandstillType, PublishTypes DEF WatchdogExpires, Standstill
<1>4. CASE ReceiveSpeeds
  <2>1. PICK left \in Replies(frame.left), right \in Replies(frame.right) :
          wheel_rpm' = motor_values_to_wheel([left  |-> DecodedSpeed(left),
                                              right |-> DecodedSpeed(right)])
    BY <1>4 DEF ReceiveSpeeds
  <2>2. left \in Bytes /\ right \in Bytes
    BY ReplyType DEF TypeOK
  <2>3. DecodedSpeed(left) \in Int /\ DecodedSpeed(right) \in Int
    BY <2>2, DecodedType
  <2>4. wheel_rpm' \in Speeds
    BY <2>1, <2>3, InvertedType DEF Speeds, motor_values_to_wheel
  <2> QED
    BY <1>4, <2>4 DEF ReceiveSpeeds, TypeOK, twist, Speeds
<1>5. CASE UNCHANGED vars
  BY <1>5 DEF vars, twist, feedback, TypeOK
<1> QED
  BY <1>1, <1>2, <1>3, <1>4, <1>5 DEF Next

(* Whatever is asked, a frame holds two pairs of bytes and the speeds that *)
(* are published are numbers.                                              *)
THEOREM TypeCorrect == Spec => []TypeOK
BY InitTypes, StepTypes, PTL DEF Spec

-----------------------------------------------------------------------------
(* Every target that was limited can be sent. *)

LEMMA GreatestBound ==
  ASSUME NEW a \in Int, NEW b \in Int, NEW c \in Int, a <= c, b <= c
  PROVE  Greatest(a, b) <= c
BY DEF Greatest

(* The larger speed times the scale is the limit, but for a rounding. *)
LEMMA ScaleBound ==
  ASSUME NEW w \in Speeds, Largest(w) > Limit * One,
         2 * Largest(w) <= One * One, 2 * Limit <= Half
  PROVE  4 * (Largest(w) * Scale(w)) <= 4 * (Limit * (One * One)) + One * One
<1> DEFINE l == Largest(w)
           s == Scale(w)
           u == One * One
           c == Limit * One * One
           e == Magnitude(l * s - c)
<1>1. l \in Nat \ {0} /\ s \in Nat
  BY ScaleType
<1>2. u \in Nat /\ c \in Nat /\ c = Limit * u
  BY Parameters
<1>3. 2 * Half * e <= Greatest(Half * l, c)
  <2>1. s = Double(c, l)
    BY DEF Scale, Quotient
  <2>2. Magnitude(c) = c
    BY <1>2 DEF Magnitude
  <2> HIDE DEF l, c, s
  <2>3. 2 * Half * Magnitude(l * Double(c, l) - c) <= Greatest(Half * l, Magnitude(c))
    BY <1>1, <1>2, Rounding
  <2> QED
    BY <2>1, <2>2, <2>3 DEF e
<1>4. 2 * l <= u
  OBVIOUS
<1> HIDE DEF l, s, u, c
<1>5. Half * (2 * l) <= Half * u
  BY <1>1, <1>2, <1>4, Parameters, ProductGrows
<1>6. u * (2 * Limit) <= u * Half
  BY <1>2, Parameters, ProductGrows
<1>7. e \in Nat /\ l * s \in Nat /\ l * s <= c + e
  <2>1. l * s - c \in Int /\ l * s \in Nat
    BY <1>1, <1>2
  <2>2. l * s - c <= e /\ e \in Nat
    BY <2>1, MagnitudeFacts
  <2> QED
    BY <1>2, <2>1, <2>2
<1> HIDE DEF e
<1>8. 4 * e <= u
  <2>1. 2 * (2 * Half * e) <= Half * u
    <3>1. Half * l \in Int /\ Half * u \in Int /\ 2 * Half * e \in Int
      BY <1>1, <1>2, <1>7, Parameters
    <3>2. 2 * (Half * l) <= Half * u
      BY <1>1, <1>5, Parameters
    <3>3. 2 * c <= Half * u
      BY <1>2, <1>6, Parameters
    <3> QED
      BY <1>2, <1>3, <3>1, <3>2, <3>3 DEF Greatest
  <2>2. 2 * (2 * Half * e) = Half * (4 * e)
    BY <1>7, Parameters
  <2>3. Half \in Nat \ {0}
    BY Parameters
  <2> QED
    BY <1>2, <1>7, <2>1, <2>2, <2>3, ProductShrinks
<1>9. 4 * (l * s) <= 4 * (Limit * u) + u
  BY <1>2, <1>7, <1>8
<1> QED
  BY <1>9 DEF l, s, u

(* A scaled speed exceeds the limit by less than a revolution per minute. *)
LEMMA ScaledBound ==
  ASSUME NEW w \in Speeds, Largest(w) > Limit * One,
         2 * Largest(w) <= One * One, 2 * Limit <= Half,
         NEW a \in Int, Magnitude(a) <= Largest(w)
  PROVE  Magnitude(Product(a, Scale(w))) <= Limit * One + One
<1> DEFINE l == Largest(w)
           s == Scale(w)
           u == One * One
           m == Magnitude(a)
           t == m * s
           p == Double(t, One)
           e == Magnitude(One * p - t)
<1>1. l \in Nat \ {0} /\ s \in Nat /\ m \in Nat
  BY ScaleType, MagnitudeFacts
<1>2. u \in Nat /\ u >= One
  <2>1. One * 1 <= One * One
    BY Parameters, ProductGrows
  <2> QED
    BY <2>1, Parameters
<1>3. 4 * (l * s) <= 4 * (Limit * u) + u
  BY ScaleBound
<1>4. m <= l
  OBVIOUS
<1>5. Magnitude(Product(a, s)) = p
  <2> HIDE DEF s
  <2>1. a * s \in Int /\ One \in Nat \ {0}
    BY <1>1, Parameters
  <2>2. Magnitude(a * s) = t
    <3>1. m = IF a >= 0 THEN a ELSE -a
      BY DEF Magnitude
    <3> HIDE DEF m
    <3>2. CASE a >= 0
      <4>1. a * s >= 0
        BY <1>1, <3>2
      <4> QED
        BY <2>1, <3>1, <3>2, <4>1 DEF Magnitude
    <3>3. CASE a < 0
      <4>1. a * s = -(m * s) /\ m * s \in Nat
        BY <1>1, <3>1, <3>3
      <4> QED
        BY <4>1 DEF Magnitude
    <3> QED
      BY <3>2, <3>3
  <2>3. Magnitude(Double(a * s, One)) = Double(Magnitude(a * s), One)
    BY <2>1, DoubleFacts
  <2> QED
    BY <2>2, <2>3 DEF Product
<1> HIDE DEF l, s, u, m
<1>6. t \in Nat /\ 4 * t <= 4 * (Limit * u) + u
  <2>1. s * m <= s * l
    BY <1>1, <1>4, ProductGrows
  <2>2. s * m = m * s /\ s * l = l * s /\ m * s \in Nat /\ l * s \in Nat
    BY <1>1
  <2>3. Limit * u \in Nat
    BY <1>2, Parameters
  <2> QED
    BY <1>2, <1>3, <2>1, <2>2, <2>3
<1> HIDE DEF t
<1>7. p \in Nat /\ e \in Nat /\ 2 * Half * e <= Greatest(Half * One, t)
      /\ One * p <= t + e
  <2>1. t \in Int /\ One \in Nat \ {0} /\ t >= 0
    BY <1>6, Parameters
  <2>2. p \in Int /\ p >= 0
    BY <2>1, DoubleFacts
  <2>3. 2 * Half * Magnitude(One * p - t) <= Greatest(Half * One, Magnitude(t))
    BY <2>1, Rounding
  <2>4. Magnitude(t) = t
    BY <2>1 DEF Magnitude
  <2> HIDE DEF p
  <2>5. One * p \in Int /\ One * p - t \in Int
    BY <2>1, <2>2
  <2>6. e \in Nat /\ One * p - t <= e
    BY <2>5, MagnitudeFacts
  <2> QED
    BY <2>1, <2>2, <2>3, <2>4, <2>5, <2>6
<1> HIDE DEF p, e
<1>8. 2 * e <= u
  <2>1. 2 * Half * e <= Half * u
    <3>1. Half * One <= Half * u
      BY <1>2, Parameters, ProductGrows
    <3>2. t <= Half * u
      <4>1. u * (2 * Limit) <= u * Half
        BY <1>2, Parameters, ProductGrows
      <4>2. u * 1 <= u * Half
        BY <1>2, Parameters, ProductGrows
      <4>3. u * (2 * Limit) = 2 * (Limit * u) /\ u * 1 = u /\ u * Half = Half * u
            /\ Limit * u \in Nat /\ Half * u \in Nat
        BY <1>2, Parameters
      <4> QED
        BY <1>2, <1>6, <4>1, <4>2, <4>3
    <3>3. Half * One \in Int /\ Half * u \in Int /\ 2 * Half * e \in Int
      BY <1>2, <1>7, Parameters
    <3> QED
      BY <1>6, <1>7, <3>1, <3>2, <3>3 DEF Greatest
  <2>2. 2 * Half * e = Half * (2 * e) /\ Half \in Nat \ {0}
    BY <1>7, Parameters
  <2> QED
    BY <1>2, <1>7, <2>1, <2>2, ProductShrinks
<1>9. 4 * (One * p) <= 4 * (Limit * u) + 3 * u
  BY <1>2, <1>6, <1>7, <1>8, Parameters
<1>10. One * p <= One * (Limit * One + One)
  <2>1. One * (Limit * One + One) = Limit * u + u
    BY Parameters DEF u
  <2>2. Limit * u \in Nat /\ One * p \in Nat
    BY <1>2, <1>7, Parameters
  <2> QED
    BY <1>2, <1>9, <2>1, <2>2
<1>11. p <= Limit * One + One
  <2>1. Limit * One + One \in Int /\ One \in Nat \ {0}
    BY Parameters
  <2> QED
    BY <1>7, <1>10, <2>1, ProductShrinks
<1> QED
  BY <1>5, <1>11 DEF s

(* What the limit leaves exceeds it by less than one rpm. *)
LEMMA LimitedBound ==
  ASSUME NEW w \in Speeds, 2 * Largest(w) <= One * One, 2 * Limit <= Half
  PROVE  /\ Magnitude(Limited(w).left) <= Limit * One + One
         /\ Magnitude(Limited(w).right) <= Limit * One + One
<1>1. w.left \in Int /\ w.right \in Int
  BY DEF Speeds
<1>2. Magnitude(w.left) <= Largest(w) /\ Magnitude(w.right) <= Largest(w)
      /\ Largest(w) \in Nat
  BY <1>1, LargestFacts DEF Largest
<1>3. CASE Largest(w) > Limit * One
  <2>1. /\ Magnitude(Product(w.left, Scale(w))) <= Limit * One + One
        /\ Magnitude(Product(w.right, Scale(w))) <= Limit * One + One
    BY <1>1, <1>2, <1>3, ScaledBound
  <2> QED
    BY <1>3, <2>1, LimitedCases
<1>4. CASE ~(Largest(w) > Limit * One)
  <2>1. Limited(w) = w
    BY <1>4, LimitedCases
  <2>2. Magnitude(w.left) \in Nat /\ Magnitude(w.right) \in Nat
        /\ Limit * One \in Nat
    BY <1>1, MagnitudeFacts, Parameters
  <2> QED
    BY <1>2, <1>4, <2>1, <2>2, Parameters
<1> QED
  BY <1>3, <1>4

(* No twist the node is sent overflows what a scale can be shown in. *)
LEMMA TwistFits ==
  ASSUME NEW linear \in Linear \cup {0}, NEW angular \in Angular \cup {0}
  PROVE  /\ WheelRpm(linear, angular) \in Speeds
         /\ 2 * Largest(WheelRpm(linear, angular)) <= One * One
         /\ 2 * Limit <= Half
BY TwistTypes, WheelRpmType, ScaleAssumption DEF Largest

(* Below the bound of the protocol, every target can be encoded. *)
LEMMA TargetEncodable ==
  ASSUME Limit < MaxSpeedRpm,
         NEW linear \in Linear \cup {0}, NEW angular \in Angular \cup {0}
  PROVE  LET m == twist_to_motor_rpm(linear, angular)
         IN  Encodable(m.left) /\ Encodable(m.right)
<1> DEFINE v == Limited(WheelRpm(linear, angular))
<1>1. v \in Speeds
  BY TwistFits, LimitedType
<1>2. /\ Magnitude(v.left) <= Limit * One + One
      /\ Magnitude(v.right) <= Limit * One + One
  BY TwistFits, LimitedBound
<1>3. Limit * One + One <= MaxSpeedRpm * One
  <2>1. One * (Limit + 1) <= One * MaxSpeedRpm
    BY Parameters, ProductGrows
  <2> QED
    BY <2>1, Parameters
<1> HIDE DEF v
<1>4. Encodable(v.left) /\ Encodable(v.right)
  <2>1. /\ Magnitude(v.left) \in Nat /\ Magnitude(v.right) \in Nat
        /\ Limit * One + One \in Nat /\ MaxSpeedRpm * One \in Nat
    BY <1>1, MagnitudeFacts, Parameters DEF Speeds
  <2> QED
    BY <1>2, <1>3, <2>1 DEF Encodable
<1>5. Encodable(Inverted(v).left) /\ Encodable(Inverted(v).right)
  <2>1. /\ Magnitude(-v.left) = Magnitude(v.left)
        /\ Magnitude(-v.right) = Magnitude(v.right)
    BY <1>1, MagnitudeFacts DEF Speeds
  <2> QED
    BY <1>4, <2>1 DEF Encodable, Inverted
<1> QED
  BY <1>5 DEF twist_to_motor_rpm, v

LEMMA StandstillEncodable == Encodable(Standstill.left) /\ Encodable(Standstill.right)
<1>1. MaxSpeedRpm * One >= 0
  BY Parameters
<1> QED
  BY <1>1 DEF Encodable, Standstill, Magnitude

LEMMA StepSent ==
  ASSUME Limit < MaxSpeedRpm, TypeOK, CommandIsSent, [Next]_vars
  PROVE  CommandIsSent'
<1>1. CASE \E linear \in Linear, angular \in Angular :
             CommandCallback(linear, angular)
  BY <1>1 DEF CommandCallback, CommandIsSent
<1>2. CASE ControlCallback
  <2>1. linear_velocity_mps \in Linear \cup {0}
        /\ angular_velocity_radps \in Angular \cup {0}
    BY DEF TypeOK
  <2> DEFINE m == twist_to_motor_rpm(linear_velocity_mps, angular_velocity_radps)
  <2>2. Encodable(m.left) /\ Encodable(m.right)
    BY <2>1, TargetEncodable
  <2> HIDE DEF m
  <2>3. Publish(m, twist)
    BY <1>2 DEF ControlCallback, m
  <2> QED
    BY <2>2, <2>3 DEF Publish, CommandIsSent
<1>3. CASE WatchdogExpires
  BY <1>3, StandstillEncodable DEF WatchdogExpires, Publish, Standstill,
     CommandIsSent
<1>4. CASE ReceiveSpeeds
  BY <1>4 DEF ReceiveSpeeds, CommandIsSent
<1>5. CASE UNCHANGED vars
  BY <1>5 DEF vars, CommandIsSent
<1> QED
  BY <1>1, <1>2, <1>3, <1>4, <1>5 DEF Next

(* With a limit below the bound of the protocol no rounding takes a target *)
(* that was limited beyond what can be sent, whatever the twist.           *)
THEOREM CommandSent ==
  ASSUME Limit < MaxSpeedRpm
  PROVE  Spec => []CommandIsSent
<1>1. Init => CommandIsSent
  BY DEF Init, CommandIsSent
<1>2. TypeOK /\ CommandIsSent /\ [Next]_vars => CommandIsSent'
  BY StepSent
<1> QED
  BY <1>1, <1>2, TypeCorrect, PTL DEF Spec

-----------------------------------------------------------------------------
(* What the roundings add up to. *)

Close(a, b, e) == a - b <= e /\ b - a <= e

LEMMA CloseTimes ==
  ASSUME NEW r \in Nat, NEW a \in Int, NEW b \in Int, NEW e \in Int,
         Close(a, b, e)
  PROVE  Close(r * a, r * b, r * e)
<1>1. r * (a - b) <= r * e /\ r * (b - a) <= r * e
  <2>1. a - b \in Int /\ b - a \in Int /\ a - b <= e /\ b - a <= e
    BY DEF Close
  <2> QED
    BY <2>1, ProductGrows
<1>2. r * (a - b) = r * a - r * b /\ r * (b - a) = r * b - r * a
  OBVIOUS
<1> QED
  BY <1>1, <1>2 DEF Close

LEMMA CloseDivided ==
  ASSUME NEW r \in Nat \ {0}, NEW a \in Int, NEW b \in Int, NEW e \in Int,
         Close(r * a, r * b, r * e)
  PROVE  Close(a, b, e)
<1>1. r * (a - b) = r * a - r * b /\ r * (b - a) = r * b - r * a
  OBVIOUS
<1>2. r * (a - b) <= r * e /\ r * (b - a) <= r * e
  BY <1>1 DEF Close
<1>3. a - b <= e /\ b - a <= e
  BY <1>2, ProductShrinks
<1> QED
  BY <1>3 DEF Close

LEMMA CloseChain ==
  ASSUME NEW a \in Int, NEW b \in Int, NEW c \in Int,
         NEW e \in Int, NEW f \in Int, NEW g \in Int,
         Close(a, b, e), Close(b, c, f), e + f <= g
  PROVE  Close(a, c, g)
BY DEF Close

LEMMA CloseMagnitudes ==
  ASSUME NEW a \in Int, NEW b \in Int, NEW e \in Int, Close(a, b, e)
  PROVE  Close(Magnitude(a), Magnitude(b), e)
BY DEF Close, Magnitude

LEMMA CloseGreatest ==
  ASSUME NEW a \in Int, NEW b \in Int, NEW c \in Int, NEW d \in Int, NEW e \in Int,
         Close(a, c, e), Close(b, d, e)
  PROVE  Close(Greatest(a, b), Greatest(c, d), e)
BY DEF Close, Greatest

LEMMA MagnitudeTimes ==
  ASSUME NEW r \in Nat, NEW a \in Int, NEW b \in Int
  PROVE  /\ Magnitude(r * a) = r * Magnitude(a)
         /\ Magnitude(a * r) = Magnitude(a) * r
         /\ Greatest(r * a, r * b) = r * Greatest(a, b)
<1>1. a >= 0 => r * a >= 0
  OBVIOUS
<1>2. a <= 0 => r * a <= 0
  OBVIOUS
<1>3. r * (-a) = -(r * a) /\ (-a) * r = -(r * a) /\ a * r = r * a
  OBVIOUS
<1>4. a >= b => r * a >= r * b
  OBVIOUS
<1>5. b >= a => r * b >= r * a
  OBVIOUS
<1> QED
  BY <1>1, <1>2, <1>3, <1>4, <1>5 DEF Magnitude, Greatest

LEMMA SidesClose ==
  ASSUME NEW r \in Nat, NEW a \in Int, NEW b \in Int, NEW e \in Int,
         Close(r * a, r * b, e)
  PROVE  Close(r * Magnitude(a), r * Magnitude(b), e)
<1>1. r * a \in Int /\ r * b \in Int
  OBVIOUS
<1>2. Close(Magnitude(r * a), Magnitude(r * b), e)
  BY <1>1, CloseMagnitudes
<1> QED
  BY <1>2, MagnitudeTimes

(* A double is off by half of the unit, or by half of the last bit. *)
LEMMA RoundingClose ==
  ASSUME NEW n \in Int, NEW d \in Nat \ {0}
  PROVE  Close(2 * Half * (d * Double(n, d)), 2 * Half * n,
               Half * d + Magnitude(n))
<1> DEFINE p == d * Double(n, d)
<1>1. p \in Int
  BY DoubleFacts
<1>2. 2 * Half * Magnitude(p - n) <= Greatest(Half * d, Magnitude(n))
  BY Rounding
<1> HIDE DEF p
<1>3. p - n \in Int /\ n - p \in Int /\ Magnitude(p - n) \in Nat
      /\ p - n <= Magnitude(p - n) /\ n - p <= Magnitude(p - n)
  <2>1. p - n \in Int /\ n - p = -(p - n)
    BY <1>1
  <2> QED
    BY <2>1, MagnitudeFacts
<1>4. 2 * Half \in Nat
  BY Parameters
<1>5. 2 * Half * (p - n) <= 2 * Half * Magnitude(p - n)
      /\ 2 * Half * (n - p) <= 2 * Half * Magnitude(p - n)
  BY <1>3, <1>4, ProductGrows
<1>6. 2 * Half * (p - n) = 2 * Half * p - 2 * Half * n
      /\ 2 * Half * (n - p) = 2 * Half * n - 2 * Half * p
  BY <1>1, Parameters
<1>7. Greatest(Half * d, Magnitude(n)) <= Half * d + Magnitude(n)
      /\ Greatest(Half * d, Magnitude(n)) \in Int
  <2>1. Half * d \in Nat /\ Magnitude(n) \in Nat
    BY Parameters, MagnitudeFacts
  <2> QED
    BY <2>1 DEF Greatest
<1>8. /\ 2 * Half * p \in Int /\ 2 * Half * n \in Int
      /\ 2 * Half * Magnitude(p - n) \in Int
      /\ Half * d + Magnitude(n) \in Int
  BY <1>1, <1>3, Parameters, MagnitudeFacts
<1>9. Close(2 * Half * p, 2 * Half * n, Half * d + Magnitude(n))
  BY <1>2, <1>5, <1>6, <1>7, <1>8 DEF Close
<1> QED
  BY <1>9 DEF p

(* How far each wheel turns with the robot, in the numbers of Wanted. *)
Turn(angular) == (angular * HalfSeparation) \div One

Fastest(linear, angular) ==
  Greatest(Magnitude(linear - Turn(angular)), Magnitude(linear + Turn(angular)))

LEMMA FastestFacts ==
  ASSUME NEW a \in Int, NEW b \in Int
  PROVE  Greatest(Magnitude(a - b), Magnitude(a + b)) = Magnitude(a) + Magnitude(b)
BY DEF Greatest, Magnitude

LEMMA TurnClose ==
  ASSUME NEW angular \in Int
  PROVE  /\ Turn(angular) \in Int
         /\ Close(2 * Half * Product(angular, HalfSeparation),
                  2 * Half * Turn(angular), 4 * Half + Magnitude(Turn(angular)))
<1> DEFINE z == angular * HalfSeparation
           t == Double(z, One)
           q == Turn(angular)
           r == z % One
<1>1. z \in Int /\ One \in Nat \ {0}
  BY Parameters
<1>2. t \in Int /\ Close(2 * Half * (One * t), 2 * Half * z,
                         Half * One + Magnitude(z))
  <2> HIDE DEF z
  <2> QED
    BY <1>1, DoubleFacts, RoundingClose
<1>3. q \in Int /\ r \in Nat /\ r < One /\ z = One * q + r
  BY <1>1, Division DEF Turn
<1> HIDE DEF z, t, q, r
<1>4. One * q \in Int /\ Magnitude(q) \in Nat /\ One * Magnitude(q) \in Nat
  BY <1>3, Parameters, MagnitudeFacts
<1>5. Magnitude(z) <= One * Magnitude(q) + One /\ Magnitude(z) \in Nat
  <2>1. Magnitude(One * q) = One * Magnitude(q)
    BY <1>3, Parameters, MagnitudeTimes
  <2>2. One * q <= One * Magnitude(q) /\ -(One * q) <= One * Magnitude(q)
    BY <1>4, <2>1, MagnitudeFacts
  <2>3. z <= One * Magnitude(q) + One /\ -z <= One * Magnitude(q) + One
    BY <1>3, <1>4, <2>2, Parameters
  <2> QED
    BY <1>1, <2>3, MagnitudeFacts
<1>6. Close(2 * Half * z, 2 * Half * (One * q), 2 * Half * One)
  <2>1. Close(z, One * q, One)
    BY <1>1, <1>3, <1>4 DEF Close
  <2>2. 2 * Half \in Nat /\ One \in Int
    BY Parameters
  <2> QED
    BY <1>1, <1>4, <2>1, <2>2, CloseTimes
<1>7. Close(2 * Half * (One * t), 2 * Half * (One * q),
            One * (4 * Half + Magnitude(q)))
  <2>1. One * (4 * Half + Magnitude(q)) = 4 * (Half * One) + One * Magnitude(q)
        /\ 2 * Half * One = 2 * (Half * One) /\ Half * One \in Nat
    BY <1>4, Parameters
  <2>2. One <= Half * One
    <3>1. One * 1 <= One * Half
      BY Parameters, ProductGrows
    <3> QED
      BY <3>1, Parameters
  <2>3. (Half * One + Magnitude(z)) + 2 * Half * One
          <= One * (4 * Half + Magnitude(q))
    <3> DEFINE h == Half * One
               k == One * Magnitude(q)
    <3>1. (h + Magnitude(z)) + 2 * h <= 4 * h + k
      <4>1. h \in Nat /\ k \in Nat /\ One <= h /\ Magnitude(z) <= k + One
        BY <1>4, <1>5, <2>1, <2>2
      <4> HIDE DEF h, k
      <4> QED
        BY <1>5, <4>1, Parameters
    <3> QED
      BY <2>1, <3>1
  <2>4. /\ 2 * Half * (One * t) \in Int /\ 2 * Half * z \in Int
        /\ 2 * Half * (One * q) \in Int /\ Half * One + Magnitude(z) \in Int
        /\ 2 * Half * One \in Int /\ One * (4 * Half + Magnitude(q)) \in Int
    BY <1>1, <1>2, <1>4, <1>5, Parameters
  <2> QED
    BY <1>2, <1>6, <2>3, <2>4, CloseChain
<1>8. Close(2 * Half * t, 2 * Half * q, 4 * Half + Magnitude(q))
  <2>1. 2 * Half * (One * t) = One * (2 * Half * t)
        /\ 2 * Half * (One * q) = One * (2 * Half * q)
    BY <1>2, <1>3, Parameters
  <2>2. 2 * Half * t \in Int /\ 2 * Half * q \in Int
        /\ 4 * Half + Magnitude(q) \in Int
    BY <1>2, <1>3, <1>4, Parameters
  <2> QED
    BY <1>1, <1>7, <2>1, <2>2, CloseDivided
<1>9. t = Product(angular, HalfSeparation)
  BY DEF Product, t, z
<1> QED
  BY <1>3, <1>8, <1>9 DEF q

LEMMA SumClose ==
  ASSUME NEW a \in Int, NEW b \in Int, NEW t \in Int,
         Close(2 * Half * t, 2 * Half * b, 4 * Half + Magnitude(b))
  PROVE  /\ Sum(a, t) \in Int
         /\ Close(2 * Half * Sum(a, t), 2 * Half * (a + b),
                  7 * Half + 3 * (Magnitude(a) + Magnitude(b)))
<1> DEFINE n == a + t
           p == Double(n, 1)
<1>1. n \in Int /\ Magnitude(a) \in Nat /\ Magnitude(b) \in Nat
      /\ Magnitude(t) \in Nat /\ Magnitude(n) \in Nat
  BY MagnitudeFacts
<1>2. p \in Int /\ Close(2 * Half * p, 2 * Half * n, Half + Magnitude(n))
  <2> HIDE DEF n
  <2>1. 1 \in Nat \ {0}
    OBVIOUS
  <2>2. p \in Int /\ Close(2 * Half * (1 * p), 2 * Half * n, Half * 1 + Magnitude(n))
    BY <1>1, <2>1, DoubleFacts, RoundingClose
  <2>3. 1 * p = p /\ Half * 1 = Half
    BY <2>2, Parameters
  <2> QED
    BY <2>2, <2>3
<1>3. 2 * Magnitude(t) <= 3 * Magnitude(b) + 4
  <2>1. Close(2 * Half * Magnitude(t), 2 * Half * Magnitude(b),
              4 * Half + Magnitude(b))
    <3>1. 2 * Half \in Nat /\ 4 * Half + Magnitude(b) \in Int
      BY <1>1, Parameters
    <3> QED
      BY <3>1, SidesClose
  <2>2. Magnitude(b) * 1 <= Magnitude(b) * Half
    BY <1>1, Parameters, ProductGrows
  <2>3. Half * (2 * Magnitude(t)) <= Half * (3 * Magnitude(b) + 4)
    <3>1. 2 * Half * Magnitude(t) <= 2 * Half * Magnitude(b) + 4 * Half + Magnitude(b)
      <4>1. 2 * Half * Magnitude(t) \in Int /\ 2 * Half * Magnitude(b) \in Int
        BY <1>1, Parameters
      <4> QED
        BY <1>1, <2>1, <4>1, Parameters DEF Close
    <3>2. /\ 2 * Half * Magnitude(t) = Half * (2 * Magnitude(t))
          /\ 2 * Half * Magnitude(b) = 2 * (Magnitude(b) * Half)
          /\ Half * (3 * Magnitude(b) + 4) = 3 * (Magnitude(b) * Half) + 4 * Half
          /\ Magnitude(b) * Half \in Nat /\ Half * (2 * Magnitude(t)) \in Nat
      BY <1>1, Parameters
    <3> QED
      BY <1>1, <2>2, <3>1, <3>2, Parameters
  <2>4. 2 * Magnitude(t) \in Int /\ 3 * Magnitude(b) + 4 \in Int
        /\ Half \in Nat \ {0}
    BY <1>1, Parameters
  <2> QED
    BY <2>3, <2>4, ProductShrinks
<1>4. Magnitude(n) <= Magnitude(a) + Magnitude(t)
  BY DEF Magnitude
<1>5. Close(2 * Half * n, 2 * Half * (a + b), 4 * Half + Magnitude(b))
  <2>1. 2 * Half * n = 2 * Half * a + 2 * Half * t
        /\ 2 * Half * (a + b) = 2 * Half * a + 2 * Half * b
        /\ 2 * Half * a \in Int /\ 2 * Half * t \in Int /\ 2 * Half * b \in Int
    BY Parameters
  <2> QED
    BY <1>1, <2>1, Parameters DEF Close
<1> HIDE DEF n, p
<1>6. Close(2 * Half * p, 2 * Half * (a + b),
            7 * Half + 3 * (Magnitude(a) + Magnitude(b)))
  <2>1. (Half + Magnitude(n)) + (4 * Half + Magnitude(b))
           <= 7 * Half + 3 * (Magnitude(a) + Magnitude(b))
    BY <1>1, <1>3, <1>4, Parameters
  <2>2. /\ 2 * Half * p \in Int /\ 2 * Half * n \in Int /\ 2 * Half * (a + b) \in Int
        /\ Half + Magnitude(n) \in Int /\ 4 * Half + Magnitude(b) \in Int
        /\ 7 * Half + 3 * (Magnitude(a) + Magnitude(b)) \in Int
    BY <1>1, <1>2, Parameters
  <2> QED
    BY <1>2, <1>5, <2>1, <2>2, CloseChain
<1> QED
  BY <1>2, <1>6 DEF n, p, Sum

LEMMA SpeedClose ==
  ASSUME NEW a \in Int, NEW b \in Int, NEW f \in Nat, Magnitude(b) <= f,
         Close(2 * Half * a, 2 * Half * b, 7 * Half + 3 * f)
  PROVE  /\ Product(a, RpmPerMps) \in Int
         /\ Close(2 * Half * (One * Product(a, RpmPerMps)),
                  2 * Half * (RpmPerMps * b),
                  Half * (One + 11 * RpmPerMps) + 6 * (f * RpmPerMps))
<1> DEFINE n == a * RpmPerMps
           p == Double(n, One)
           m == Magnitude(a) * RpmPerMps
<1>1. n \in Int /\ One \in Nat \ {0} /\ Magnitude(a) \in Nat /\ Magnitude(b) \in Nat
  BY Parameters, MagnitudeFacts
<1>2. Magnitude(n) = m
  BY MagnitudeTimes, Parameters
<1>3. p \in Int /\ Close(2 * Half * (One * p), 2 * Half * n, Half * One + m)
  <2> HIDE DEF n, m
  <2> QED
    BY <1>1, <1>2, DoubleFacts, RoundingClose
<1>4. 2 * Magnitude(a) <= 5 * f + 7
  <2>1. Close(2 * Half * Magnitude(a), 2 * Half * Magnitude(b), 7 * Half + 3 * f)
    <3>1. 2 * Half \in Nat /\ 7 * Half + 3 * f \in Int
      BY Parameters
    <3> QED
      BY <3>1, SidesClose
  <2>2. Half * (2 * Magnitude(b)) <= Half * (2 * f)
    BY <1>1, Parameters, ProductGrows
  <2>3. f * 1 <= f * Half
    BY Parameters, ProductGrows
  <2>4. Half * (2 * Magnitude(a)) <= Half * (5 * f + 7)
    <3> DEFINE x == Half * (2 * Magnitude(a))
               y == Half * (2 * Magnitude(b))
               z == f * Half
    <3>1. x - y <= 7 * Half + 3 * f
      BY <1>1, <2>1, Parameters DEF Close
    <3>2. y <= 2 * z
      BY <2>2, Parameters
    <3>3. x \in Int /\ y \in Int /\ z \in Int /\ f <= z
      BY <1>1, <2>3, Parameters
    <3>4. Half * (5 * f + 7) = 5 * z + 7 * Half
      BY Parameters
    <3> HIDE DEF x, y, z
    <3>5. x <= 5 * z + 7 * Half
      BY <3>1, <3>2, <3>3, Parameters
    <3> QED
      BY <3>4, <3>5 DEF x
  <2>5. Half \in Nat \ {0} /\ 2 * Magnitude(a) \in Int /\ 5 * f + 7 \in Int
    BY <1>1, Parameters
  <2> QED
    BY <2>4, <2>5, ProductShrinks
<1>5. Close(2 * Half * n, 2 * Half * (RpmPerMps * b),
            RpmPerMps * (7 * Half + 3 * f))
  <2>1. 2 * Half * a \in Int /\ 2 * Half * b \in Int /\ 7 * Half + 3 * f \in Int
        /\ RpmPerMps \in Nat
    BY Parameters
  <2>2. Close(RpmPerMps * (2 * Half * a), RpmPerMps * (2 * Half * b),
              RpmPerMps * (7 * Half + 3 * f))
    <3> DEFINE x == 2 * Half * a
               y == 2 * Half * b
               e == 7 * Half + 3 * f
    <3>1. Close(x, y, e) /\ x \in Int /\ y \in Int /\ e \in Int
      BY <2>1
    <3> HIDE DEF x, y, e
    <3>2. Close(RpmPerMps * x, RpmPerMps * y, RpmPerMps * e)
      BY <2>1, <3>1, CloseTimes
    <3> QED
      BY <3>2 DEF x, y, e
  <2>3. RpmPerMps * (2 * Half * a) = 2 * Half * n
        /\ RpmPerMps * (2 * Half * b) = 2 * Half * (RpmPerMps * b)
    BY Parameters
  <2> QED
    BY <2>2, <2>3
<1>6. (Half * One + m) + RpmPerMps * (7 * Half + 3 * f)
        <= Half * (One + 11 * RpmPerMps) + 6 * (f * RpmPerMps)
  <2> DEFINE hu == Half * One
             hk == Half * RpmPerMps
             fk == f * RpmPerMps
  <2>1. RpmPerMps * (2 * Magnitude(a)) <= RpmPerMps * (5 * f + 7)
    <3>1. 2 * Magnitude(a) \in Int /\ 5 * f + 7 \in Int
      BY <1>1
    <3> QED
      BY <1>4, <3>1, Parameters, ProductGrows
  <2>2. 2 * m <= 5 * fk + 7 * RpmPerMps
    BY <1>1, <2>1, Parameters
  <2>3. RpmPerMps <= hk
    <3>1. RpmPerMps * 1 <= RpmPerMps * Half
      BY Parameters, ProductGrows
    <3> QED
      BY <3>1, Parameters
  <2>4. /\ RpmPerMps * (7 * Half + 3 * f) = 7 * hk + 3 * fk
        /\ Half * (One + 11 * RpmPerMps) = hu + 11 * hk
        /\ hu \in Nat /\ hk \in Nat /\ fk \in Nat /\ m \in Nat
    BY <1>1, Parameters
  <2>5. (hu + m) + (7 * hk + 3 * fk) <= (hu + 11 * hk) + 6 * fk
    <3> HIDE DEF hu, hk, fk, m
    <3> QED
      BY <2>2, <2>3, <2>4, Parameters
  <2> QED
    BY <2>4, <2>5
<1>7. Close(2 * Half * (One * p), 2 * Half * (RpmPerMps * b),
            Half * (One + 11 * RpmPerMps) + 6 * (f * RpmPerMps))
  <2>1. /\ 2 * Half * (One * p) \in Int /\ 2 * Half * n \in Int
        /\ 2 * Half * (RpmPerMps * b) \in Int /\ Half * One + m \in Int
        /\ RpmPerMps * (7 * Half + 3 * f) \in Int
        /\ Half * (One + 11 * RpmPerMps) + 6 * (f * RpmPerMps) \in Int
    BY <1>1, <1>3, Parameters
  <2> HIDE DEF n, p, m
  <2> QED
    BY <1>3, <1>5, <1>6, <2>1, CloseChain
<1> QED
  BY <1>3, <1>7 DEF Product

(* The speed of each wheel before the limit is what the twist asks for. *)
LEMMA WheelsClose ==
  ASSUME NEW linear \in Int, NEW angular \in Int
  PROVE  LET w == WheelRpm(linear, angular)
             e == Half * (One + 11 * RpmPerMps)
                    + 6 * (Fastest(linear, angular) * RpmPerMps)
         IN  /\ Close(2 * Half * (One * w.left),
                      2 * Half * (RpmPerMps * (linear - Turn(angular))), e)
             /\ Close(2 * Half * (One * w.right),
                      2 * Half * (RpmPerMps * (linear + Turn(angular))), e)
<1> DEFINE t == Product(angular, HalfSeparation)
           q == Turn(angular)
           f == Fastest(linear, angular)
           e == Half * (One + 11 * RpmPerMps) + 6 * (f * RpmPerMps)
<1>1. t \in Int /\ q \in Int
      /\ Close(2 * Half * t, 2 * Half * q, 4 * Half + Magnitude(q))
  <2>1. HalfSeparation \in Int
    BY Parameters
  <2>2. t \in Int
    BY <2>1, OperationTypes
  <2> QED
    BY <2>2, TurnClose
<1>2. f = Magnitude(linear) + Magnitude(q) /\ f \in Nat
      /\ Magnitude(linear - q) <= f /\ Magnitude(linear + q) <= f
  <2>1. linear - q \in Int /\ linear + q \in Int
    BY <1>1
  <2> QED
    BY <1>1, <2>1, FastestFacts, LargestFacts DEF Fastest
<1>3. WheelRpm(linear, angular)
        = [left  |-> Product(Sum(linear, -t), RpmPerMps),
           right |-> Product(Sum(linear, t), RpmPerMps)]
  BY DEF WheelRpm
<1> HIDE DEF t, q, f
<1>4. Close(2 * Half * (-t), 2 * Half * (-q), 4 * Half + Magnitude(-q))
      /\ Magnitude(-q) = Magnitude(q)
  <2>1. 2 * Half * (-t) = -(2 * Half * t) /\ 2 * Half * (-q) = -(2 * Half * q)
        /\ 2 * Half * t \in Int /\ 2 * Half * q \in Int
    BY <1>1, Parameters
  <2>2. Magnitude(-q) = Magnitude(q)
    BY <1>1, MagnitudeFacts
  <2>3. Close(2 * Half * (-t), 2 * Half * (-q), 4 * Half + Magnitude(q))
    <3> DEFINE x == 2 * Half * t
               y == 2 * Half * q
               d == 4 * Half + Magnitude(q)
    <3>1. x \in Int /\ y \in Int /\ d \in Int /\ Close(x, y, d)
      BY <1>1, <2>1, MagnitudeFacts, Parameters
    <3> HIDE DEF x, y, d
    <3>2. Close(-x, -y, d)
      BY <3>1 DEF Close
    <3> QED
      BY <2>1, <3>2 DEF x, y, d
  <2> QED
    BY <2>2, <2>3
<1>5. /\ Sum(linear, t) \in Int
      /\ Close(2 * Half * Sum(linear, t), 2 * Half * (linear + q), 7 * Half + 3 * f)
  BY <1>1, <1>2, SumClose
<1>6. /\ Sum(linear, -t) \in Int
      /\ Close(2 * Half * Sum(linear, -t), 2 * Half * (linear - q), 7 * Half + 3 * f)
  <2>1. -t \in Int /\ -q \in Int /\ linear + (-q) = linear - q
    BY <1>1
  <2>2. /\ Sum(linear, -t) \in Int
        /\ Close(2 * Half * Sum(linear, -t), 2 * Half * (linear + (-q)),
                 7 * Half + 3 * (Magnitude(linear) + Magnitude(-q)))
    BY <1>4, <2>1, SumClose
  <2> QED
    BY <1>2, <1>4, <2>1, <2>2
<1>7. linear - q \in Int /\ linear + q \in Int
  BY <1>1
<1>8. Close(2 * Half * (One * Product(Sum(linear, t), RpmPerMps)),
            2 * Half * (RpmPerMps * (linear + q)), e)
  BY <1>2, <1>5, <1>7, SpeedClose
<1>9. Close(2 * Half * (One * Product(Sum(linear, -t), RpmPerMps)),
            2 * Half * (RpmPerMps * (linear - q)), e)
  BY <1>2, <1>6, <1>7, SpeedClose
<1> QED
  BY <1>3, <1>8, <1>9 DEF q, f

LEMMA LargestClose ==
  ASSUME NEW w \in Speeds, NEW a \in Int, NEW b \in Int, NEW k \in Nat, NEW e \in Int,
         Close(2 * Half * (One * w.left), 2 * Half * (k * a), e),
         Close(2 * Half * (One * w.right), 2 * Half * (k * b), e)
  PROVE  Close(2 * Half * (One * Largest(w)),
               2 * Half * (k * Greatest(Magnitude(a), Magnitude(b))), e)
<1> DEFINE h == 2 * Half
<1>1. h \in Nat /\ One \in Nat /\ w.left \in Int /\ w.right \in Int
      /\ One * w.left \in Int /\ One * w.right \in Int /\ k * a \in Int /\ k * b \in Int
  BY Parameters DEF Speeds
<1> HIDE DEF h
<1>2. /\ Close(h * Magnitude(One * w.left), h * Magnitude(k * a), e)
      /\ Close(h * Magnitude(One * w.right), h * Magnitude(k * b), e)
  BY <1>1, SidesClose DEF h
<1>3. /\ Magnitude(One * w.left) = One * Magnitude(w.left)
      /\ Magnitude(One * w.right) = One * Magnitude(w.right)
      /\ Magnitude(k * a) = k * Magnitude(a)
      /\ Magnitude(k * b) = k * Magnitude(b)
  BY <1>1, MagnitudeTimes
<1> DEFINE x == One * Magnitude(w.left)
           y == One * Magnitude(w.right)
           c == k * Magnitude(a)
           d == k * Magnitude(b)
<1>4. x \in Int /\ y \in Int /\ c \in Int /\ d \in Int
      /\ Greatest(x, y) = One * Largest(w)
      /\ Greatest(c, d) = k * Greatest(Magnitude(a), Magnitude(b))
  <2>1. Magnitude(w.left) \in Int /\ Magnitude(w.right) \in Int
        /\ Magnitude(a) \in Int /\ Magnitude(b) \in Int
    BY <1>1, MagnitudeFacts
  <2>2. Greatest(x, y) = One * Greatest(Magnitude(w.left), Magnitude(w.right))
    BY <1>1, <2>1, MagnitudeTimes
  <2>3. Greatest(c, d) = k * Greatest(Magnitude(a), Magnitude(b))
    BY <2>1, MagnitudeTimes
  <2>4. x \in Int /\ y \in Int /\ c \in Int /\ d \in Int
    BY <1>1, <2>1
  <2> HIDE DEF x, y, c, d
  <2> QED
    BY <2>2, <2>3, <2>4 DEF Largest
<1>5. Close(h * x, h * c, e) /\ Close(h * y, h * d, e)
  BY <1>2, <1>3
<1> HIDE DEF x, y, c, d
<1>6. Close(Greatest(h * x, h * y), Greatest(h * c, h * d), e)
  <2>1. h * x \in Int /\ h * y \in Int /\ h * c \in Int /\ h * d \in Int
    BY <1>1, <1>4
  <2> QED
    BY <1>5, <2>1, CloseGreatest
<1>7. Greatest(h * x, h * y) = h * Greatest(x, y)
      /\ Greatest(h * c, h * d) = h * Greatest(c, d)
  <2>1. h \in Nat /\ x \in Int /\ y \in Int /\ c \in Int /\ d \in Int
    BY <1>1, <1>4
  <2>2. Greatest(h * x, h * y) = h * Greatest(x, y)
    BY <2>1, MagnitudeTimes
  <2>3. Greatest(h * c, h * d) = h * Greatest(c, d)
    BY <2>1, MagnitudeTimes
  <2> QED
    BY <2>2, <2>3
<1>8. Close(h * (One * Largest(w)), h * (k * Greatest(Magnitude(a), Magnitude(b))), e)
  BY <1>4, <1>6, <1>7
<1> QED
  BY <1>8 DEF h

(* The error of the wheel speeds, by the larger of them. *)
Deviation(w) == 2 * Half * (One + 11 * RpmPerMps) + 12 * (One * Largest(w))

LEMMA CloseWider ==
  ASSUME NEW a \in Int, NEW b \in Int, NEW e \in Int, NEW f \in Int,
         Close(a, b, e), e <= f
  PROVE  Close(a, b, f)
BY DEF Close

LEMMA Deviations ==
  ASSUME 64 <= Half, NEW linear \in Int, NEW angular \in Int
  PROVE  LET w == WheelRpm(linear, angular)
         IN  /\ Close(2 * Half * (One * w.left),
                      2 * Half * (RpmPerMps * (linear - Turn(angular))),
                      Deviation(w))
             /\ Close(2 * Half * (One * w.right),
                      2 * Half * (RpmPerMps * (linear + Turn(angular))),
                      Deviation(w))
             /\ Close(2 * Half * (One * Largest(w)),
                      2 * Half * (RpmPerMps * Fastest(linear, angular)),
                      Deviation(w))
<1> DEFINE w == WheelRpm(linear, angular)
           f == Fastest(linear, angular)
           a == linear - Turn(angular)
           b == linear + Turn(angular)
           e == Half * (One + 11 * RpmPerMps) + 6 * (f * RpmPerMps)
<1>1. w \in Speeds /\ a \in Int /\ b \in Int /\ f = Greatest(Magnitude(a), Magnitude(b))
  <2>1. Turn(angular) \in Int
    BY TurnClose
  <2> QED
    BY <2>1, WheelRpmType DEF Fastest
<1>2. f \in Nat /\ Largest(w) \in Nat
  BY <1>1, LargestFacts DEF Largest, Speeds
<1>3. /\ Close(2 * Half * (One * w.left), 2 * Half * (RpmPerMps * a), e)
      /\ Close(2 * Half * (One * w.right), 2 * Half * (RpmPerMps * b), e)
  BY WheelsClose
<1> HIDE DEF w, f, a, b
<1>4. Close(2 * Half * (One * Largest(w)), 2 * Half * (RpmPerMps * f), e)
  <2>1. e \in Int /\ RpmPerMps \in Nat
    BY <1>2, Parameters
  <2> HIDE DEF e
  <2> QED
    BY <1>1, <1>3, <2>1, LargestClose
<1>5. e <= Deviation(w) /\ e \in Int /\ Deviation(w) \in Int
  <2> DEFINE c == One + 11 * RpmPerMps
             x == One * Largest(w)
             g == RpmPerMps * f
             hc == Half * c
             hx == Half * x
             hg == Half * g
  <2>1. /\ c \in Nat /\ x \in Nat /\ g \in Nat
        /\ g = f * RpmPerMps
    BY <1>2, Parameters
  <2>2. Close(2 * Half * x, 2 * Half * g, hc + 6 * g)
    BY <1>4, <2>1
  <2>3. e = hc + 6 * g /\ Deviation(w) = 2 * hc + 12 * x
    <3>1. 2 * Half * c = 2 * (Half * c)
      BY <2>1, Parameters
    <3> QED
      BY <2>1, <3>1 DEF Deviation
  <2> HIDE DEF c, x, g
  <2>4. 2 * Half * x = 2 * hx /\ 2 * Half * g = 2 * hg
        /\ hc \in Nat /\ hx \in Nat /\ hg \in Nat
    BY <2>1, Parameters
  <2>5. 6 * g <= hg /\ 6 * c <= hc
    <3>1. g * 6 <= g * Half /\ c * 6 <= c * Half
      BY <2>1, Parameters, ProductGrows
    <3> QED
      BY <2>1, <3>1, Parameters
  <2>6. 2 * hg - 2 * hx <= hc + 6 * g
    BY <2>2, <2>4 DEF Close
  <2>7. Half * g <= Half * (2 * x + c)
    <3>1. Half * (2 * x + c) = 2 * hx + hc
      BY <2>1, Parameters
    <3> HIDE DEF hc, hx, hg
    <3>2. hg <= 2 * hx + hc
      BY <2>1, <2>4, <2>5, <2>6
    <3> QED
      BY <3>1, <3>2 DEF hg
  <2>8. g <= 2 * x + c
    <3>1. Half \in Nat \ {0} /\ 2 * x + c \in Int /\ g \in Int
      BY <2>1, Parameters
    <3> QED
      BY <2>7, <3>1, ProductShrinks
  <2> HIDE DEF e, hc
  <2> QED
    BY <2>1, <2>3, <2>4, <2>5, <2>8
<1>6. /\ Close(2 * Half * (One * w.left), 2 * Half * (RpmPerMps * a), Deviation(w))
      /\ Close(2 * Half * (One * w.right), 2 * Half * (RpmPerMps * b), Deviation(w))
      /\ Close(2 * Half * (One * Largest(w)), 2 * Half * (RpmPerMps * f), Deviation(w))
  <2>1. /\ 2 * Half * (One * w.left) \in Int /\ 2 * Half * (RpmPerMps * a) \in Int
        /\ 2 * Half * (One * w.right) \in Int /\ 2 * Half * (RpmPerMps * b) \in Int
        /\ 2 * Half * (One * Largest(w)) \in Int /\ 2 * Half * (RpmPerMps * f) \in Int
    BY <1>1, <1>2, Parameters DEF Speeds
  <2> HIDE DEF e
  <2> QED
    BY <1>3, <1>4, <1>5, <2>1, CloseWider
<1> QED
  BY <1>6 DEF w, f, a, b

(* What both speeds are multiplied by, in units of One. *)
Applied(w) == IF Largest(w) > Limit * One THEN Scale(w) ELSE One

LEMMA AppliedFacts ==
  ASSUME NEW w \in Speeds, 2 * Largest(w) <= One * One, 2 * Limit <= Half
  PROVE  /\ Applied(w) \in Nat /\ Largest(w) \in Nat
         /\ Applied(w) <= 2 * One
         /\ Largest(w) * Applied(w) <= 2 * (Limit * (One * One))
<1> DEFINE l == Largest(w)
           s == Applied(w)
           u == One * One
<1>1. l \in Nat /\ u \in Nat /\ One \in Nat /\ Limit \in Nat /\ Limit > 0
  BY LargestFacts, Parameters DEF Largest, Speeds
<1>2. Limit * u >= u /\ Limit * u \in Nat
  <2>1. u * 1 <= u * Limit
    BY <1>1, ProductGrows
  <2> QED
    BY <1>1, <2>1
<1>3. CASE l > Limit * One
  <2>1. s = Scale(w) /\ s \in Nat /\ 4 * (l * s) <= 4 * (Limit * u) + u
    BY <1>3, ScaleType, ScaleBound DEF Applied
  <2> HIDE DEF s
  <2>2. l * s <= 2 * (Limit * u)
    BY <1>1, <1>2, <2>1
  <2>3. s <= 2 * One
    <3> SUFFICES ASSUME s > 2 * One PROVE FALSE
      BY <1>1, <2>1
    <3>1. (Limit * One) * (2 * One) <= (Limit * One) * s
      <4>1. Limit * One \in Nat /\ 2 * One \in Int /\ s \in Int /\ 2 * One <= s
        BY <1>1, <2>1
      <4> QED
        BY <4>1, ProductGrows
    <3>2. s * (Limit * One) <= s * l
      <4>1. Limit * One \in Int /\ l \in Int /\ Limit * One <= l
        BY <1>1, <1>3
      <4> HIDE DEF l
      <4> QED
        BY <2>1, <4>1, ProductGrows
    <3>3. 2 * (Limit * u) <= l * s
      <4>1. (Limit * One) * (2 * One) = 2 * (Limit * u)
        BY <1>1
      <4>2. (Limit * One) * s = s * (Limit * One) /\ s * l = l * s
        BY <1>1, <2>1
      <4>3. s * l \in Int /\ s * (Limit * One) \in Int
        BY <1>1, <2>1
      <4> QED
        BY <1>2, <3>1, <3>2, <4>1, <4>2, <4>3
    <3>4. u > 0
      BY Parameters
    <3>5. l * s \in Int
      BY <1>1, <2>1
    <3> HIDE DEF l, u
    <3> QED
      BY <1>1, <1>2, <2>1, <3>3, <3>4, <3>5
  <2> QED
    BY <1>1, <2>1, <2>2, <2>3 DEF s
<1>4. CASE ~(l > Limit * One)
  <2>1. s = One /\ l <= Limit * One
    BY <1>1, <1>4 DEF Applied
  <2>2. One * l <= One * (Limit * One)
    BY <1>1, <2>1, ProductGrows
  <2>3. One * l = l * One /\ One * (Limit * One) = Limit * u
    BY <1>1
  <2> HIDE DEF l, s
  <2>4. l * s <= 2 * (Limit * u)
    <3>1. l * s <= Limit * u
      BY <2>1, <2>2, <2>3
    <3>2. l * s \in Int
      BY <1>1, <2>1
    <3> QED
      BY <1>2, <3>1, <3>2
  <2> QED
    BY <1>1, <2>1, <2>4 DEF l, s
<1> QED
  BY <1>3, <1>4

(* Both speeds are limited by the same factor. *)
LEMMA LimitClose ==
  ASSUME NEW w \in Speeds, 2 * Largest(w) <= One * One, 2 * Limit <= Half
  PROVE  LET e == Half * One + 2 * (Limit * (One * One))
         IN  /\ Close(2 * Half * (One * Limited(w).left),
                      2 * Half * (w.left * Applied(w)), e)
             /\ Close(2 * Half * (One * Limited(w).right),
                      2 * Half * (w.right * Applied(w)), e)
<1> DEFINE s == Applied(w)
           e == Half * One + 2 * (Limit * (One * One))
<1>1. s \in Nat /\ Largest(w) \in Nat /\ e \in Nat
      /\ Largest(w) * s <= 2 * (Limit * (One * One))
  BY AppliedFacts, Parameters
<1>2. ASSUME NEW a \in Int, Magnitude(a) <= Largest(w)
      PROVE  /\ Close(2 * Half * (One * Product(a, s)), 2 * Half * (a * s), e)
             /\ Close(2 * Half * (One * a), 2 * Half * (a * One), e)
  <2> DEFINE n == a * s
             p == Double(n, One)
             k == 2 * (Limit * (One * One))
  <2>1. n \in Int /\ One \in Nat \ {0} /\ Magnitude(a) \in Nat /\ k \in Nat
    BY <1>1, MagnitudeFacts, Parameters
  <2>2. Magnitude(n) = Magnitude(a) * s
    BY <1>1, MagnitudeTimes
  <2>3. Magnitude(a) * s <= Largest(w) * s
    <3>1. s * Magnitude(a) <= s * Largest(w)
      BY <1>1, <1>2, <2>1, ProductGrows
    <3>2. s * Magnitude(a) = Magnitude(a) * s /\ s * Largest(w) = Largest(w) * s
      BY <1>1, <2>1
    <3> QED
      BY <3>1, <3>2
  <2>4. Magnitude(n) <= k /\ Magnitude(n) \in Nat
    <3>1. Magnitude(a) * s \in Int /\ Largest(w) * s \in Int
      BY <1>1, <2>1
    <3> QED
      BY <1>1, <2>1, <2>2, <2>3, <3>1, MagnitudeFacts
  <2> HIDE DEF n, k
  <2>5. p \in Int
        /\ Close(2 * Half * (One * p), 2 * Half * n, Half * One + Magnitude(n))
    BY <2>1, DoubleFacts, RoundingClose
  <2> HIDE DEF p
  <2>6. Close(2 * Half * (One * p), 2 * Half * n, Half * One + k)
    <3>1. /\ 2 * Half * (One * p) \in Int /\ 2 * Half * n \in Int
          /\ Half * One + Magnitude(n) \in Int /\ Half * One + k \in Int
          /\ Half * One + Magnitude(n) <= Half * One + k
      BY <2>1, <2>4, <2>5, Parameters
    <3> QED
      BY <2>5, <3>1, CloseWider
  <2>7. Close(2 * Half * (One * a), 2 * Half * (a * One), e)
    <3>1. One * a = a * One /\ 2 * Half * (a * One) \in Int
      BY <2>1, Parameters
    <3> HIDE DEF e
    <3> QED
      BY <1>1, <3>1 DEF Close
  <2> QED
    BY <2>6, <2>7 DEF p, n, k, Product
<1>3. w.left \in Int /\ w.right \in Int
      /\ Magnitude(w.left) <= Largest(w) /\ Magnitude(w.right) <= Largest(w)
  BY LargestFacts DEF Largest, Speeds
<1>4. CASE Largest(w) > Limit * One
  <2>1. s = Scale(w) /\ Limited(w) = [left  |-> Product(w.left, s),
                                      right |-> Product(w.right, s)]
    BY <1>4, LimitedCases DEF Applied
  <2> HIDE DEF s, e
  <2>2. /\ Close(2 * Half * (One * Limited(w).left), 2 * Half * (w.left * s), e)
        /\ Close(2 * Half * (One * Limited(w).right), 2 * Half * (w.right * s), e)
    BY <1>2, <1>3, <2>1
  <2> QED
    BY <2>2 DEF s, e
<1>5. CASE ~(Largest(w) > Limit * One)
  <2>1. s = One /\ Limited(w) = w
    BY <1>5, LimitedCases DEF Applied
  <2> HIDE DEF s, e
  <2>2. /\ Close(2 * Half * (One * Limited(w).left), 2 * Half * (w.left * s), e)
        /\ Close(2 * Half * (One * Limited(w).right), 2 * Half * (w.right * s), e)
    BY <1>2, <1>3, <2>1
  <2> QED
    BY <2>2 DEF s, e
<1> QED
  BY <1>4, <1>5

(* A speed is encoded to the nearest unit. *)
LEMMA EncodeClose ==
  ASSUME NEW m \in Int
  PROVE  /\ encode_speed_units(m) \in Int
         /\ Close(2 * Half * (One * encode_speed_units(m)),
                  2 * Half * (UnitsPerRpm * m),
                  Half * One + Half + UnitsPerRpm * Magnitude(m))
<1> DEFINE n == m * UnitsPerRpm
           u == Double(n, 1)
           b == 2 * Magnitude(u) + One
           k == b \div (2 * One)
           v == WithSign(u, k)
<1>1. n \in Int /\ UnitsPerRpm \in Nat /\ n = UnitsPerRpm * m
  BY Parameters
<1>2. Magnitude(n) = UnitsPerRpm * Magnitude(m) /\ Magnitude(n) \in Nat
  BY <1>1, MagnitudeTimes, MagnitudeFacts
<1> HIDE DEF n
<1>3. u \in Int /\ Close(2 * Half * u, 2 * Half * n, Half + Magnitude(n))
  <2>1. 1 \in Nat \ {0}
    OBVIOUS
  <2>2. u \in Int /\ Close(2 * Half * (1 * u), 2 * Half * n, Half * 1 + Magnitude(n))
    BY <1>1, <2>1, DoubleFacts, RoundingClose
  <2>3. 1 * u = u /\ Half * 1 = Half
    BY <2>2, Parameters
  <2> QED
    BY <2>2, <2>3
<1> HIDE DEF u
<1>4. Magnitude(u) \in Nat /\ One \in Nat /\ One > 0
  BY <1>3, MagnitudeFacts, Parameters
<1>5. k \in Nat /\ 2 * (One * k) <= 2 * Magnitude(u) + One
      /\ 2 * Magnitude(u) <= 2 * (One * k) + One
  <2>1. b \in Nat /\ 2 * One \in Nat \ {0}
    BY <1>4
  <2>2. k \in Nat /\ b % (2 * One) \in Nat /\ b % (2 * One) < 2 * One
        /\ b = (2 * One) * k + (b % (2 * One))
    <3> HIDE DEF b
    <3> QED
      BY <2>1, Division
  <2> DEFINE r == b % (2 * One)
             j == One * k
  <2> HIDE DEF k
  <2>3. (2 * One) * k = 2 * j /\ j \in Nat
    BY <1>4, <2>2
  <2> HIDE DEF r, j
  <2>4. 2 * Magnitude(u) + One = 2 * j + r /\ r \in Nat /\ r < 2 * One
    BY <2>2, <2>3 DEF r
  <2>5. 2 * j <= 2 * Magnitude(u) + One /\ 2 * Magnitude(u) <= 2 * j + One
    BY <1>4, <2>3, <2>4
  <2> QED
    BY <2>2, <2>5 DEF j
<1> HIDE DEF k
<1>6. v \in Int /\ Close(2 * (One * v), 2 * u, One)
  <2>1. One * (-k) = -(One * k) /\ One * k \in Nat
    BY <1>4, <1>5
  <2>2. v = IF u >= 0 THEN k ELSE -k
    BY DEF WithSign
  <2> HIDE DEF v
  <2>3. CASE u >= 0
    BY <1>3, <1>4, <1>5, <2>1, <2>2, <2>3 DEF Close, Magnitude
  <2>4. CASE u < 0
    <3>1. v = -k /\ One * v = -(One * k) /\ Magnitude(u) = -u
      BY <1>3, <2>1, <2>2, <2>4 DEF Magnitude
    <3> QED
      BY <1>3, <1>4, <1>5, <2>1, <3>1 DEF Close
  <2> QED
    BY <1>3, <2>3, <2>4
<1> HIDE DEF v
<1>7. Close(2 * Half * (One * v), 2 * Half * u, Half * One)
  <2>1. 2 * (One * v) \in Int /\ 2 * u \in Int /\ One \in Int /\ Half \in Nat
    BY <1>3, <1>4, <1>6, Parameters
  <2>2. Close(Half * (2 * (One * v)), Half * (2 * u), Half * One)
    <3> DEFINE x == 2 * (One * v)
               y == 2 * u
    <3>1. x \in Int /\ y \in Int /\ Close(x, y, One)
      BY <1>6, <2>1
    <3> HIDE DEF x, y
    <3>2. Close(Half * x, Half * y, Half * One)
      BY <2>1, <3>1, CloseTimes
    <3> QED
      BY <3>2 DEF x, y
  <2>3. Half * (2 * (One * v)) = 2 * Half * (One * v)
        /\ Half * (2 * u) = 2 * Half * u
    BY <1>3, <1>4, <1>6, <2>1
  <2> QED
    BY <2>2, <2>3
<1>8. Close(2 * Half * (One * v), 2 * Half * n, Half * One + Half + Magnitude(n))
  <2> DEFINE x == 2 * Half * (One * v)
             y == 2 * Half * u
             z == 2 * Half * n
             e == Half * One
  <2>1. x \in Int /\ y \in Int /\ z \in Int /\ e \in Int /\ Half \in Int
    BY <1>1, <1>3, <1>4, <1>6, Parameters
  <2>2. Close(x, y, e) /\ Close(y, z, Half + Magnitude(n))
    BY <1>3, <1>7
  <2> HIDE DEF x, y, z, e
  <2>3. Close(x, z, e + Half + Magnitude(n))
    BY <1>2, <2>1, <2>2 DEF Close
  <2> QED
    BY <2>3 DEF x, z, e
<1>9. v = encode_speed_units(m)
  BY DEF encode_speed_units, v, k, u, n
<1> QED
  BY <1>1, <1>2, <1>6, <1>8, <1>9

-----------------------------------------------------------------------------
(* The sum of the roundings is less than a unit of speed if a double is    *)
(* precise enough for the speeds that are sent, and its unit small enough  *)
(* for the geometry and the twists. With 53 bits and a unit of 2^-1074, a  *)
(* speed of a few hundred rpm in tenths of an rpm is far within it.        *)
Precise ==
  /\ Tolerance >= 2
  /\ 64 * (Limit * UnitsPerRpm) <= Half
  /\ 64 * (Limit * UnitsPerRpm * UnitsPerRpm) <= One
  /\ 64 * (Limit * FeedbackUnitsPerRpm) <= Half
  /\ 64 * (Limit * FeedbackUnitsPerRpm * FeedbackUnitsPerRpm) <= One
  /\ 256 * (RpmPerMps * UnitsPerRpm) <= One * One
  /\ \A linear \in Linear \cup {0}, angular \in Angular \cup {0} :
       64 * (UnitsPerRpm * Largest(WheelRpm(linear, angular))) <= One * One

Square == One * One
Cube == One * (One * One)

LEMMA Powers ==
  /\ Square \in Nat /\ Square > 0 /\ Cube \in Nat /\ Cube > 0
  /\ Cube = One * Square /\ UnitsPerRpm \in Nat /\ UnitsPerRpm > 0
BY Parameters DEF Square, Cube

LEMMA PreciseFacts ==
  ASSUME Precise
  PROVE  /\ 64 <= Half /\ 64 * UnitsPerRpm <= One
         /\ UnitsPerRpm <= Limit * UnitsPerRpm
         /\ 64 * FeedbackUnitsPerRpm <= One
<1>1. 1 <= Limit * UnitsPerRpm
  BY Parameters
<1>2. UnitsPerRpm * 1 <= UnitsPerRpm * (Limit * UnitsPerRpm)
  BY <1>1, Parameters, ProductGrows
<1>3. UnitsPerRpm * (Limit * UnitsPerRpm) = Limit * UnitsPerRpm * UnitsPerRpm
      /\ Limit * UnitsPerRpm * UnitsPerRpm \in Nat /\ Limit * UnitsPerRpm \in Nat
  BY Parameters
<1>4. 64 <= Half
  BY <1>1, <1>3, Parameters DEF Precise
<1>5. 64 * UnitsPerRpm <= One
  BY <1>2, <1>3, Parameters DEF Precise
<1>6. UnitsPerRpm * 1 <= UnitsPerRpm * Limit
  BY Parameters, ProductGrows
<1> DEFINE g == FeedbackUnitsPerRpm
           h == g * Limit * g
<1>7. h \in Nat /\ 64 * h <= One /\ g * 1 <= g * (Limit * g)
      /\ g * (Limit * g) = h /\ g \in Nat
  <2>1. g * 1 <= g * (Limit * g)
    <3>1. 1 <= Limit * g /\ Limit * g \in Int /\ g \in Nat
      BY Parameters
    <3> QED
      BY <3>1, ProductGrows
  <2>2. h = Limit * g * g /\ g * (Limit * g) = h /\ h \in Nat /\ g \in Nat
    BY Parameters
  <2> QED
    BY <2>1, <2>2 DEF Precise
<1> HIDE DEF h
<1>8. 64 * g <= One
  BY <1>7, Parameters
<1> QED
  BY <1>4, <1>5, <1>6, <1>8, Parameters

(* The share of each source of error in Half * Cube. *)
LEMMA Shares ==
  ASSUME Precise
  PROVE  /\ Half * Cube \in Nat
         /\ 64 * (UnitsPerRpm * (Half * Square)) <= Half * Cube
         /\ 64 * (UnitsPerRpm * (Limit * Cube)) <= Half * Cube
         /\ 256 * (UnitsPerRpm * (Half * (RpmPerMps * One))) <= Half * Cube
<1>1. (Half * Square) * (64 * UnitsPerRpm) <= (Half * Square) * One
  <2>1. Half * Square \in Nat /\ 64 * UnitsPerRpm \in Int /\ One \in Int
    BY Parameters, Powers
  <2> QED
    BY <2>1, PreciseFacts, ProductGrows
<1>2. Cube * (64 * (Limit * UnitsPerRpm)) <= Cube * Half
  <2>1. Cube \in Nat /\ 64 * (Limit * UnitsPerRpm) \in Int /\ Half \in Int
    BY Parameters, Powers
  <2> QED
    BY <2>1, ProductGrows DEF Precise
<1>3. (Half * One) * (256 * (RpmPerMps * UnitsPerRpm)) <= (Half * One) * Square
  <2>1. Half * One \in Nat /\ 256 * (RpmPerMps * UnitsPerRpm) \in Int
        /\ Square \in Int
    BY Parameters, Powers
  <2>2. 256 * (RpmPerMps * UnitsPerRpm) <= Square
    BY DEF Precise, Square
  <2> QED
    BY <2>1, <2>2, ProductGrows
<1>4. (Half * Square) * (64 * UnitsPerRpm) = 64 * (UnitsPerRpm * (Half * Square))
      /\ (Half * Square) * One = Half * Cube
  BY Parameters, Powers
<1>5. Cube * (64 * (Limit * UnitsPerRpm)) = 64 * (UnitsPerRpm * (Limit * Cube))
      /\ Cube * Half = Half * Cube
  BY Parameters, Powers
<1>6. (Half * One) * (256 * (RpmPerMps * UnitsPerRpm))
        = 256 * (UnitsPerRpm * (Half * (RpmPerMps * One)))
      /\ (Half * One) * Square = Half * Cube
  BY Parameters, Powers
<1>7. Half * Cube \in Nat
  BY Parameters, Powers
<1> QED
  BY <1>1, <1>2, <1>3, <1>4, <1>5, <1>6, <1>7

LEMMA DeviationShare ==
  ASSUME Precise, NEW w \in Speeds, NEW s \in Nat, s <= 2 * One,
         Largest(w) \in Nat, Largest(w) * s <= 2 * (Limit * Square)
  PROVE  /\ 64 * (UnitsPerRpm * (s * Deviation(w))) <= 39 * (Half * Cube)
         /\ UnitsPerRpm * (s * Deviation(w)) \in Nat
<1> DEFINE l == Largest(w)
           c == Half * Cube
           a == UnitsPerRpm * (Half * Square)
           b == UnitsPerRpm * (Limit * Cube)
           d == UnitsPerRpm * (Half * (RpmPerMps * One))
           x == UnitsPerRpm * (Half * (s * One))
           y == UnitsPerRpm * (Half * (s * RpmPerMps))
           z == UnitsPerRpm * (One * (l * s))
<1>1. /\ c \in Nat /\ 64 * a <= c /\ 64 * b <= c /\ 256 * d <= c
  BY Shares
<1>2. a \in Nat /\ b \in Nat /\ d \in Nat /\ x \in Nat /\ y \in Nat /\ z \in Nat
  BY Parameters, Powers
<1>3. UnitsPerRpm * (s * Deviation(w)) = 2 * x + 22 * y + 12 * z
  <2>1. Deviation(w) = 2 * (Half * One) + 22 * (Half * RpmPerMps) + 12 * (One * l)
    BY Parameters DEF Deviation
  <2>2. s * Deviation(w)
          = 2 * (Half * (s * One)) + 22 * (Half * (s * RpmPerMps)) + 12 * (One * (l * s))
    BY <2>1, Parameters
  <2> QED
    BY <2>2, Parameters
<1>4. x <= 2 * a
  <2>1. (UnitsPerRpm * (Half * One)) * s <= (UnitsPerRpm * (Half * One)) * (2 * One)
    <3>1. UnitsPerRpm * (Half * One) \in Nat /\ 2 * One \in Int
      BY Parameters
    <3> QED
      BY <3>1, ProductGrows
  <2>2. (UnitsPerRpm * (Half * One)) * s = x
        /\ (UnitsPerRpm * (Half * One)) * (2 * One) = 2 * a
    BY Parameters DEF Square
  <2> QED
    BY <2>1, <2>2
<1>5. y <= 2 * d
  <2>1. (UnitsPerRpm * (Half * RpmPerMps)) * s
          <= (UnitsPerRpm * (Half * RpmPerMps)) * (2 * One)
    <3>1. UnitsPerRpm * (Half * RpmPerMps) \in Nat /\ 2 * One \in Int
      BY Parameters
    <3> QED
      BY <3>1, ProductGrows
  <2>2. (UnitsPerRpm * (Half * RpmPerMps)) * s = y
        /\ (UnitsPerRpm * (Half * RpmPerMps)) * (2 * One) = 2 * d
    BY Parameters
  <2> QED
    BY <2>1, <2>2
<1>6. z <= 2 * b
  <2>1. (UnitsPerRpm * One) * (l * s) <= (UnitsPerRpm * One) * (2 * (Limit * Square))
    <3>1. UnitsPerRpm * One \in Nat /\ l * s \in Int /\ 2 * (Limit * Square) \in Int
      BY Parameters, Powers
    <3> QED
      BY <3>1, ProductGrows
  <2>2. (UnitsPerRpm * One) * (l * s) = z
    BY Parameters
  <2>3. (UnitsPerRpm * One) * (2 * (Limit * Square)) = 2 * b
    BY Parameters, Powers
  <2> QED
    BY <2>1, <2>2, <2>3
<1> HIDE DEF a, b, c, d, x, y, z
<1>7. 64 * (2 * x + 22 * y + 12 * z) <= 39 * c /\ 2 * x + 22 * y + 12 * z \in Nat
  BY <1>1, <1>2, <1>4, <1>5, <1>6
<1> QED
  BY <1>3, <1>7 DEF c

(* What the twist asks of a wheel, after both were multiplied by s. *)
Ideal(s, b) == UnitsPerRpm * (s * (RpmPerMps * b))

(* A wheel is sent its share of the twist to less than a unit of speed. *)
LEMMA UnitsClose ==
  ASSUME Precise, NEW w \in Speeds, NEW s \in Nat, s <= 2 * One,
         Largest(w) \in Nat, Largest(w) * s <= 2 * (Limit * Square),
         NEW a \in Int, NEW b \in Int, NEW m \in Int, NEW v \in Int,
         Close(2 * Half * (One * a), 2 * Half * (RpmPerMps * b), Deviation(w)),
         Close(2 * Half * (One * m), 2 * Half * (a * s),
               Half * One + 2 * (Limit * Square)),
         Close(2 * Half * (One * v), 2 * Half * (UnitsPerRpm * m),
               Half * One + Half + UnitsPerRpm * Magnitude(m)),
         Magnitude(m) <= Limit * One + One
  PROVE  Close(8 * (Cube * v), 8 * Ideal(s, b), 7 * Cube)
<1> DEFINE A == 2 * Half * (Cube * v)
           B == 2 * Half * (Square * (UnitsPerRpm * m))
           C == 2 * Half * (UnitsPerRpm * (One * (a * s)))
           D == 2 * Half * Ideal(s, b)
           e1 == Square * (Half * One + Half + UnitsPerRpm * Magnitude(m))
           e2 == (UnitsPerRpm * One) * (Half * One + 2 * (Limit * Square))
           e3 == (UnitsPerRpm * s) * Deviation(w)
           c == Half * Cube
           h == UnitsPerRpm * (Half * Square)
           k == UnitsPerRpm * (Limit * Cube)
<1>1. A \in Int /\ B \in Int /\ C \in Int /\ D \in Int
      /\ Magnitude(m) \in Nat /\ Deviation(w) \in Int
  BY Parameters, Powers, MagnitudeFacts DEF Ideal, Deviation
<1>2. Close(A, B, e1)
  <2> DEFINE x == 2 * Half * (One * v)
             y == 2 * Half * (UnitsPerRpm * m)
             e == Half * One + Half + UnitsPerRpm * Magnitude(m)
  <2>1. x \in Int /\ y \in Int /\ e \in Int /\ Square \in Nat /\ Close(x, y, e)
    BY <1>1, Parameters, Powers
  <2>2. Square * x = A /\ Square * y = B
    BY Parameters, Powers
  <2> HIDE DEF x, y, e, A, B
  <2>3. Close(Square * x, Square * y, Square * e)
    BY <2>1, CloseTimes
  <2> QED
    BY <2>2, <2>3 DEF e
<1>3. Close(B, C, e2)
  <2> DEFINE x == 2 * Half * (One * m)
             y == 2 * Half * (a * s)
             e == Half * One + 2 * (Limit * Square)
             r == UnitsPerRpm * One
  <2>1. x \in Int /\ y \in Int /\ e \in Int /\ r \in Nat /\ Close(x, y, e)
    BY Parameters, Powers
  <2>2. r * x = B
    BY Parameters, Powers DEF Square
  <2>3. r * y = C
    BY Parameters, Powers
  <2> HIDE DEF x, y, e, r, B, C
  <2>4. Close(r * x, r * y, r * e)
    BY <2>1, CloseTimes
  <2> QED
    BY <2>2, <2>3, <2>4 DEF e, r
<1>4. Close(C, D, e3)
  <2> DEFINE x == 2 * Half * (One * a)
             y == 2 * Half * (RpmPerMps * b)
             e == Deviation(w)
             r == UnitsPerRpm * s
  <2>1. x \in Int /\ y \in Int /\ e \in Int /\ r \in Nat /\ Close(x, y, e)
    BY <1>1, Parameters, Powers
  <2>2. r * x = C
    BY Parameters, Powers
  <2>3. r * y = D
    BY Parameters, Powers DEF Ideal
  <2> HIDE DEF x, y, e, r, C, D
  <2>4. Close(r * x, r * y, r * e)
    BY <2>1, CloseTimes
  <2> QED
    BY <2>2, <2>3, <2>4 DEF e, r
<1>5. e1 \in Nat /\ e1 <= c + h + 2 * k
  <2>1. Square * (UnitsPerRpm * Magnitude(m)) <= 2 * k
    <3>1. (Square * UnitsPerRpm) * Magnitude(m)
            <= (Square * UnitsPerRpm) * (Limit * One + One)
      <4>1. Square * UnitsPerRpm \in Nat /\ Limit * One + One \in Int
        BY Parameters, Powers
      <4> QED
        BY <1>1, <4>1, ProductGrows
    <3>2. (Square * UnitsPerRpm) * (Limit * One + One) = k + UnitsPerRpm * Cube
      BY Parameters, Powers
    <3>3. UnitsPerRpm * Cube <= k
      <4>1. (UnitsPerRpm * Cube) * 1 <= (UnitsPerRpm * Cube) * Limit
        <5>1. UnitsPerRpm * Cube \in Nat
          BY Powers
        <5> QED
          BY <5>1, Parameters, ProductGrows
      <4> QED
        BY <4>1, Parameters, Powers
    <3>4. (Square * UnitsPerRpm) * Magnitude(m) = Square * (UnitsPerRpm * Magnitude(m))
          /\ Square * (UnitsPerRpm * Magnitude(m)) \in Nat /\ k \in Nat
          /\ UnitsPerRpm * Cube \in Nat
      BY <1>1, Parameters, Powers
    <3> HIDE DEF k
    <3> QED
      BY <3>1, <3>2, <3>3, <3>4
  <2>2. Half * Square <= h
    <3>1. (Half * Square) * 1 <= (Half * Square) * UnitsPerRpm
      <4>1. Half * Square \in Nat
        BY Parameters, Powers
      <4> QED
        BY <4>1, Powers, ProductGrows
    <3> QED
      BY <3>1, Parameters, Powers
  <2>3. e1 = c + Half * Square + Square * (UnitsPerRpm * Magnitude(m))
    BY <1>1, Parameters, Powers
  <2>4. c \in Nat /\ h \in Nat /\ k \in Nat /\ Half * Square \in Nat
        /\ Square * (UnitsPerRpm * Magnitude(m)) \in Nat
    BY <1>1, Parameters, Powers
  <2> HIDE DEF c, h, k, e1
  <2> QED
    BY <2>1, <2>2, <2>3, <2>4
<1>6. e2 \in Nat /\ e2 = h + 2 * k
  BY Parameters, Powers DEF Square, Cube
<1>7. e3 \in Nat /\ 64 * e3 <= 39 * c
  <2>1. e3 = UnitsPerRpm * (s * Deviation(w))
    BY <1>1, Parameters
  <2> QED
    BY <2>1, DeviationShare
<1>8. c \in Nat /\ 64 * h <= c /\ 64 * k <= c /\ h \in Nat /\ k \in Nat
  BY Shares, Parameters, Powers
<1> HIDE DEF e1, e2, e3, h, k, A, B, C, D
<1>9. Close(4 * A, 4 * D, 7 * c)
  <2> HIDE DEF c
  <2>1. 4 * (e1 + e2 + e3) <= 7 * c
    BY <1>5, <1>6, <1>7, <1>8
  <2>2. Close(A, D, e1 + e2 + e3)
    BY <1>1, <1>2, <1>3, <1>4, <1>5, <1>6, <1>7 DEF Close
  <2> QED
    BY <1>1, <1>5, <1>6, <1>7, <1>8, <2>1, <2>2 DEF Close
<1>10. 4 * A = Half * (8 * (Cube * v)) /\ 4 * D = Half * (8 * Ideal(s, b))
       /\ 7 * c = Half * (7 * Cube)
  <2>1. Ideal(s, b) \in Int
    BY Parameters DEF Ideal
  <2> QED
    BY <2>1, Parameters, Powers DEF A, D
<1>11. 8 * (Cube * v) \in Int /\ 8 * Ideal(s, b) \in Int /\ 7 * Cube \in Int
       /\ Half \in Nat \ {0}
  BY Parameters, Powers DEF Ideal
<1> QED
  <2> DEFINE x == 8 * (Cube * v)
             y == 8 * Ideal(s, b)
             e == 7 * Cube
  <2>1. Close(Half * x, Half * y, Half * e) /\ x \in Int /\ y \in Int /\ e \in Int
    BY <1>9, <1>10, <1>11
  <2> HIDE DEF x, y, e
  <2>2. Close(x, y, e)
    BY <1>11, <2>1, CloseDivided
  <2> QED
    BY <2>2 DEF x, y, e

LEMMA CloseSwap ==
  ASSUME NEW a, NEW b, NEW e, Close(a, b, e)
  PROVE  Close(b, a, e)
BY DEF Close

(* The error of the larger speed, when it is multiplied by s. *)
LEMMA LargestScaled ==
  ASSUME Precise, NEW w \in Speeds, NEW s \in Nat, s <= 2 * One,
         Largest(w) \in Nat, Largest(w) * s <= 2 * (Limit * Square),
         NEW f \in Nat,
         Close(2 * Half * (One * Largest(w)), 2 * Half * (RpmPerMps * f),
               Deviation(w))
  PROVE  \E e \in Nat :
           /\ 64 * e <= 39 * (Half * Cube)
           /\ Close(2 * Half * (UnitsPerRpm * (s * (One * Largest(w)))),
                    2 * Half * Ideal(s, f), e)
<1> DEFINE x == 2 * Half * (One * Largest(w))
           y == 2 * Half * (RpmPerMps * f)
           e == Deviation(w)
           r == UnitsPerRpm * s
<1>1. x \in Int /\ y \in Int /\ e \in Int /\ r \in Nat /\ Close(x, y, e)
  BY Parameters, Powers DEF Deviation
<1>2. r * x = 2 * Half * (UnitsPerRpm * (s * (One * Largest(w))))
  BY Parameters, Powers
<1>3. r * y = 2 * Half * Ideal(s, f)
  BY Parameters, Powers DEF Ideal
<1>4. r * e = UnitsPerRpm * (s * Deviation(w))
  BY <1>1, Parameters, Powers
<1>5. r * e \in Nat /\ 64 * (r * e) <= 39 * (Half * Cube)
  BY <1>4, DeviationShare
<1> HIDE DEF x, y, e, r
<1>6. Close(r * x, r * y, r * e)
  BY <1>1, CloseTimes
<1> QED
  BY <1>2, <1>3, <1>5, <1>6

(* A twist within the limit is not asked for much more than the limit. *)
LEMMA LargestWithin ==
  ASSUME Precise, NEW w \in Speeds, Largest(w) \in Nat,
         NEW f \in Nat, f * RpmPerMps <= Limit * Square,
         Close(2 * Half * (One * Largest(w)), 2 * Half * (RpmPerMps * f),
               Deviation(w))
  PROVE  Largest(w) * One <= 2 * (Limit * Square)
<1> DEFINE x == One * Largest(w)
           g == RpmPerMps * f
           c == One + 11 * RpmPerMps
           q == Limit * Square
<1>1. x \in Nat /\ g \in Nat /\ c \in Nat /\ q \in Nat /\ g <= q
      /\ x = Largest(w) * One
  BY Parameters, Powers
<1>2. 8 * c <= q
  <2>1. One * 64 <= One * One
    <3>1. 64 <= One /\ One \in Nat
      BY PreciseFacts, Parameters
    <3> QED
      BY <3>1, ProductGrows
  <2>2. 256 * RpmPerMps <= Square
    <3>1. (256 * RpmPerMps) * 1 <= (256 * RpmPerMps) * UnitsPerRpm
      <4>1. 256 * RpmPerMps \in Nat
        BY Parameters
      <4> QED
        BY <4>1, Powers, ProductGrows
    <3>2. (256 * RpmPerMps) * UnitsPerRpm = 256 * (RpmPerMps * UnitsPerRpm)
          /\ RpmPerMps * UnitsPerRpm \in Nat /\ Square = One * One
      BY Parameters DEF Square
    <3> QED
      BY <3>1, <3>2, Parameters, Powers DEF Precise
  <2>3. Square * 1 <= Square * Limit
    BY Parameters, Powers, ProductGrows
  <2>4. 64 * One <= Square /\ Square <= q
    BY <2>1, <2>3, Parameters, Powers DEF Square
  <2> HIDE DEF q
  <2> QED
    BY <1>1, <2>2, <2>4, Parameters, Powers
<1>3. Close(2 * Half * x, 2 * Half * g, 2 * Half * c + 12 * x)
  BY DEF Deviation
<1> HIDE DEF x, g, c, q
<1>4. 64 * x <= Half * x
  <2>1. x * 64 <= x * Half
    BY <1>1, PreciseFacts, Parameters, ProductGrows
  <2> QED
    BY <1>1, <2>1, Parameters
<1>5. Half * (3 * x) <= Half * (4 * g + 4 * c)
  <2> DEFINE hx == Half * x
             hg == Half * g
             hc == Half * c
  <2>1. hx \in Nat /\ hg \in Nat /\ hc \in Nat
    BY <1>1, Parameters
  <2>2. 2 * hx - 2 * hg <= 2 * hc + 12 * x
    <3>1. 2 * Half * x = 2 * hx /\ 2 * Half * g = 2 * hg /\ 2 * Half * c = 2 * hc
      BY <1>1, Parameters
    <3> HIDE DEF hx, hg, hc
    <3> QED
      BY <1>3, <3>1 DEF Close
  <2>3. Half * (3 * x) = 3 * hx /\ Half * (4 * g + 4 * c) = 4 * hg + 4 * hc
    BY <1>1, Parameters
  <2>4. 64 * x <= hx
    BY <1>4
  <2> HIDE DEF hx, hg, hc
  <2> QED
    BY <1>1, <2>1, <2>2, <2>3, <2>4
<1>6. 3 * x <= 4 * g + 4 * c
  <2>1. Half \in Nat \ {0} /\ 3 * x \in Int /\ 4 * g + 4 * c \in Int
    BY <1>1, Parameters
  <2> QED
    BY <1>5, <2>1, ProductShrinks
<1>7. x <= 2 * q
  BY <1>1, <1>2, <1>6
<1> QED
  BY <1>1, <1>7 DEF q

(* The speed the faster wheel should have, in rpm. *)
Reached(f) == Least((f * RpmPerMps) \div One, Limit * One)

(* Without a limit, the faster wheel is asked for what the twist asks. *)
LEMMA UnlimitedClose ==
  ASSUME Precise, NEW w \in Speeds, Largest(w) \in Nat,
         Largest(w) <= Limit * One, NEW f \in Nat,
         Close(2 * Half * (One * Largest(w)), 2 * Half * (RpmPerMps * f),
               Deviation(w))
  PROVE  Close(2 * Half * Ideal(One, f),
               2 * Half * (UnitsPerRpm * (Square * Reached(f))),
               2 * (Half * Cube))
<1> DEFINE g == f * RpmPerMps
           q == g \div One
           r == g % One
           c == Half * Cube
           h == UnitsPerRpm * (Half * Square)
           k == UnitsPerRpm * (Limit * Cube)
           x == UnitsPerRpm * (One * g)
           y == UnitsPerRpm * (Square * Reached(f))
<1>1. g \in Nat /\ q \in Nat /\ r \in Nat /\ r < One /\ g = One * q + r
  <2>1. g \in Nat /\ One \in Nat \ {0}
    BY Parameters
  <2> HIDE DEF g
  <2> QED
    BY <2>1, Division
<1>2. c \in Nat /\ 64 * h <= c /\ 64 * k <= c /\ h \in Nat /\ k \in Nat
  BY Shares, Parameters, Powers
<1>3. Ideal(One, f) = x /\ x \in Nat
  BY <1>1, Parameters DEF Ideal
<1>4. Reached(f) = IF q <= Limit * One THEN q ELSE Limit * One
  BY DEF Reached, Least
<1>5. Reached(f) \in Nat /\ y \in Nat
  BY <1>1, <1>4, Parameters, Powers
<1> HIDE DEF g, q, r
<1>6. CASE q <= Limit * One
  <2>1. x = y + UnitsPerRpm * (One * r)
    BY <1>1, <1>4, <1>6, Parameters, Powers DEF Square
  <2>2. (UnitsPerRpm * One) * r <= (UnitsPerRpm * One) * One
    <3>1. UnitsPerRpm * One \in Nat /\ One \in Int /\ r <= One
      BY <1>1, Parameters
    <3> QED
      BY <1>1, <3>1, ProductGrows
  <2>3. Half * ((UnitsPerRpm * One) * r) <= Half * ((UnitsPerRpm * One) * One)
    <3>1. (UnitsPerRpm * One) * r \in Int /\ (UnitsPerRpm * One) * One \in Int
      BY <1>1, Parameters
    <3> QED
      BY <2>2, <3>1, Parameters, ProductGrows
  <2>4. Half * ((UnitsPerRpm * One) * One) = h
    BY Parameters DEF Square
  <2> DEFINE d == Half * ((UnitsPerRpm * One) * r)
  <2>5. 2 * Half * x = 2 * Half * y + 2 * d /\ d \in Nat /\ 2 * Half * y \in Int
    <3>1. UnitsPerRpm * (One * r) = (UnitsPerRpm * One) * r
          /\ (UnitsPerRpm * One) * r \in Nat
      BY <1>1, Parameters
    <3> HIDE DEF x, y
    <3> QED
      BY <1>5, <2>1, <3>1, Parameters
  <2> HIDE DEF d, h, k, c, x, y
  <2>6. Close(2 * Half * x, 2 * Half * y, 2 * c)
    BY <1>2, <2>3, <2>4, <2>5 DEF Close, d
  <2> QED
    BY <1>3, <2>6 DEF y, c
<1>7. CASE ~(q <= Limit * One)
  <2>1. y = k
    BY <1>4, <1>7, Parameters, Powers
  <2>2. g >= Limit * Square
    <3>1. One * (Limit * One) <= One * q
      <4>1. Limit * One \in Int /\ Limit * One <= q
        BY <1>1, <1>7, Parameters
      <4> QED
        BY <1>1, <4>1, Parameters, ProductGrows
    <3>2. One * (Limit * One) = Limit * Square /\ One * q \in Nat
          /\ Limit * Square \in Nat
      BY <1>1, Parameters DEF Square
    <3> QED
      BY <1>1, <3>1, <3>2
  <2>3. x >= y
    <3>1. (UnitsPerRpm * One) * (Limit * Square) <= (UnitsPerRpm * One) * g
      <4>1. UnitsPerRpm * One \in Nat /\ Limit * Square \in Int
        BY Parameters, Powers
      <4> QED
        BY <1>1, <2>2, <4>1, ProductGrows
    <3>2. (UnitsPerRpm * One) * (Limit * Square) = k
          /\ (UnitsPerRpm * One) * g = x
      BY <1>1, Parameters, Powers
    <3> QED
      BY <1>5, <2>1, <3>1, <3>2
  <2>4. One * Largest(w) <= Limit * Square /\ One * Largest(w) \in Nat
    <3>1. One * Largest(w) <= One * (Limit * One)
      <4>1. Limit * One \in Int
        BY Parameters
      <4> QED
        BY <4>1, Parameters, ProductGrows
    <3>2. One * (Limit * One) = Limit * Square
      BY Parameters DEF Square
    <3> QED
      BY <3>1, <3>2, Parameters
  <2>5. PICK e \in Nat :
          /\ 64 * e <= 39 * c
          /\ Close(2 * Half * (UnitsPerRpm * (One * (One * Largest(w)))),
                   2 * Half * x, e)
    <3>1. One \in Nat /\ One <= 2 * One /\ Largest(w) * One <= 2 * (Limit * Square)
      BY <2>4, Parameters, Powers
    <3> HIDE DEF x
    <3> QED
      BY <1>3, <3>1, LargestScaled
  <2>6. UnitsPerRpm * (One * (One * Largest(w))) <= k
    <3>1. (UnitsPerRpm * One) * (One * Largest(w))
            <= (UnitsPerRpm * One) * (Limit * Square)
      <4>1. UnitsPerRpm * One \in Nat /\ Limit * Square \in Int
        BY Parameters, Powers
      <4> QED
        BY <2>4, <4>1, ProductGrows
    <3>2. (UnitsPerRpm * One) * (Limit * Square) = k
          /\ (UnitsPerRpm * One) * (One * Largest(w))
               = UnitsPerRpm * (One * (One * Largest(w)))
      BY Parameters, Powers
    <3> QED
      BY <3>1, <3>2
  <2> DEFINE l == UnitsPerRpm * (One * (One * Largest(w)))
  <2>7. l \in Nat /\ 2 * Half * l <= 2 * Half * k /\ 2 * Half * y <= 2 * Half * x
    <3>1. l \in Nat /\ 2 * Half \in Nat
      BY Parameters
    <3> HIDE DEF l, x, y, k
    <3> QED
      BY <1>2, <1>3, <1>5, <2>3, <2>6, <3>1, ProductGrows DEF l
  <2>8. Close(2 * Half * l, 2 * Half * x, e)
    BY <2>5
  <2>9. 2 * Half * l \in Int /\ 2 * Half * x \in Int /\ 2 * Half * y \in Int
        /\ 2 * Half * k \in Int
    BY <1>2, <1>3, <1>5, <2>7, Parameters
  <2> HIDE DEF l, x, k, c
  <2>10. Close(2 * Half * x, 2 * Half * y, 2 * c)
    <3>1. 2 * Half * y = 2 * Half * k
      BY <2>1
    <3> HIDE DEF y
    <3>2. 2 * Half * x - 2 * Half * y <= e
      BY <2>7, <2>8, <2>9, <3>1 DEF Close
    <3>3. e <= 2 * c
      BY <1>2, <2>5
    <3> QED
      BY <1>2, <2>7, <2>9, <3>2, <3>3 DEF Close
  <2> QED
    BY <1>3, <2>10 DEF y, c
<1> QED
  BY <1>6, <1>7

LEMMA ScaleClose ==
  ASSUME NEW w \in Speeds, Largest(w) > Limit * One
  PROVE  Close(2 * Half * (Largest(w) * Scale(w)), 2 * Half * (Limit * Square),
               Half * Largest(w) + Limit * Square)
<1> DEFINE l == Largest(w)
           n == Limit * One * One
           p == Double(n, l)
<1>1. l \in Nat \ {0} /\ n \in Int /\ n >= 0 /\ n = Limit * Square
  BY ScaleType, Parameters DEF Square
<1>2. Scale(w) = p
  BY DEF Scale, Quotient
<1> HIDE DEF l, n
<1>3. Close(2 * Half * (l * p), 2 * Half * n, Half * l + Magnitude(n))
  BY <1>1, RoundingClose
<1>4. Magnitude(n) = n
  BY <1>1 DEF Magnitude
<1> HIDE DEF p
<1> QED
  BY <1>1, <1>2, <1>3, <1>4 DEF l

(* Beyond the limit, the faster wheel is asked for the limit. *)
LEMMA LimitedClose ==
  ASSUME Precise, NEW w \in Speeds, Largest(w) > Limit * One,
         64 * (UnitsPerRpm * Largest(w)) <= Square,
         Scale(w) <= 2 * One, Largest(w) * Scale(w) <= 2 * (Limit * Square),
         NEW f \in Nat,
         Close(2 * Half * (One * Largest(w)), 2 * Half * (RpmPerMps * f),
               Deviation(w))
  PROVE  \E e \in Nat :
           /\ 64 * e <= 41 * (Half * Cube)
           /\ Close(2 * Half * Ideal(Scale(w), f),
                    2 * Half * (UnitsPerRpm * (Limit * Cube)), e)
<1> DEFINE l == Largest(w)
           s == Scale(w)
           c == Half * Cube
           k == UnitsPerRpm * (Limit * Cube)
           t == UnitsPerRpm * (s * (One * l))
           r == UnitsPerRpm * One
           d == r * (Half * l + Limit * Square)
<1>1. l \in Nat /\ s \in Nat /\ c \in Nat /\ 64 * k <= c /\ k \in Nat /\ r \in Nat
  BY ScaleType, Shares, Parameters, Powers
<1>2. PICK e \in Nat : /\ 64 * e <= 39 * c
                       /\ Close(2 * Half * t, 2 * Half * Ideal(s, f), e)
  <2> HIDE DEF s
  <2>1. s <= 2 * One /\ l * s <= 2 * (Limit * Square)
    BY DEF s
  <2> QED
    BY <1>1, <2>1, LargestScaled
<1>3. Close(2 * Half * t, 2 * Half * k, d)
  <2> DEFINE x == 2 * Half * (l * s)
             y == 2 * Half * (Limit * Square)
             z == Half * l + Limit * Square
  <2>1. x \in Int /\ y \in Int /\ z \in Int /\ Close(x, y, z)
    BY <1>1, ScaleClose, Parameters, Powers
  <2>2. r * x = 2 * Half * t
    <3> HIDE DEF l, s
    <3> QED
      BY <1>1, Parameters, Powers
  <2>3. r * y = 2 * Half * k
    BY Parameters, Powers
  <2> HIDE DEF x, y, z, r, t, k
  <2>4. Close(r * x, r * y, r * z)
    BY <1>1, <2>1, CloseTimes
  <2> QED
    BY <2>2, <2>3, <2>4 DEF z
<1>4. d \in Nat /\ 64 * d <= 2 * c
  <2> HIDE DEF l
  <2>1. (Half * One) * (64 * (UnitsPerRpm * l)) <= (Half * One) * Square
    <3>1. Half * One \in Nat /\ 64 * (UnitsPerRpm * l) \in Int
          /\ 64 * (UnitsPerRpm * l) <= Square
      BY <1>1, Parameters, Powers DEF l
    <3> QED
      BY <3>1, Powers, ProductGrows
  <2>2. (Half * One) * Square = c
    BY Parameters, Powers
  <2>3. d = UnitsPerRpm * (One * (Half * l)) + k
    BY <1>1, Parameters, Powers
  <2>4. (Half * One) * (64 * (UnitsPerRpm * l)) = 64 * (UnitsPerRpm * (One * (Half * l)))
        /\ UnitsPerRpm * (One * (Half * l)) \in Nat
    BY <1>1, Parameters, Powers
  <2> HIDE DEF d, k, c
  <2> QED
    BY <1>1, <2>1, <2>2, <2>3, <2>4
<1>5. Ideal(s, f) \in Int /\ t \in Int
  BY <1>1, Parameters, Powers DEF Ideal
<1> DEFINE x == 2 * Half * Ideal(s, f)
           y == 2 * Half * t
           z == 2 * Half * k
<1>6. x \in Int /\ y \in Int /\ z \in Int
  BY <1>1, <1>5, Parameters
<1>7. Close(x, y, e) /\ Close(y, z, d)
  BY <1>2, <1>3, CloseSwap
<1> HIDE DEF x, y, z, d, c
<1>8. Close(x, z, e + d)
  BY <1>4, <1>6, <1>7, CloseChain
<1>9. e + d \in Nat /\ 64 * (e + d) <= 41 * c
  BY <1>1, <1>2, <1>4
<1> QED
  BY <1>8, <1>9 DEF x, z, c

LEMMA LimitClosest ==
  ASSUME Precise, NEW w \in Speeds, Largest(w) > Limit * One,
         64 * (UnitsPerRpm * Largest(w)) <= Square,
         Scale(w) <= 2 * One, Largest(w) * Scale(w) <= 2 * (Limit * Square),
         NEW f \in Nat,
         Close(2 * Half * (One * Largest(w)), 2 * Half * (RpmPerMps * f),
               Deviation(w))
  PROVE  Close(2 * Half * Ideal(Scale(w), f),
               2 * Half * (UnitsPerRpm * (Square * Reached(f))),
               2 * (Half * Cube))
<1> DEFINE g == f * RpmPerMps
           q == g \div One
           r == g % One
           c == Half * Cube
           h == UnitsPerRpm * (Half * Square)
           k == UnitsPerRpm * (Limit * Cube)
           l == Largest(w)
           x == Ideal(Scale(w), f)
           y == UnitsPerRpm * (Square * Reached(f))
<1>1. g \in Nat /\ q \in Nat /\ r \in Nat /\ r < One /\ g = One * q + r
  <2>1. g \in Nat /\ One \in Nat \ {0}
    BY Parameters
  <2> HIDE DEF g
  <2> QED
    BY <2>1, Division
<1>2. c \in Nat /\ 64 * h <= c /\ 64 * k <= c /\ h \in Nat /\ k \in Nat
  BY Shares, Parameters, Powers
<1>3. l \in Nat /\ x \in Int
  BY ScaleType, Parameters DEF Ideal
<1>4. Reached(f) = IF q <= Limit * One THEN q ELSE Limit * One
  BY DEF Reached, Least
<1>5. Reached(f) \in Nat /\ y \in Nat
  BY <1>1, <1>4, Parameters, Powers
<1>6. PICK e \in Nat : /\ 64 * e <= 41 * c
                       /\ Close(2 * Half * x, 2 * Half * k, e)
  BY LimitedClose
<1> HIDE DEF g, q, r, x, l
<1>7. /\ 2 * Half * x \in Int /\ 2 * Half * y \in Int /\ 2 * Half * k \in Int
  BY <1>2, <1>3, <1>5, Parameters
<1>8. CASE q >= Limit * One
  <2>1. y = k
    <3>1. Reached(f) = Limit * One
      BY <1>1, <1>4, <1>8, Parameters
    <3> QED
      BY <3>1, Parameters, Powers
  <2>2. Close(2 * Half * x, 2 * Half * k, 2 * c)
    <3>1. e <= 2 * c /\ 2 * c \in Int
      BY <1>2, <1>6
    <3> HIDE DEF c, k
    <3> QED
      BY <1>6, <1>7, <3>1, CloseWider
  <2> QED
    BY <2>1, <2>2 DEF x
<1>9. CASE ~(q >= Limit * One)
  <2>1. Reached(f) = q
    BY <1>1, <1>4, <1>9, Parameters
  <2>2. One * (q + 1) <= Limit * Square
    <3>1. One * (q + 1) <= One * (Limit * One)
      <4>1. Limit * One \in Int /\ q + 1 \in Int /\ q + 1 <= Limit * One
        BY <1>1, <1>9, Parameters
      <4> QED
        BY <4>1, Parameters, ProductGrows
    <3> QED
      BY <3>1, Parameters DEF Square
  <2>3. g <= Limit * Square /\ One * (q + 1) = One * q + One
        /\ Limit * Square \in Nat /\ One * q \in Nat
    <3>1. One * (q + 1) = One * q + One /\ Limit * Square \in Nat /\ One * q \in Nat
      BY <1>1, Parameters, Powers
    <3> QED
      BY <1>1, <2>2, <3>1, Parameters
  <2>4. l * One <= 2 * (Limit * Square)
    BY <1>3, <2>3, LargestWithin DEF g, l
  <2>5. PICK d \in Nat :
          /\ 64 * d <= 39 * c
          /\ Close(2 * Half * (UnitsPerRpm * (One * (One * l))),
                   2 * Half * Ideal(One, f), d)
    <3>1. One \in Nat /\ One <= 2 * One
      BY Parameters
    <3> QED
      BY <1>3, <2>4, <3>1, LargestScaled DEF l
  <2> DEFINE t == UnitsPerRpm * (One * (One * l))
             i == Ideal(One, f)
  <2>6. k <= t
    <3>1. (UnitsPerRpm * (One * One)) * (Limit * One) <= (UnitsPerRpm * (One * One)) * l
      <4>1. UnitsPerRpm * (One * One) \in Nat /\ Limit * One \in Int /\ Limit * One <= l
        BY <1>3, Parameters DEF l
      <4> QED
        BY <1>3, <4>1, ProductGrows
    <3>2. (UnitsPerRpm * (One * One)) * (Limit * One) = k
      BY Parameters DEF Cube
    <3>3. (UnitsPerRpm * (One * One)) * l = t
      BY <1>3, Parameters
    <3> QED
      BY <3>1, <3>2, <3>3
  <2>7. i <= y + UnitsPerRpm * Square /\ y <= k
    <3>1. i = UnitsPerRpm * (One * g)
      BY <1>1, Parameters DEF Ideal, g
    <3>2. (UnitsPerRpm * One) * g <= (UnitsPerRpm * One) * (One * q + One)
      <4>1. UnitsPerRpm * One \in Nat /\ One * q + One \in Int /\ g <= One * q + One
        BY <1>1, <2>3, Parameters
      <4> QED
        BY <1>1, <4>1, ProductGrows
    <3>3. (UnitsPerRpm * One) * (One * q + One) = y + UnitsPerRpm * Square
      BY <1>1, <2>1, Parameters, Powers DEF Square
    <3>4. (UnitsPerRpm * One) * g = UnitsPerRpm * (One * g)
      BY <1>1, Parameters
    <3>5. (UnitsPerRpm * Square) * q <= (UnitsPerRpm * Square) * (Limit * One)
      <4>1. UnitsPerRpm * Square \in Nat /\ Limit * One \in Int /\ q <= Limit * One
        BY <1>1, <1>9, Parameters, Powers
      <4> QED
        BY <1>1, <4>1, ProductGrows
    <3>6. (UnitsPerRpm * Square) * q = y
      BY <1>1, <2>1, Parameters, Powers
    <3>7. (UnitsPerRpm * Square) * (Limit * One) = k
      BY Parameters, Powers
    <3> QED
      BY <3>1, <3>2, <3>3, <3>4, <3>5, <3>6, <3>7
  <2>8. t \in Nat /\ i \in Nat /\ UnitsPerRpm * Square \in Nat
    BY <1>3, Parameters, Powers DEF Ideal
  <2> HIDE DEF t, i
  <2> DEFINE ht == 2 * Half * t
             hi == 2 * Half * i
             hy == 2 * Half * y
             hk == 2 * Half * k
             hx == 2 * Half * x
  <2>9. hk <= ht /\ hi <= hy + 2 * h /\ hy <= hk
        /\ ht \in Int /\ hi \in Int /\ hy \in Int /\ hk \in Int /\ hx \in Int
    <3>1. 2 * Half \in Nat
      BY Parameters
    <3> HIDE DEF y, k
    <3>2. 2 * Half * k <= 2 * Half * t /\ 2 * Half * y <= 2 * Half * k
      BY <1>2, <1>5, <2>6, <2>7, <2>8, <3>1, ProductGrows
    <3>3. 2 * Half * i <= 2 * Half * (y + UnitsPerRpm * Square)
      <4>1. y + UnitsPerRpm * Square \in Int
        BY <1>5, <2>8
      <4> QED
        BY <2>7, <2>8, <3>1, <4>1, ProductGrows
    <3>4. 2 * Half * (y + UnitsPerRpm * Square) = 2 * Half * y + 2 * h
      BY <1>5, Parameters, Powers
    <3> QED
      BY <1>3, <1>5, <1>7, <2>8, <3>2, <3>3, <3>4, Parameters
  <2>10. Close(ht, hi, d) /\ Close(hx, hk, e)
    BY <1>6, <2>5 DEF t, i
  <2> HIDE DEF ht, hi, hy, hk, hx, c, h, k, y
  <2>11. Close(hx, hy, 2 * c)
    <3>1. hk - hy <= d + 2 * h
      BY <1>2, <2>9, <2>10 DEF Close
    <3>2. hx - hy <= e + d + 2 * h /\ hy - hx <= e
      BY <1>2, <2>9, <2>10, <3>1 DEF Close
    <3>3. e + d + 2 * h <= 2 * c /\ e <= 2 * c
      BY <1>2, <1>6, <2>5
    <3> QED
      BY <1>2, <2>9, <3>2, <3>3 DEF Close
  <2> QED
    BY <2>11 DEF hx, hy, x, y, c
<1> QED
  BY <1>1, <1>8, <1>9, Parameters

-----------------------------------------------------------------------------
(* Speeds in units that are as close as that keep the course. *)

LEMMA MagnitudeProduct ==
  ASSUME NEW a \in Int, NEW b \in Int
  PROVE  Magnitude(a * b) = Magnitude(a) * Magnitude(b)
<1>1. CASE b >= 0
  BY <1>1, MagnitudeTimes DEF Magnitude
<1>2. CASE b < 0
  <2> DEFINE c == -b
  <2>1. c \in Nat /\ Magnitude(b) = c /\ a * b = -(a * c)
    BY <1>2 DEF Magnitude
  <2> HIDE DEF c
  <2>2. Magnitude(a * c) = Magnitude(a) * c /\ a * c \in Int
    BY <2>1, MagnitudeTimes
  <2>3. Magnitude(-(a * c)) = Magnitude(a * c)
    BY <2>2, MagnitudeFacts
  <2> QED
    BY <2>1, <2>2, <2>3
<1> QED
  BY <1>1, <1>2

LEMMA CloseMagnitude ==
  ASSUME NEW a \in Int, NEW b \in Int, NEW e \in Int, Close(a, b, e)
  PROVE  Magnitude(a - b) <= e
BY DEF Close, Magnitude

(* p: what a wheel's share is multiplied by, u: the unit. *)
LEMMA SameWay ==
  ASSUME NEW p \in Nat, NEW u \in Nat \ {0}, NEW v \in Int, NEW a \in Int,
         Close(8 * (u * v), 8 * (p * a), 7 * u)
  PROVE  v * a >= 0
<1>1. u * v \in Int /\ p * a \in Int
  OBVIOUS
<1>2. CASE a > 0 /\ v < 0
  <2>1. p * a >= 0 /\ u * v <= -u
    <3>1. u * (v + 1) <= u * 0
      <4>1. v + 1 \in Int /\ 0 \in Int /\ v + 1 <= 0
        BY <1>2
      <4> QED
        BY <4>1, ProductGrows
    <3>2. u * (v + 1) = u * v + u /\ u * 0 = 0
      OBVIOUS
    <3>3. p * a >= 0
      BY <1>2
    <3> QED
      BY <1>1, <3>1, <3>2, <3>3
  <2> QED
    BY <1>1, <2>1 DEF Close
<1>3. CASE a < 0 /\ v > 0
  <2>1. p * a <= 0 /\ u * v >= u
    <3>1. u * 1 <= u * v
      <4>1. 1 <= v
        BY <1>3
      <4> QED
        BY <4>1, ProductGrows
    <3>2. p * a <= 0
      BY <1>3
    <3> QED
      BY <3>1, <3>2
  <2> QED
    BY <1>1, <2>1 DEF Close
<1>4. CASE (a >= 0 /\ v >= 0) \/ (a <= 0 /\ v <= 0)
  BY <1>4
<1> QED
  BY <1>2, <1>3, <1>4

LEMMA SameCurve ==
  ASSUME NEW p \in Nat, NEW u \in Nat \ {0},
         NEW v \in Int, NEW a \in Int, NEW w \in Int, NEW b \in Int,
         Close(8 * (u * v), 8 * (p * a), 7 * u),
         Close(8 * (u * w), 8 * (p * b), 7 * u)
  PROVE  Magnitude(v * b - w * a) <= 2 * Greatest(Magnitude(a), Magnitude(b))
<1> DEFINE c == u * v - p * a
           d == u * w - p * b
           f == Greatest(Magnitude(a), Magnitude(b))
           z == v * b - w * a
<1>1. c \in Int /\ d \in Int /\ z \in Int /\ f \in Nat
      /\ Magnitude(a) \in Nat /\ Magnitude(b) \in Nat
      /\ Magnitude(a) <= f /\ Magnitude(b) <= f
  <2>1. c \in Int /\ d \in Int /\ z \in Int
    OBVIOUS
  <2> HIDE DEF c, d, z
  <2> QED
    BY <2>1, LargestFacts, MagnitudeFacts
<1>2. u * z = c * b - d * a
  OBVIOUS
<1>3. /\ Magnitude(8 * c) <= 7 * u /\ Magnitude(8 * d) <= 7 * u
  <2>1. 8 * c = 8 * (u * v) - 8 * (p * a) /\ 8 * d = 8 * (u * w) - 8 * (p * b)
    OBVIOUS
  <2>2. 8 * (u * v) \in Int /\ 8 * (p * a) \in Int /\ 8 * (u * w) \in Int
        /\ 8 * (p * b) \in Int /\ 7 * u \in Int
    OBVIOUS
  <2> HIDE DEF c, d
  <2> QED
    BY <2>1, <2>2, CloseMagnitude
<1> HIDE DEF c, d, f, z
<1>4. /\ Magnitude(8 * c) = 8 * Magnitude(c) /\ Magnitude(8 * d) = 8 * Magnitude(d)
      /\ Magnitude(c) \in Nat /\ Magnitude(d) \in Nat
  BY <1>1 DEF Magnitude
<1>5. /\ 8 * (Magnitude(c) * Magnitude(b)) <= 7 * (u * f)
      /\ 8 * (Magnitude(d) * Magnitude(a)) <= 7 * (u * f)
  <2>1. ASSUME NEW x \in Nat, NEW y \in Nat, 8 * x <= 7 * u, y <= f
        PROVE  8 * (x * y) <= 7 * (u * f)
    <3>1. x * y <= x * f
      BY <1>1, <2>1, ProductGrows
    <3>2. f * (8 * x) <= f * (7 * u)
      BY <1>1, <2>1, ProductGrows
    <3>3. f * (8 * x) = 8 * (x * f) /\ f * (7 * u) = 7 * (u * f)
          /\ x * y \in Nat /\ x * f \in Nat /\ u * f \in Nat
      BY <1>1
    <3> QED
      BY <3>1, <3>2, <3>3
  <2> QED
    BY <1>1, <1>3, <1>4, <2>1
<1>6. Magnitude(u * z) <= Magnitude(c) * Magnitude(b) + Magnitude(d) * Magnitude(a)
  <2>1. c * b \in Int /\ d * a \in Int
    BY <1>1
  <2>2. Magnitude(c * b - d * a) <= Magnitude(c * b) + Magnitude(d * a)
    BY <2>1 DEF Magnitude
  <2> QED
    BY <1>1, <1>2, <2>2, MagnitudeProduct
<1>7. u * (4 * Magnitude(z)) <= u * (7 * f)
  <2>1. Magnitude(u * z) = u * Magnitude(z)
    BY <1>1, MagnitudeTimes
  <2>2. /\ u * Magnitude(z) \in Nat /\ u * f \in Nat
        /\ Magnitude(c) * Magnitude(b) \in Nat /\ Magnitude(d) * Magnitude(a) \in Nat
        /\ u * (4 * Magnitude(z)) = 4 * (u * Magnitude(z))
        /\ u * (7 * f) = 7 * (u * f)
    BY <1>1, <1>4, MagnitudeFacts
  <2> QED
    BY <1>5, <1>6, <2>1, <2>2
<1>8. 4 * Magnitude(z) <= 7 * f
  <2>1. 4 * Magnitude(z) \in Int /\ 7 * f \in Int
    BY <1>1, MagnitudeFacts
  <2> QED
    BY <1>7, <2>1, ProductShrinks
<1>9. Magnitude(z) <= 2 * f
  BY <1>1, <1>8, MagnitudeFacts
<1> QED
  BY <1>9 DEF z, f

LEMMA SameSpeed ==
  ASSUME NEW p \in Nat, NEW v \in Int, NEW a \in Int, NEW w \in Int, NEW b \in Int,
         NEW t \in Nat,
         Close(8 * (Cube * v), 8 * (p * a), 7 * Cube),
         Close(8 * (Cube * w), 8 * (p * b), 7 * Cube),
         Close(p * Greatest(Magnitude(a), Magnitude(b)), Square * t, Cube)
  PROVE  Magnitude(Greatest(Magnitude(v), Magnitude(w)) * One - t) <= 2 * One
<1> DEFINE f == Greatest(Magnitude(a), Magnitude(b))
           g == Greatest(Magnitude(v), Magnitude(w))
           x == Cube * Magnitude(v)
           y == Cube * Magnitude(w)
           c == p * Magnitude(a)
           d == p * Magnitude(b)
<1>1. f \in Nat /\ g \in Nat /\ x \in Int /\ y \in Int /\ c \in Int /\ d \in Int
      /\ Magnitude(v) \in Int /\ Magnitude(w) \in Int
      /\ Magnitude(a) \in Int /\ Magnitude(b) \in Int
  <2>1. f \in Nat /\ g \in Nat
    BY LargestFacts
  <2>2. /\ Magnitude(v) \in Int /\ Magnitude(w) \in Int
        /\ Magnitude(a) \in Int /\ Magnitude(b) \in Int
    BY MagnitudeFacts
  <2>3. x \in Int /\ y \in Int /\ c \in Int /\ d \in Int
    BY <2>2, Powers
  <2> QED
    BY <2>1, <2>2, <2>3
<1>2. Close(8 * x, 8 * c, 7 * Cube) /\ Close(8 * y, 8 * d, 7 * Cube)
  <2>1. Cube * v \in Int /\ p * a \in Int /\ Cube * w \in Int /\ p * b \in Int
        /\ 7 * Cube \in Int /\ 8 \in Nat
    BY Powers
  <2>2. /\ Close(8 * Magnitude(Cube * v), 8 * Magnitude(p * a), 7 * Cube)
        /\ Close(8 * Magnitude(Cube * w), 8 * Magnitude(p * b), 7 * Cube)
    BY <2>1, SidesClose
  <2>3. /\ Magnitude(Cube * v) = x /\ Magnitude(p * a) = c
        /\ Magnitude(Cube * w) = y /\ Magnitude(p * b) = d
    BY Powers, MagnitudeTimes
  <2> QED
    BY <2>2, <2>3
<1>3. Greatest(x, y) = Cube * g /\ Greatest(c, d) = p * f
  <2>1. Greatest(x, y) = Cube * g
    BY <1>1, Powers, MagnitudeTimes
  <2>2. Greatest(c, d) = p * f
    BY <1>1, MagnitudeTimes
  <2> QED
    BY <2>1, <2>2
<1> HIDE DEF x, y, c, d, f, g
<1>4. Close(8 * (Cube * g), 8 * (p * f), 7 * Cube)
  <2>1. Close(Greatest(8 * x, 8 * y), Greatest(8 * c, 8 * d), 7 * Cube)
    <3>1. 8 * x \in Int /\ 8 * y \in Int /\ 8 * c \in Int /\ 8 * d \in Int
          /\ 7 * Cube \in Int
      BY <1>1, Powers
    <3> QED
      BY <1>2, <3>1, CloseGreatest
  <2>2. Greatest(8 * x, 8 * y) = 8 * Greatest(x, y)
        /\ Greatest(8 * c, 8 * d) = 8 * Greatest(c, d)
    BY <1>1 DEF Greatest
  <2> QED
    BY <1>3, <2>1, <2>2
<1>5. Close(p * f, Square * t, Cube)
  BY DEF f
<1>6. Close(8 * (Cube * g), 8 * (Square * t), 16 * Cube)
  <2>1. Cube * g \in Int /\ p * f \in Int /\ Square * t \in Int /\ Cube \in Nat
    BY <1>1, Powers
  <2> QED
    BY <1>4, <1>5, <2>1 DEF Close
<1>7. Close(g * One, t, 2 * One)
  <2>1. 8 * (Cube * g) = (8 * Square) * (g * One)
        /\ 8 * (Square * t) = (8 * Square) * t
        /\ 16 * Cube = (8 * Square) * (2 * One)
    BY <1>1, Parameters, Powers
  <2>2. 8 * Square \in Nat \ {0} /\ g * One \in Int /\ 2 * One \in Int
    BY <1>1, Parameters, Powers
  <2> DEFINE r == 8 * Square
             i == g * One
             e == 2 * One
  <2>3. Close(r * i, r * t, r * e) /\ r \in Nat \ {0} /\ i \in Int /\ e \in Int
    BY <1>6, <2>1, <2>2
  <2> HIDE DEF r, i, e
  <2>4. Close(i, t, e)
    BY <2>3, CloseDivided
  <2> QED
    BY <2>4 DEF i, e
<1>8. g * One \in Int /\ 2 * One \in Int
  BY <1>1, Parameters
<1> QED
  BY <1>7, <1>8, CloseMagnitude DEF g

(* The two speeds in the units of the protocol. *)
Units(m) == [left  |-> encode_speed_units(m.left),
             right |-> encode_speed_units(m.right)]

LEMMA TwistUnits ==
  ASSUME Precise,
         NEW linear \in Linear \cup {0}, NEW angular \in Angular \cup {0}
  PROVE  LET w == WheelRpm(linear, angular)
             v == Units(Limited(w))
             f == Fastest(linear, angular)
         IN  /\ v \in Speeds /\ Applied(w) \in Nat
             /\ Close(8 * (Cube * v.left),
                      8 * Ideal(Applied(w), linear - Turn(angular)), 7 * Cube)
             /\ Close(8 * (Cube * v.right),
                      8 * Ideal(Applied(w), linear + Turn(angular)), 7 * Cube)
             /\ Close(Ideal(Applied(w), f),
                      Square * (Reached(f) * UnitsPerRpm), Cube)
             /\ Reached(f) \in Nat
<1> DEFINE w == WheelRpm(linear, angular)
           s == Applied(w)
           a == linear - Turn(angular)
           b == linear + Turn(angular)
           f == Fastest(linear, angular)
           m == Limited(w)
<1>1. linear \in Int /\ angular \in Int /\ 64 <= Half
  BY TwistTypes, PreciseFacts
<1>2. w \in Speeds /\ 2 * Largest(w) <= One * One /\ 2 * Limit <= Half
  BY TwistFits
<1>3. 64 * (UnitsPerRpm * Largest(w)) <= Square
  BY DEF Precise, Square
<1>4. a \in Int /\ b \in Int /\ f \in Nat
  <2>1. Turn(angular) \in Int
    BY <1>1, TurnClose
  <2>2. linear - Turn(angular) \in Int /\ linear + Turn(angular) \in Int
    BY <1>1, <2>1
  <2> QED
    BY <2>2, LargestFacts DEF Fastest
<1>5. /\ Close(2 * Half * (One * w.left), 2 * Half * (RpmPerMps * a), Deviation(w))
      /\ Close(2 * Half * (One * w.right), 2 * Half * (RpmPerMps * b), Deviation(w))
      /\ Close(2 * Half * (One * Largest(w)), 2 * Half * (RpmPerMps * f), Deviation(w))
  BY <1>1, Deviations
<1> HIDE DEF w, a, b, f
<1>6. s \in Nat /\ Largest(w) \in Nat /\ s <= 2 * One
      /\ Largest(w) * s <= 2 * (Limit * Square)
  BY <1>2, AppliedFacts DEF Square
<1>7. /\ Close(2 * Half * (One * m.left), 2 * Half * (w.left * s),
               Half * One + 2 * (Limit * Square))
      /\ Close(2 * Half * (One * m.right), 2 * Half * (w.right * s),
               Half * One + 2 * (Limit * Square))
  BY <1>2, LimitClose DEF Square
<1>8. /\ m.left \in Int /\ m.right \in Int /\ w.left \in Int /\ w.right \in Int
  BY <1>2, LimitedType DEF Speeds
<1>9. /\ Magnitude(m.left) <= Limit * One + One
      /\ Magnitude(m.right) <= Limit * One + One
  BY <1>2, LimitedBound
<1> HIDE DEF s, m
<1>10. /\ encode_speed_units(m.left) \in Int
       /\ Close(8 * (Cube * encode_speed_units(m.left)), 8 * Ideal(s, a), 7 * Cube)
  <2>1. /\ encode_speed_units(m.left) \in Int
        /\ Close(2 * Half * (One * encode_speed_units(m.left)),
                 2 * Half * (UnitsPerRpm * m.left),
                 Half * One + Half + UnitsPerRpm * Magnitude(m.left))
    BY <1>8, EncodeClose
  <2> QED
    BY <1>2, <1>4, <1>5, <1>6, <1>7, <1>8, <1>9, <2>1, UnitsClose
<1>11. /\ encode_speed_units(m.right) \in Int
       /\ Close(8 * (Cube * encode_speed_units(m.right)), 8 * Ideal(s, b), 7 * Cube)
  <2>1. /\ encode_speed_units(m.right) \in Int
        /\ Close(2 * Half * (One * encode_speed_units(m.right)),
                 2 * Half * (UnitsPerRpm * m.right),
                 Half * One + Half + UnitsPerRpm * Magnitude(m.right))
    BY <1>8, EncodeClose
  <2> QED
    BY <1>2, <1>4, <1>5, <1>6, <1>7, <1>8, <1>9, <2>1, UnitsClose
<1>12. Reached(f) \in Nat
  <2>1. f * RpmPerMps \in Nat /\ One \in Nat \ {0}
    BY <1>4, Parameters
  <2>2. (f * RpmPerMps) \div One \in Nat
    BY <2>1, Division
  <2> QED
    BY <2>2, Parameters DEF Reached, Least
<1>13. Close(2 * Half * Ideal(s, f),
             2 * Half * (UnitsPerRpm * (Square * Reached(f))), 2 * (Half * Cube))
  <2>1. CASE Largest(w) > Limit * One
    <3>1. s = Scale(w)
      BY <2>1 DEF s, Applied
    <3> QED
      BY <1>2, <1>3, <1>4, <1>5, <1>6, <2>1, <3>1, LimitClosest
  <2>2. CASE ~(Largest(w) > Limit * One)
    <3>1. s = One /\ Largest(w) <= Limit * One
      <4>1. Limit * One \in Nat
        BY Parameters
      <4> QED
        BY <1>6, <2>2, <4>1 DEF s, Applied
    <3> QED
      BY <1>2, <1>4, <1>5, <1>6, <3>1, UnlimitedClose
  <2> QED
    BY <2>1, <2>2
<1>14. Close(Ideal(s, f), Square * (Reached(f) * UnitsPerRpm), Cube)
  <2> DEFINE r == 2 * Half
             x == Ideal(s, f)
             y == Square * (Reached(f) * UnitsPerRpm)
  <2>1. r \in Nat \ {0} /\ x \in Int /\ y \in Int /\ Cube \in Int
    BY <1>4, <1>6, <1>12, Parameters, Powers DEF Ideal
  <2>2. y = UnitsPerRpm * (Square * Reached(f)) /\ 2 * (Half * Cube) = r * Cube
    BY <1>12, Parameters, Powers
  <2>3. Close(r * x, r * y, r * Cube)
    BY <1>13, <2>2
  <2> HIDE DEF r, x, y
  <2>4. Close(x, y, Cube)
    BY <2>1, <2>3, CloseDivided
  <2> QED
    BY <2>4 DEF x, y
<1>15. Units(m) \in Speeds
  BY <1>10, <1>11 DEF Units, Speeds
<1> QED
  BY <1>6, <1>10, <1>11, <1>12, <1>14, <1>15 DEF w, s, a, b, f, m, Units

(* The units of a twist keep its course. *)
LEMMA UnitsKeepCourse ==
  ASSUME Precise, asked \in (Linear \cup {0}) \X (Angular \cup {0})
  PROVE  KeepsCourse(Units(Limited(WheelRpm(asked[1], asked[2]))),
                     UnitsPerRpm, Tolerance)
<1> DEFINE x == asked[1]
           y == asked[2]
           w == WheelRpm(x, y)
           v == Units(Limited(w))
           a == x - Turn(y)
           b == x + Turn(y)
           f == Fastest(x, y)
           p == UnitsPerRpm * (Applied(w) * RpmPerMps)
           t == Reached(f) * UnitsPerRpm
<1>1. x \in Linear \cup {0} /\ y \in Angular \cup {0}
  OBVIOUS
<1>2. Wanted = [left |-> a, right |-> b]
  BY DEF Wanted, Turn
<1>3. x \in Int /\ y \in Int
  BY <1>1, TwistTypes
<1>4. a \in Int /\ b \in Int
  <2>1. Turn(y) \in Int
    BY <1>3, TurnClose
  <2> HIDE DEF x, y
  <2> QED
    BY <1>3, <2>1
<1>5. f = Greatest(Magnitude(a), Magnitude(b))
  BY DEF Fastest
<1>6. /\ v \in Speeds /\ Applied(w) \in Nat /\ Reached(f) \in Nat
      /\ Close(8 * (Cube * v.left), 8 * Ideal(Applied(w), a), 7 * Cube)
      /\ Close(8 * (Cube * v.right), 8 * Ideal(Applied(w), b), 7 * Cube)
      /\ Close(Ideal(Applied(w), f), Square * t, Cube)
  <2> HIDE DEF x, y
  <2> QED
    BY <1>1, TwistUnits
<1>7. f \in Nat
  BY <1>4, <1>5, LargestFacts
<1> HIDE DEF x, y, w, v, a, b, f
<1>8. p \in Nat /\ t \in Nat /\ v.left \in Int /\ v.right \in Int
  BY <1>6, Parameters, Powers DEF Speeds
<1>9. /\ Ideal(Applied(w), a) = p * a /\ Ideal(Applied(w), b) = p * b
      /\ Ideal(Applied(w), f) = p * f
  <2>1. \A i \in Int : Ideal(Applied(w), i) = p * i
    BY <1>6, Parameters, Powers DEF Ideal
  <2> QED
    BY <1>4, <1>7, <2>1
<1> HIDE DEF p, t
<1>10. v.left * a >= 0 /\ v.right * b >= 0
       /\ Magnitude(v.left * b - v.right * a) <= 2 * f
  <2>1. /\ Close(8 * (Cube * v.left), 8 * (p * a), 7 * Cube)
        /\ Close(8 * (Cube * v.right), 8 * (p * b), 7 * Cube)
        /\ Cube \in Nat \ {0}
    BY <1>6, <1>9, Powers
  <2>2. v.left * a >= 0
    BY <1>4, <1>8, <2>1, SameWay
  <2>3. v.right * b >= 0
    BY <1>4, <1>8, <2>1, SameWay
  <2>4. Magnitude(v.left * b - v.right * a) <= 2 * f
    BY <1>4, <1>5, <1>8, <2>1, SameCurve
  <2> QED
    BY <2>2, <2>3, <2>4
<1>11. Magnitude(Greatest(Magnitude(v.left), Magnitude(v.right)) * One - t) <= 2 * One
  BY <1>4, <1>5, <1>6, <1>8, <1>9, SameSpeed
<1>12. 2 * f <= Tolerance * f /\ 2 * One <= Tolerance * One
  <2>1. f * 2 <= f * Tolerance /\ One * 2 <= One * Tolerance
    <3>1. 2 \in Int /\ Tolerance \in Int /\ 2 <= Tolerance /\ One \in Nat
      BY Parameters DEF Precise
    <3> QED
      BY <1>7, <3>1, ProductGrows
  <2> QED
    BY <1>7, <2>1, Parameters
<1>13. Magnitude(v.left * b - v.right * a) <= Tolerance * f
  <2>1. v.left * b - v.right * a \in Int
    BY <1>4, <1>8
  <2>2. Magnitude(v.left * b - v.right * a) \in Int
    BY <2>1, MagnitudeFacts
  <2> QED
    BY <1>7, <1>10, <1>12, <2>2, Parameters
<1>14. Magnitude(Greatest(Magnitude(v.left), Magnitude(v.right)) * One - t)
         <= Tolerance * One
  <2>1. Greatest(Magnitude(v.left), Magnitude(v.right)) \in Nat
    BY <1>8, LargestFacts
  <2>2. Greatest(Magnitude(v.left), Magnitude(v.right)) * One - t \in Int
    BY <1>8, <2>1, Parameters
  <2>3. Magnitude(Greatest(Magnitude(v.left), Magnitude(v.right)) * One - t) \in Int
    BY <2>2, MagnitudeFacts
  <2> QED
    BY <1>11, <1>12, <2>3, Parameters
<1>15. t = Least((f * RpmPerMps) \div One, Limit * One) * UnitsPerRpm
  BY DEF t, Reached
<1>16. KeepsCourse(v, UnitsPerRpm, Tolerance)
  BY <1>2, <1>5, <1>10, <1>13, <1>14, <1>15 DEF KeepsCourse
<1> QED
  BY <1>16 DEF v, w, x, y

-----------------------------------------------------------------------------
(* From the twist to the frame and back. *)

LEMMA DoubleIsOdd ==
  ASSUME NEW n \in Int, NEW d \in Nat \ {0}
  PROVE  Double(-n, d) = -Double(n, d)
<1>1. CASE n >= 0 /\ n <= 0
  <2>1. Double(n, d) \in Int /\ Double(n, d) >= 0 /\ Double(n, d) <= 0
    BY <1>1, DoubleFacts
  <2>2. -n = n
    BY <1>1, ZeroHasNoSign
  <2>3. -Double(n, d) = Double(n, d)
    BY <2>1, ZeroHasNoSign
  <2> QED
    BY <2>2, <2>3
<1>2. CASE n > 0 \/ n < 0
  <2> DEFINE m == Magnitude(n)
             k == Spacing(m, d) * HalfEven(m, d * Spacing(m, d))
  <2>1. Magnitude(-n) = m /\ m \in Nat
    BY MagnitudeFacts
  <2>2. Double(n, d) = WithSign(n, k)
    BY DEF Double
  <2>3. Double(-n, d) = WithSign(-n, k)
    BY <2>1 DEF Double
  <2>4. k \in Nat
    <3> HIDE DEF m
    <3>1. Spacing(m, d) \in Nat \ {0}
      BY <2>1, SpacingFacts
    <3>2. d * Spacing(m, d) \in Nat \ {0}
      BY <3>1
    <3>3. HalfEven(m, d * Spacing(m, d)) \in Nat
      BY <2>1, <3>2, HalfEvenFacts
    <3> QED
      BY <3>1, <3>3
  <2> HIDE DEF k
  <2> QED
    BY <1>2, <2>2, <2>3, <2>4 DEF WithSign
<1> QED
  BY <1>1, <1>2

LEMMA EncodeIsOdd ==
  ASSUME NEW m \in Int
  PROVE  encode_speed_units(-m) = -encode_speed_units(m)
<1> DEFINE n == m * UnitsPerRpm
           u == Double(n, 1)
           k == (2 * Magnitude(u) + One) \div (2 * One)
<1>1. n \in Int /\ (-m) * UnitsPerRpm = -n
  BY Parameters
<1>2. encode_speed_units(m) = WithSign(u, k)
  BY DEF encode_speed_units
<1>3. u \in Int /\ Double(-n, 1) = -u
  <2>1. 1 \in Nat \ {0}
    OBVIOUS
  <2> HIDE DEF n
  <2> QED
    BY <1>1, <2>1, DoubleFacts, DoubleIsOdd
<1>4. Magnitude(-u) = Magnitude(u) /\ Magnitude(u) \in Nat
  <2> HIDE DEF u
  <2> QED
    BY <1>3, MagnitudeFacts
<1>5. encode_speed_units(-m) = WithSign(-u, k)
  BY <1>1, <1>3, <1>4 DEF encode_speed_units
<1> HIDE DEF n, u
<1>6. k \in Int
  <2>1. 2 * Magnitude(u) + One \in Int /\ 2 * One \in Nat \ {0}
    BY <1>4, Parameters
  <2> QED
    BY <2>1, Division
<1>7. u = 0 => k = 0
  <2> SUFFICES ASSUME u = 0 PROVE k = 0
    OBVIOUS
  <2>1. Magnitude(u) = u
    BY <1>3 DEF Magnitude
  <2>2. 2 * Magnitude(u) + One = One
    BY <2>1, Parameters
  <2>3. One \div (2 * One) = 0
    BY Parameters
  <2> QED
    BY <2>2, <2>3
<1> HIDE DEF k
<1>8. CASE u >= 0 /\ u <= 0
  <2>1. k >= 0 /\ k <= 0
    BY <1>3, <1>6, <1>7, <1>8
  <2>2. -u = u /\ -k = k
    BY <1>3, <1>6, <1>8, <2>1, ZeroHasNoSign
  <2>3. encode_speed_units(-m) = WithSign(u, k) /\ WithSign(u, k) = k
    BY <1>3, <1>5, <1>8, <2>2 DEF WithSign
  <2> QED
    BY <1>2, <2>2, <2>3
<1>9. CASE u > 0 \/ u < 0
  BY <1>2, <1>3, <1>5, <1>6, <1>9 DEF WithSign
<1> QED
  BY <1>3, <1>8, <1>9

(* A speed of at most r units is encoded with half as many more at most. *)
LEMMA EncodedBound ==
  ASSUME NEW m \in Int, NEW r \in Nat, UnitsPerRpm * Magnitude(m) <= r * One
  PROVE  2 * Magnitude(encode_speed_units(m)) <= 3 * r + 2
<1> DEFINE v == encode_speed_units(m)
           u == Magnitude(v)
           x == Half * One
           y == UnitsPerRpm * Magnitude(m)
<1>1. v \in Int /\ Close(2 * Half * (One * v), 2 * Half * (UnitsPerRpm * m), x + Half + y)
  BY EncodeClose
<1>2. u \in Nat /\ Magnitude(m) \in Nat /\ x \in Nat /\ y \in Nat
  BY <1>1, MagnitudeFacts, Parameters
<1> HIDE DEF v
<1>3. Close(2 * Half * (One * u), 2 * Half * y, x + Half + y)
  <2>1. 2 * Half \in Nat /\ One * v \in Int /\ UnitsPerRpm * m \in Int
        /\ x + Half + y \in Int
    BY <1>1, <1>2, Parameters
  <2>2. Close(2 * Half * Magnitude(One * v), 2 * Half * Magnitude(UnitsPerRpm * m),
              x + Half + y)
    <3> HIDE DEF x, y
    <3> QED
      BY <1>1, <2>1, SidesClose
  <2>3. Magnitude(One * v) = One * u
    BY <1>1, MagnitudeTimes, Parameters
  <2>4. Magnitude(UnitsPerRpm * m) = y
    BY MagnitudeTimes, Powers
  <2> QED
    BY <2>2, <2>3, <2>4
<1>4. y <= r * One
  OBVIOUS
<1> HIDE DEF u, y
<1>5. x * (2 * u) <= x * (3 * r + 2)
  <2> DEFINE z == x * r
             t == Half * y
  <2>1. 2 * Half * (One * u) = x * (2 * u) /\ 2 * Half * y = 2 * t
        /\ x * (3 * r + 2) = 3 * z + 2 * x
    BY <1>2, Parameters
  <2>2. t <= z /\ t \in Nat /\ z \in Nat
    <3>1. Half * y <= Half * (r * One)
      <4>1. r * One \in Int
        BY <1>2, Parameters
      <4> QED
        BY <1>2, <1>4, <4>1, Parameters, ProductGrows
    <3>2. Half * (r * One) = z
      BY <1>2, Parameters
    <3> QED
      BY <1>2, <3>1, <3>2, Parameters
  <2>3. y <= t
    <3>1. y * 1 <= y * Half
      BY <1>2, Parameters, ProductGrows
    <3> QED
      BY <1>2, <3>1, Parameters
  <2>4. Half <= x
    <3>1. Half * 1 <= Half * One
      BY Parameters, ProductGrows
    <3> QED
      BY <3>1, Parameters
  <2>5. x * (2 * u) \in Int
    BY <1>2
  <2> HIDE DEF x, z, t
  <2>6. x * (2 * u) <= 2 * t + x + Half + y
    BY <1>2, <1>3, <2>1, <2>2, <2>5, Parameters DEF Close
  <2> QED
    BY <1>2, <2>1, <2>2, <2>3, <2>4, <2>5, <2>6, Parameters
<1>6. 2 * u <= 3 * r + 2
  <2>1. x \in Nat \ {0} /\ 2 * u \in Int /\ 3 * r + 2 \in Int
    BY <1>2, Parameters
  <2> HIDE DEF x
  <2> QED
    BY <1>5, <2>1, ProductShrinks
<1> QED
  BY <1>6 DEF u, v

(* What can be encoded is half as much again, in units, at most. *)
LEMMA EncodableBound ==
  ASSUME NEW m \in Int, Encodable(m)
  PROVE  2 * Magnitude(encode_speed_units(m)) <= 3 * (MaxSpeedRpm * UnitsPerRpm) + 2
<1> DEFINE r == MaxSpeedRpm * UnitsPerRpm
<1>1. r \in Nat /\ Magnitude(m) \in Nat
  BY MagnitudeFacts, Parameters
<1>2. UnitsPerRpm * Magnitude(m) <= r * One
  <2>1. UnitsPerRpm * Magnitude(m) <= UnitsPerRpm * (MaxSpeedRpm * One)
    <3>1. MaxSpeedRpm * One \in Int /\ Magnitude(m) <= MaxSpeedRpm * One
      BY Parameters DEF Encodable
    <3> QED
      BY <1>1, <3>1, Powers, ProductGrows
  <2>2. UnitsPerRpm * (MaxSpeedRpm * One) = r * One
    BY Parameters
  <2> QED
    BY <2>1, <2>2
<1> HIDE DEF r
<1>3. 2 * Magnitude(encode_speed_units(m)) <= 3 * r + 2
  BY <1>1, <1>2, EncodedBound
<1> QED
  BY <1>3 DEF r

(* What can be encoded fits the field of the frame. *)
LEMMA EncodedFits ==
  ASSUME NEW m \in Int, Encodable(m)
  PROVE  encode_speed_units(m) \in Int /\ Magnitude(encode_speed_units(m)) <= 32767
<1> DEFINE v == encode_speed_units(m)
           r == MaxSpeedRpm * UnitsPerRpm
<1>1. r \in Nat /\ 2 * r < 32768 /\ v \in Int
  BY EncodedType, Parameters
<1>2. 2 * Magnitude(v) <= 3 * r + 2
  BY EncodableBound
<1> HIDE DEF r, v
<1>3. Magnitude(v) \in Nat
  BY <1>1, MagnitudeFacts
<1>4. Magnitude(v) <= 32767
  BY <1>1, <1>2, <1>3
<1> QED
  BY <1>1, <1>4 DEF v

(* So does the answer to it. *)
LEMMA ReplyFits ==
  ASSUME NEW n \in Int, 2 * Magnitude(n) <= 3 * (MaxSpeedRpm * UnitsPerRpm) + 2,
         NEW r \in Int,
         UnitsPerRpm * Magnitude(r)
           < FeedbackUnitsPerRpm * Magnitude(n) + UnitsPerRpm
  PROVE  Magnitude(r) <= 32767
<1> DEFINE i == Magnitude(n)
           k == Magnitude(r)
<1>1. i \in Nat /\ k \in Nat
  BY MagnitudeFacts
<1> HIDE DEF i, k
<1>2. 2 * i <= 3 * (MaxSpeedRpm * UnitsPerRpm) + 2
      /\ UnitsPerRpm * k < FeedbackUnitsPerRpm * i + UnitsPerRpm
  BY DEF i, k
<1>3. MaxSpeedRpm \in Nat /\ 2 * (MaxSpeedRpm * UnitsPerRpm) < 32768
      /\ 2 * (MaxSpeedRpm * FeedbackUnitsPerRpm) < 32768
  BY Parameters
<1>4. CASE UnitsPerRpm = 1 /\ FeedbackUnitsPerRpm = 1
  BY <1>1, <1>2, <1>3, <1>4 DEF k
<1>5. CASE UnitsPerRpm = 1 /\ FeedbackUnitsPerRpm = 10
  BY <1>1, <1>2, <1>3, <1>5 DEF k
<1>6. CASE UnitsPerRpm = 10 /\ FeedbackUnitsPerRpm = 10
  BY <1>1, <1>2, <1>3, <1>6 DEF k
<1>7. CASE UnitsPerRpm = 10 /\ FeedbackUnitsPerRpm = 1
  BY <1>1, <1>2, <1>3, <1>7 DEF k
<1> QED
  BY <1>4, <1>5, <1>6, <1>7, Parameters

(* A frame carries the units of the speeds it was made of. *)
LEMMA FrameUnits ==
  ASSUME NEW m \in Speeds, Encodable(m.left), Encodable(m.right)
  PROVE  /\ read_int16_little_endian(SpeedBytes(m).left) = encode_speed_units(m.left)
         /\ read_int16_little_endian(SpeedBytes(m).right) = encode_speed_units(m.right)
<1>1. m.left \in Int /\ m.right \in Int
  BY DEF Speeds
<1>2. /\ encode_speed_units(m.left) \in Int
      /\ Magnitude(encode_speed_units(m.left)) <= 32767
  BY <1>1, EncodedFits
<1>3. /\ encode_speed_units(m.right) \in Int
      /\ Magnitude(encode_speed_units(m.right)) <= 32767
  BY <1>1, EncodedFits
<1> QED
  BY <1>2, <1>3, RoundTrip DEF SpeedBytes

(* The inversions of a command and of its reply cancel. *)
LEMMA InvertedUnits ==
  ASSUME NEW m \in Speeds
  PROVE  Inverted(Units(Inverted(m))) = Units(m)
<1>1. m.left \in Int /\ m.right \in Int
  BY DEF Speeds
<1>2. /\ encode_speed_units(m.left) \in Int /\ encode_speed_units(m.right) \in Int
      /\ encode_speed_units(-m.left) = -encode_speed_units(m.left)
      /\ encode_speed_units(-m.right) = -encode_speed_units(m.right)
  BY <1>1, EncodedType, EncodeIsOdd
<1>3. \A i \in Int : -(-i) = i
  OBVIOUS
<1>4. /\ Units(Inverted(m)).left
           = IF InvertLeft THEN -encode_speed_units(m.left) ELSE encode_speed_units(m.left)
      /\ Units(Inverted(m)).right
           = IF InvertRight THEN -encode_speed_units(m.right)
                            ELSE encode_speed_units(m.right)
  BY <1>2 DEF Units, Inverted
<1> HIDE DEF Units
<1>5. /\ Inverted(Units(Inverted(m))).left = encode_speed_units(m.left)
      /\ Inverted(Units(Inverted(m))).right = encode_speed_units(m.right)
  BY <1>2, <1>3, <1>4 DEF Inverted
<1>6. Inverted(Units(Inverted(m))) = [left  |-> encode_speed_units(m.left),
                                      right |-> encode_speed_units(m.right)]
  <2>1. Inverted(Units(Inverted(m)))
          = [left  |-> Inverted(Units(Inverted(m))).left,
             right |-> Inverted(Units(Inverted(m))).right]
    BY DEF Inverted
  <2> QED
    BY <1>5, <2>1
<1> QED
  BY <1>6 DEF Units

-----------------------------------------------------------------------------
(* The frame on the bus is the one of the twist that was asked, and what   *)
(* was measured under it is what it says.                                  *)

Target == twist_to_motor_rpm(asked[1], asked[2])

FrameInv ==
  /\ frame = SpeedBytes(Target)
  /\ Encodable(Target.left) /\ Encodable(Target.right)
  /\ measured =>
       \E left \in Replies(frame.left), right \in Replies(frame.right) :
         wheel_rpm = motor_values_to_wheel([left  |-> DecodedSpeed(left),
                                            right |-> DecodedSpeed(right)])

LEMMA InitFrame == Init => FrameInv
<1> SUFFICES ASSUME Init PROVE FrameInv
  OBVIOUS
<1>1. asked[1] = 0 /\ asked[2] = 0
  BY DEF Init
<1>2. Target = Standstill
  BY <1>1, StandstillTwist DEF Target
<1> QED
  BY <1>2, StandstillEncodable DEF FrameInv, Init, Stopped, Standstill

LEMMA PublishFrame ==
  ASSUME FrameInv, NEW m, NEW x, NEW y, m = twist_to_motor_rpm(x, y),
         Publish(m, <<x, y>>)
  PROVE  FrameInv'
<1> DEFINE sent == Encodable(m.left) /\ Encodable(m.right)
<1>1. CASE sent
  <2>1. frame' = SpeedBytes(m) /\ asked' = <<x, y>> /\ measured' = FALSE
    BY <1>1 DEF Publish, FrameInv
  <2>2. Target' = m
    BY <2>1 DEF Target
  <2> QED
    BY <1>1, <2>1, <2>2 DEF FrameInv
<1>2. CASE ~sent
  <2>1. frame' = frame /\ asked' = asked /\ wheel_rpm' = wheel_rpm
        /\ measured' = (measured /\ TRUE)
    BY <1>2 DEF Publish
  <2>2. Target' = Target
    BY <2>1 DEF Target
  <2> QED
    BY <2>1, <2>2 DEF FrameInv
<1> QED
  BY <1>1, <1>2

LEMMA StepFrame == FrameInv /\ [Next]_vars => FrameInv'
<1> SUFFICES ASSUME FrameInv, [Next]_vars PROVE FrameInv'
  OBVIOUS
<1>1. CASE \E linear \in Linear, angular \in Angular :
             CommandCallback(linear, angular)
  BY <1>1 DEF CommandCallback, FrameInv, Target, feedback
<1>2. CASE ControlCallback
  BY <1>2, PublishFrame DEF ControlCallback, twist
<1>3. CASE WatchdogExpires
  <2>1. Publish(Standstill, <<0, 0>>)
    BY <1>3 DEF WatchdogExpires, Standstill
  <2>2. Standstill = twist_to_motor_rpm(0, 0)
    BY StandstillTwist
  <2> QED
    BY <2>1, <2>2, PublishFrame
<1>4. CASE ReceiveSpeeds
  BY <1>4 DEF ReceiveSpeeds, FrameInv, Target
<1>5. CASE UNCHANGED vars
  BY <1>5 DEF vars, feedback, FrameInv, Target
<1> QED
  BY <1>1, <1>2, <1>3, <1>4, <1>5 DEF Next

(* What a frame carries is always the encoding of the twist recorded with  *)
(* it, within what can be encoded, and what is published under it was      *)
(* decoded, in the units of a reply, from what the controller answers to   *)
(* that frame.                                                             *)
THEOREM FrameCarriesTwist == Spec => []FrameInv
BY InitFrame, StepFrame, PTL DEF Spec

(* The wheels turn by the units of the limited twist. *)
LEMMA FrameCourse ==
  ASSUME TypeOK, FrameInv
  PROVE  /\ Inverted([left  |-> read_int16_little_endian(frame.left),
                      right |-> read_int16_little_endian(frame.right)])
              = Units(Limited(WheelRpm(asked[1], asked[2])))
         /\ read_int16_little_endian(frame.left) = encode_speed_units(Target.left)
         /\ read_int16_little_endian(frame.right) = encode_speed_units(Target.right)
         /\ Target \in Speeds
<1> DEFINE w == WheelRpm(asked[1], asked[2])
<1>1. asked[1] \in Linear \cup {0} /\ asked[2] \in Angular \cup {0}
  BY DEF TypeOK
<1>2. w \in Speeds
  BY <1>1, TwistFits
<1>3. Limited(w) \in Speeds
  BY <1>2, LimitedType
<1>4. Target = Inverted(Limited(w)) /\ Target \in Speeds
  BY <1>3, InvertedType DEF Target, twist_to_motor_rpm
<1>5. /\ read_int16_little_endian(frame.left) = encode_speed_units(Target.left)
      /\ read_int16_little_endian(frame.right) = encode_speed_units(Target.right)
  BY <1>4, FrameUnits DEF FrameInv
<1>6. Inverted(Units(Target)) = Units(Limited(w))
  BY <1>3, <1>4, InvertedUnits
<1>7. [left  |-> read_int16_little_endian(frame.left),
       right |-> read_int16_little_endian(frame.right)] = Units(Target)
  BY <1>5 DEF Units
<1> QED
  BY <1>4, <1>5, <1>6, <1>7

(* Whatever the limit, the geometry and the inversions, the wheels keep    *)
(* the course of the twist the frame was computed from, if doubles are     *)
(* precise enough for the speeds.                                          *)
THEOREM CourseIsKept ==
  ASSUME Precise
  PROVE  Spec => []CourseKept
<1>1. TypeOK /\ FrameInv => CourseKept
  <2> SUFFICES ASSUME TypeOK, FrameInv PROVE CourseKept
    OBVIOUS
  <2>1. asked \in (Linear \cup {0}) \X (Angular \cup {0})
    BY DEF TypeOK
  <2>2. KeepsCourse(Units(Limited(WheelRpm(asked[1], asked[2]))),
                    UnitsPerRpm, Tolerance)
    BY <2>1, UnitsKeepCourse
  <2> QED
    BY <2>2, FrameCourse DEF CourseKept
<1> QED
  BY <1>1, TypeCorrect, FrameCarriesTwist, PTL

-----------------------------------------------------------------------------
(* A speed in units is found again in the rpm that are published. *)

LEMMA DecodedUnits ==
  ASSUME Precise, NEW n \in Int,
         16 * Magnitude(n) <= Half, 16 * (FeedbackUnitsPerRpm * Magnitude(n)) <= One
  PROVE  LET rpm == Product(n * One, Double(One, FeedbackUnitsPerRpm))
         IN  rpm \in Int /\ Double(rpm * FeedbackUnitsPerRpm, One) = n
<1> DEFINE res == Double(One, FeedbackUnitsPerRpm)
           i == n * One * res
           rpm == Double(i, One)
           z == rpm * FeedbackUnitsPerRpm
           k == Magnitude(n)
           hu == Half * One
           hr == FeedbackUnitsPerRpm * Half
           ku == k * One
           kh == k * hr
<1>1. k \in Nat /\ FeedbackUnitsPerRpm \in Nat \ {0} /\ One \in Nat \ {0} /\ Half \in Nat \ {0}
  BY MagnitudeFacts, Parameters
<1>2. res \in Int /\ res >= 0
      /\ Close(2 * Half * (FeedbackUnitsPerRpm * res), 2 * Half * One, hr + One)
  <2>1. One \in Int /\ One >= 0 /\ Magnitude(One) = One /\ hr = Half * FeedbackUnitsPerRpm
    BY <1>1 DEF Magnitude
  <2>2. Close(2 * Half * (FeedbackUnitsPerRpm * Double(One, FeedbackUnitsPerRpm)), 2 * Half * One,
              Half * FeedbackUnitsPerRpm + Magnitude(One))
    BY <1>1, <2>1, RoundingClose
  <2>3. res \in Int /\ res >= 0
    BY <1>1, <2>1, DoubleFacts
  <2> QED
    BY <2>1, <2>2, <2>3
<1> HIDE DEF res, k
<1>3. hu \in Nat /\ hr \in Nat /\ ku \in Nat /\ kh \in Nat
      /\ One <= hu /\ 64 * hr <= hu /\ 16 * ku <= hu /\ 16 * kh <= hu
  <2>1. One * 1 <= One * Half
    BY <1>1, ProductGrows
  <2>2. Half * (64 * FeedbackUnitsPerRpm) <= Half * One
    BY <1>1, PreciseFacts, ProductGrows
  <2>3. One * (16 * k) <= One * Half
    BY <1>1, ProductGrows DEF k
  <2>4. Half * (16 * (FeedbackUnitsPerRpm * k)) <= Half * One
    <3>1. 16 * (FeedbackUnitsPerRpm * k) \in Int /\ 16 * (FeedbackUnitsPerRpm * k) <= One
      BY <1>1 DEF k
    <3> QED
      BY <1>1, <3>1, ProductGrows
  <2>5. /\ One * 1 = One /\ One * Half = hu /\ Half * One = hu
        /\ Half * (64 * FeedbackUnitsPerRpm) = 64 * hr
        /\ One * (16 * k) = 16 * ku /\ Half * (16 * (FeedbackUnitsPerRpm * k)) = 16 * kh
    BY <1>1
  <2>6. hu \in Nat /\ hr \in Nat /\ ku \in Nat /\ kh \in Nat
    BY <1>1
  <2> HIDE DEF hu, hr, ku, kh
  <2> QED
    BY <2>1, <2>2, <2>3, <2>4, <2>5, <2>6
<1>4. i \in Int /\ Magnitude(i) = ku * res
  <2>1. Magnitude(n * (One * res)) = Magnitude(n) * (One * res)
    <3>1. One * res \in Nat
      BY <1>1, <1>2
    <3> QED
      BY <3>1, MagnitudeTimes
  <2>2. n * (One * res) = i /\ k * (One * res) = ku * res /\ i \in Int
    BY <1>1, <1>2
  <2> QED
    BY <2>1, <2>2 DEF k
<1>5. rpm \in Int /\ Close(2 * Half * (One * rpm), 2 * Half * i, hu + ku * res)
  <2> HIDE DEF i
  <2>1. Close(2 * Half * (One * Double(i, One)), 2 * Half * i, Half * One + Magnitude(i))
    BY <1>1, <1>4, RoundingClose
  <2>2. rpm \in Int
    BY <1>1, <1>4, DoubleFacts
  <2> QED
    BY <1>4, <2>1, <2>2
<1> HIDE DEF rpm
<1>6. Close(2 * Half * rpm, 2 * Half * (n * res), Half + k * res)
  <2> DEFINE x == 2 * Half * rpm
             y == 2 * Half * (n * res)
             e == Half + k * res
  <2>1. x \in Int /\ y \in Int /\ e \in Int
    BY <1>1, <1>2, <1>5
  <2>2. One * x = 2 * Half * (One * rpm) /\ One * y = 2 * Half * i
        /\ One * e = hu + ku * res
    BY <1>1, <1>2, <1>5
  <2> HIDE DEF x, y, e, i, hu, ku
  <2>3. Close(x, y, e)
    BY <1>1, <1>5, <2>1, <2>2, CloseDivided
  <2> QED
    BY <2>3 DEF x, y, e
<1>7. FeedbackUnitsPerRpm * res <= 2 * One
  <2> DEFINE a == 2 * Half * (FeedbackUnitsPerRpm * res)
  <2>1. a - 2 * hu <= hr + One /\ a \in Int
    <3>1. 2 * Half * One = 2 * hu /\ a \in Int
      BY <1>1, <1>2
    <3> HIDE DEF a, hu, hr
    <3> QED
      BY <1>2, <3>1 DEF Close, a
  <2>2. a = (2 * Half) * (FeedbackUnitsPerRpm * res) /\ 4 * hu = (2 * Half) * (2 * One)
    BY <1>1, <1>2
  <2>3. a <= 4 * hu
    <3> HIDE DEF a, hu, hr
    <3> QED
      BY <1>1, <1>3, <2>1
  <2>4. 2 * Half \in Nat \ {0} /\ FeedbackUnitsPerRpm * res \in Int /\ 2 * One \in Int
    BY <1>1, <1>2
  <2> HIDE DEF a, hu
  <2> QED
    BY <2>2, <2>3, <2>4, ProductShrinks
<1>8. Close(2 * Half * z, 2 * Half * (n * (FeedbackUnitsPerRpm * res)), hr + 2 * ku)
  <2> DEFINE x == 2 * Half * rpm
             y == 2 * Half * (n * res)
             e == Half + k * res
  <2>1. x \in Int /\ y \in Int /\ e \in Int /\ Close(x, y, e)
    BY <1>1, <1>2, <1>5, <1>6
  <2>2. FeedbackUnitsPerRpm * x = 2 * Half * z
        /\ FeedbackUnitsPerRpm * y = 2 * Half * (n * (FeedbackUnitsPerRpm * res))
    BY <1>1, <1>2, <1>5
  <2>3. FeedbackUnitsPerRpm * e <= hr + 2 * ku
    <3>1. k * (FeedbackUnitsPerRpm * res) <= k * (2 * One)
      <4>1. FeedbackUnitsPerRpm * res \in Int /\ 2 * One \in Int
        BY <1>1, <1>2
      <4> QED
        BY <1>1, <1>7, <4>1, ProductGrows
    <3>2. FeedbackUnitsPerRpm * e = hr + k * (FeedbackUnitsPerRpm * res) /\ k * (2 * One) = 2 * ku
      BY <1>1, <1>2
    <3>3. k * (FeedbackUnitsPerRpm * res) \in Int
      BY <1>1, <1>2
    <3> HIDE DEF hr, ku, e
    <3> QED
      BY <1>3, <3>1, <3>2, <3>3
  <2>4. FeedbackUnitsPerRpm * x \in Int /\ FeedbackUnitsPerRpm * y \in Int /\ FeedbackUnitsPerRpm * e \in Int
    BY <1>1, <2>1
  <2> HIDE DEF x, y, e, z, hr, ku
  <2>5. Close(FeedbackUnitsPerRpm * x, FeedbackUnitsPerRpm * y, FeedbackUnitsPerRpm * e)
    BY <1>1, <2>1, CloseTimes
  <2>6. Close(FeedbackUnitsPerRpm * x, FeedbackUnitsPerRpm * y, hr + 2 * ku)
    BY <1>3, <2>3, <2>4, <2>5, CloseWider
  <2> QED
    BY <2>2, <2>6
<1>9. Close(2 * Half * (n * (FeedbackUnitsPerRpm * res)), 2 * Half * (n * One), kh + ku)
  <2> DEFINE a == 2 * Half * (FeedbackUnitsPerRpm * res)
             b == 2 * Half * One
             e == hr + One
             d == a - b
  <2>1. a \in Int /\ b \in Int /\ e \in Int /\ d \in Int /\ Close(a, b, e)
    BY <1>1, <1>2
  <2>2. n * a = 2 * Half * (n * (FeedbackUnitsPerRpm * res)) /\ n * b = 2 * Half * (n * One)
        /\ k * e = kh + ku
    BY <1>1, <1>2
  <2> HIDE DEF a, b, e, kh, ku
  <2>3. n * a - n * b = n * d
    BY <2>1
  <2>4. Magnitude(d) <= e
    BY <2>1, CloseMagnitude
  <2> HIDE DEF d
  <2>5. Magnitude(n * d) = k * Magnitude(d) /\ Magnitude(d) \in Nat /\ n * d \in Int
    <3>1. Magnitude(n * d) = Magnitude(n) * Magnitude(d)
      BY <2>1, MagnitudeProduct
    <3>2. Magnitude(d) \in Nat /\ n * d \in Int
      BY <2>1, MagnitudeFacts
    <3> QED
      BY <3>1, <3>2 DEF k
  <2>6. k * Magnitude(d) <= k * e
    BY <1>1, <2>1, <2>4, <2>5, ProductGrows
  <2>7. n * d <= k * e /\ -(n * d) <= k * e
    <3>1. n * d <= Magnitude(n * d) /\ -(n * d) <= Magnitude(n * d)
      BY <2>5, MagnitudeFacts
    <3>2. k * e \in Int /\ k * Magnitude(d) \in Int
      BY <1>1, <2>1, <2>5
    <3> QED
      BY <2>5, <2>6, <3>1, <3>2
  <2>8. n * a \in Int /\ n * b \in Int
    BY <2>1
  <2>9. Close(n * a, n * b, k * e)
    BY <2>3, <2>5, <2>7, <2>8 DEF Close
  <2> QED
    BY <2>2, <2>9
<1>10. z \in Int /\ Close(2 * Half * z, 2 * Half * (n * One), hr + 2 * ku + kh + ku)
  <2>1. z \in Int /\ 2 * Half * z \in Int /\ 2 * Half * (n * One) \in Int
        /\ 2 * Half * (n * (FeedbackUnitsPerRpm * res)) \in Int
    BY <1>1, <1>2, <1>5
  <2> HIDE DEF z, hr, ku, kh
  <2> QED
    BY <1>3, <1>8, <1>9, <2>1 DEF Close
<1>11. Magnitude(z) <= ku + One
  <2> DEFINE x == 2 * Half * z
             y == 2 * Half * (n * One)
  <2>1. Close(2 * Half * Magnitude(z), 2 * Half * Magnitude(n * One), hr + 2 * ku + kh + ku)
    <3>1. 2 * Half \in Nat /\ n * One \in Int
          /\ hr + 2 * ku + kh + ku \in Int
      BY <1>1, <1>3
    <3> HIDE DEF z, hr, ku, kh
    <3> QED
      BY <1>10, <3>1, SidesClose
  <2>2. Magnitude(n * One) = ku
    BY <1>1, MagnitudeTimes DEF k
  <2>3. (2 * Half) * Magnitude(z) <= (2 * Half) * (ku + One)
    <3>1. Magnitude(z) \in Nat
      BY <1>10, MagnitudeFacts
    <3> DEFINE a == 2 * Half * Magnitude(z)
               b == 2 * Half * ku
    <3>2. a \in Int /\ b \in Int /\ (2 * Half) * (ku + One) = b + 2 * hu
      BY <1>1, <1>3, <3>1
    <3>3. a - b <= hr + 2 * ku + kh + ku
      BY <2>1, <2>2 DEF Close
    <3> HIDE DEF a, b, z, hu, hr, ku, kh
    <3>4. a <= b + 2 * hu
      BY <1>3, <3>2, <3>3
    <3> QED
      BY <3>2, <3>4 DEF a
  <2>4. 2 * Half \in Nat \ {0} /\ Magnitude(z) \in Int /\ ku + One \in Int
    BY <1>1, <1>3, <1>10, MagnitudeFacts
  <2> HIDE DEF z, ku
  <2> QED
    BY <2>3, <2>4, ProductShrinks
<1> DEFINE p == Double(z, One)
<1>12. p \in Int /\ Close(2 * Half * (One * p), 2 * Half * z, hu + Magnitude(z))
  <2> HIDE DEF z
  <2> QED
    BY <1>1, <1>10, DoubleFacts, RoundingClose
<1> HIDE DEF p
<1>13. One * p - One * n < One /\ One * n - One * p < One
  <2> DEFINE a == 2 * Half * (One * p)
             b == 2 * Half * z
             c == 2 * Half * (n * One)
  <2>1. a \in Int /\ b \in Int /\ c \in Int /\ Magnitude(z) \in Nat
    BY <1>1, <1>10, <1>12, MagnitudeFacts
  <2>2. Close(a, b, hu + Magnitude(z)) /\ Close(b, c, hr + 2 * ku + kh + ku)
    BY <1>10, <1>12
  <2> DEFINE d == One * p - One * n
  <2>3. a - c = (2 * Half) * d /\ d \in Int /\ (2 * Half) * One = 2 * hu
        /\ (2 * Half) * d \in Int
    BY <1>1, <1>12
  <2>4. -d = One * n - One * p /\ (2 * Half) * (-d) = -((2 * Half) * d)
    BY <1>1, <1>12
  <2> HIDE DEF a, b, c, d, z, hu, hr, ku, kh
  <2>5. a - c < 2 * hu /\ c - a < 2 * hu
    <3>1. a - c <= hu + Magnitude(z) + hr + 2 * ku + kh + ku
          /\ c - a <= hu + Magnitude(z) + hr + 2 * ku + kh + ku
      BY <1>3, <2>1, <2>2 DEF Close
    <3>2. 64 * (hu + Magnitude(z) + hr + 2 * ku + kh + ku) < 128 * hu
      <4>1. 64 * One <= hu
        <5>1. One * 64 <= One * Half
          BY <1>1, PreciseFacts, ProductGrows
        <5> QED
          BY <1>1, <5>1 DEF hu
      <4>2. hu > 0
        BY <1>1, <1>3
      <4> QED
        BY <1>1, <1>3, <1>11, <2>1, <4>1, <4>2
    <3> QED
      BY <1>3, <2>1, <3>1, <3>2
  <2>6. d < One
    <3> SUFFICES ASSUME d >= One PROVE FALSE
      BY <1>1, <2>3
    <3>1. (2 * Half) * One <= (2 * Half) * d
      <4>1. 2 * Half \in Nat
        BY <1>1
      <4> QED
        BY <1>1, <2>3, <4>1, ProductGrows
    <3> QED
      BY <1>3, <2>1, <2>3, <2>5, <3>1
  <2>7. -d < One
    <3> SUFFICES ASSUME -d >= One PROVE FALSE
      BY <1>1, <2>3
    <3>1. (2 * Half) * One <= (2 * Half) * (-d)
      <4>1. 2 * Half \in Nat /\ -d \in Int
        BY <1>1, <2>3
      <4> QED
        BY <1>1, <4>1, ProductGrows
    <3> QED
      BY <1>3, <2>1, <2>3, <2>4, <2>5, <3>1
  <2> QED
    BY <2>4, <2>6, <2>7 DEF d
<1>14. p = n
  <2>1. ASSUME NEW a \in Int, NEW b \in Int, One * a - One * b < One
        PROVE  a <= b
    <3> SUFFICES ASSUME a >= b + 1 PROVE FALSE
      OBVIOUS
    <3>1. One * (b + 1) <= One * a
      BY <1>1, ProductGrows
    <3>2. One * (b + 1) = One * b + One /\ One * a \in Int /\ One * b \in Int
      BY <1>1
    <3> QED
      BY <1>1, <2>1, <3>1, <3>2
  <2>2. p <= n /\ n <= p
    BY <1>12, <1>13, <2>1
  <2> QED
    BY <1>12, <2>2
<1>15. Product(n * One, res) = rpm
  BY DEF Product, rpm
<1> QED
  BY <1>5, <1>14, <1>15 DEF res, p

(* The speeds of a frame are few units. *)
LEMMA UnitsBound ==
  ASSUME Precise, NEW m \in Int, Magnitude(m) <= Limit * One + One
  PROVE  LET n == encode_speed_units(m)
         IN  n \in Int /\ Magnitude(n) <= 4 * (Limit * UnitsPerRpm)
<1> DEFINE n == encode_speed_units(m)
           k == Magnitude(n)
           t == Limit * UnitsPerRpm
           r == t + UnitsPerRpm
<1>1. n \in Int /\ k \in Nat /\ Magnitude(m) \in Nat
  BY EncodedType, MagnitudeFacts
<1>2. t \in Nat /\ UnitsPerRpm \in Nat /\ 1 <= UnitsPerRpm /\ UnitsPerRpm <= t
  BY Parameters, PreciseFacts
<1>3. UnitsPerRpm * Magnitude(m) <= r * One
  <2>1. UnitsPerRpm * Magnitude(m) <= UnitsPerRpm * (Limit * One + One)
    <3>1. Limit * One + One \in Int
      BY Parameters
    <3> QED
      BY <1>1, <1>2, <3>1, ProductGrows
  <2>2. UnitsPerRpm * (Limit * One + One) = r * One
    BY Parameters
  <2> QED
    BY <2>1, <2>2
<1>4. k <= 4 * t
  <2>1. r \in Nat
    BY <1>2
  <2>2. 2 * k <= 3 * r + 2
    <3> HIDE DEF r
    <3> QED
      BY <1>3, <2>1, EncodedBound
  <2> HIDE DEF k, t
  <2> QED
    BY <1>1, <1>2, <2>2
<1> QED
  BY <1>1, <1>4 DEF k

(* A reply is small enough for its rpm to be told apart. *)
LEMMA ReplyBound ==
  ASSUME Precise, NEW n \in Int, Magnitude(n) <= 4 * (Limit * UnitsPerRpm),
         NEW r \in Int,
         UnitsPerRpm * Magnitude(r)
           < FeedbackUnitsPerRpm * Magnitude(n) + UnitsPerRpm
  PROVE  /\ 16 * Magnitude(r) <= Half
         /\ 16 * (FeedbackUnitsPerRpm * Magnitude(r)) <= One
<1> DEFINE k == Magnitude(r)
           t == Limit * FeedbackUnitsPerRpm
<1>1. k \in Nat /\ Magnitude(n) \in Nat /\ t \in Nat
      /\ FeedbackUnitsPerRpm \in Nat /\ UnitsPerRpm \in Nat /\ UnitsPerRpm > 0
  BY MagnitudeFacts, Parameters
<1>2. k <= 4 * t
  <2>1. FeedbackUnitsPerRpm * Magnitude(n) <= UnitsPerRpm * (4 * t)
    <3>1. FeedbackUnitsPerRpm * Magnitude(n)
            <= FeedbackUnitsPerRpm * (4 * (Limit * UnitsPerRpm))
      <4>1. 4 * (Limit * UnitsPerRpm) \in Int
        BY Parameters
      <4> QED
        BY <1>1, <4>1, ProductGrows
    <3>2. FeedbackUnitsPerRpm * (4 * (Limit * UnitsPerRpm)) = UnitsPerRpm * (4 * t)
      BY Parameters
    <3> QED
      BY <3>1, <3>2
  <2>2. UnitsPerRpm * k < UnitsPerRpm * (4 * t) + UnitsPerRpm
    <3>1. UnitsPerRpm * (4 * t) \in Int /\ UnitsPerRpm * k \in Int
          /\ FeedbackUnitsPerRpm * Magnitude(n) \in Int
      <4> HIDE DEF k, t
      <4> QED
        BY <1>1
    <3> QED
      BY <1>1, <2>1, <3>1
  <2> HIDE DEF k, t
  <2>3. CASE k >= 4 * t + 1
    <3>1. UnitsPerRpm * (4 * t + 1) <= UnitsPerRpm * k
      BY <1>1, <2>3, ProductGrows
    <3>2. UnitsPerRpm * (4 * t + 1) = UnitsPerRpm * (4 * t) + UnitsPerRpm
          /\ UnitsPerRpm * (4 * t) \in Int /\ UnitsPerRpm * k \in Int
      BY <1>1
    <3> QED
      BY <1>1, <2>2, <3>1, <3>2
  <2> QED
    BY <1>1, <2>3
<1>3. 16 * k <= Half
  <2>1. 64 * t <= Half
    BY DEF Precise
  <2> HIDE DEF k, t
  <2> QED
    BY <1>1, <1>2, <2>1, Parameters
<1>4. 16 * (FeedbackUnitsPerRpm * k) <= One
  <2>1. 64 * (FeedbackUnitsPerRpm * t) <= One
    <3>1. FeedbackUnitsPerRpm * t = Limit * FeedbackUnitsPerRpm * FeedbackUnitsPerRpm
      BY Parameters
    <3> QED
      BY <3>1 DEF Precise
  <2>2. FeedbackUnitsPerRpm * k <= FeedbackUnitsPerRpm * (4 * t)
    <3>1. 4 * t \in Int
      BY <1>1
    <3> HIDE DEF k, t
    <3> QED
      BY <1>1, <1>2, <3>1, ProductGrows
  <2>3. FeedbackUnitsPerRpm * (4 * t) = 4 * (FeedbackUnitsPerRpm * t)
        /\ FeedbackUnitsPerRpm * t \in Nat /\ FeedbackUnitsPerRpm * k \in Nat
    <3> HIDE DEF k, t
    <3> QED
      BY <1>1
  <2> HIDE DEF k, t
  <2> QED
    BY <2>1, <2>2, <2>3, Parameters
<1> QED
  BY <1>3, <1>4 DEF k

(* A wheel speed that was inverted is inverted back with its units. *)
LEMMA MeasuredUnits ==
  ASSUME Precise, NEW n \in Int,
         16 * Magnitude(n) <= Half, 16 * (FeedbackUnitsPerRpm * Magnitude(n)) <= One
  PROVE  LET rpm == Product(n * One, Double(One, FeedbackUnitsPerRpm))
         IN  /\ Double(rpm * FeedbackUnitsPerRpm, One) = n
             /\ Double((-rpm) * FeedbackUnitsPerRpm, One) = -n
<1> DEFINE rpm == Product(n * One, Double(One, FeedbackUnitsPerRpm))
           z == rpm * FeedbackUnitsPerRpm
<1>1. rpm \in Int /\ Double(z, One) = n
  BY DecodedUnits
<1> HIDE DEF rpm
<1>2. z \in Int /\ (-rpm) * FeedbackUnitsPerRpm = -z /\ One \in Nat \ {0}
  BY <1>1, Parameters
<1> HIDE DEF z
<1>3. Double(-z, One) = -Double(z, One)
  BY <1>2, DoubleIsOdd
<1> QED
  BY <1>1, <1>2, <1>3 DEF z, rpm

(* What is read from a reply to the frame of a speed. *)
LEMMA ReplyRead ==
  ASSUME Precise, NEW m \in Int, Encodable(m), Magnitude(m) <= Limit * One + One,
         NEW bytes, read_int16_little_endian(bytes) = encode_speed_units(m),
         NEW reply \in Replies(bytes)
  PROVE  LET n == read_int16_little_endian(bytes)
             r == read_int16_little_endian(reply)
         IN  /\ n \in Int /\ r \in Int
             /\ n >= 0 => r >= 0
             /\ n <= 0 => r <= 0
             /\ Close(UnitsPerRpm * r, FeedbackUnitsPerRpm * n, ReplyRounding)
             /\ 16 * Magnitude(r) <= Half
             /\ 16 * (FeedbackUnitsPerRpm * Magnitude(r)) <= One
<1> DEFINE n == read_int16_little_endian(bytes)
           S == {(n * FeedbackUnitsPerRpm) \div UnitsPerRpm,
                 -((-(n * FeedbackUnitsPerRpm)) \div UnitsPerRpm)}
<1>1. n \in Int /\ Magnitude(n) <= 4 * (Limit * UnitsPerRpm)
  BY UnitsBound
<1>2. 2 * Magnitude(n) <= 3 * (MaxSpeedRpm * UnitsPerRpm) + 2
  BY EncodableBound
<1>3. PICK r \in S : reply = write_int16_little_endian(r)
  BY DEF Replies
<1> HIDE DEF n
<1>4. /\ r \in Int
      /\ n >= 0 => r >= 0
      /\ n <= 0 => r <= 0
      /\ UnitsPerRpm * r - FeedbackUnitsPerRpm * n <= ReplyRounding
      /\ FeedbackUnitsPerRpm * n - UnitsPerRpm * r <= ReplyRounding
      /\ UnitsPerRpm * Magnitude(r)
           < FeedbackUnitsPerRpm * Magnitude(n) + UnitsPerRpm
  BY <1>1, ReplyUnits
<1> HIDE DEF S
<1>5. Magnitude(r) <= 32767
  BY <1>1, <1>2, <1>4, ReplyFits
<1>6. read_int16_little_endian(reply) = r
  BY <1>3, <1>4, <1>5, RoundTrip
<1>7. 16 * Magnitude(r) <= Half
      /\ 16 * (FeedbackUnitsPerRpm * Magnitude(r)) <= One
  BY <1>1, <1>4, ReplyBound
<1>8. Close(UnitsPerRpm * r, FeedbackUnitsPerRpm * n, ReplyRounding)
  BY <1>4 DEF Close
<1> QED
  BY <1>1, <1>4, <1>6, <1>7, <1>8 DEF n

(* The speeds of a target are within a revolution of the limit. *)
LEMMA TargetBound ==
  ASSUME TypeOK
  PROVE  /\ Target.left \in Int /\ Magnitude(Target.left) <= Limit * One + One
         /\ Target.right \in Int /\ Magnitude(Target.right) <= Limit * One + One
<1> DEFINE v == Limited(WheelRpm(asked[1], asked[2]))
<1>1. asked[1] \in Linear \cup {0} /\ asked[2] \in Angular \cup {0}
  BY DEF TypeOK
<1>2. v \in Speeds
  BY <1>1, TwistFits, LimitedType
<1>3. /\ Magnitude(v.left) <= Limit * One + One
      /\ Magnitude(v.right) <= Limit * One + One
  BY <1>1, TwistFits, LimitedBound
<1>4. Target = Inverted(v)
  BY DEF Target, twist_to_motor_rpm
<1> HIDE DEF v
<1>5. v.left \in Int /\ v.right \in Int
  BY <1>2 DEF Speeds
<1>6. Magnitude(-v.left) = Magnitude(v.left) /\ Magnitude(-v.right) = Magnitude(v.right)
  BY <1>5, MagnitudeFacts
<1> QED
  BY <1>3, <1>4, <1>5, <1>6 DEF Inverted

(* v and u are those of a frame and of its reply, in common units, and the *)
(* course is kept by both.                                                 *)
Follows(u, v) ==
  /\ u \in Int /\ v \in Int
  /\ v >= 0 => u >= 0
  /\ v <= 0 => u <= 0
  /\ Close(u, FeedbackUnitsPerRpm * v, ReplyRounding)

LEMMA FollowsInverted ==
  ASSUME NEW u, NEW v, Follows(u, v)
  PROVE  Follows(-u, -v)
<1>1. FeedbackUnitsPerRpm * (-v) = -(FeedbackUnitsPerRpm * v)
      /\ FeedbackUnitsPerRpm * v \in Int /\ ReplyRounding \in Int
  BY Parameters DEF Follows, ReplyRounding
<1> QED
  BY <1>1 DEF Follows, Close

(* The wheel speeds measured under a frame follow those of the frame. *)
LEMMA FeedbackUnits ==
  ASSUME Precise, TypeOK, FrameInv, measured
  PROVE  LET v == Inverted([left  |-> read_int16_little_endian(frame.left),
                            right |-> read_int16_little_endian(frame.right)])
             Common(rpm) == Double(rpm * FeedbackUnitsPerRpm, One) * UnitsPerRpm
         IN  /\ Follows(Common(wheel_rpm.left), v.left)
             /\ Follows(Common(wheel_rpm.right), v.right)
<1> DEFINE Common(rpm) == Double(rpm * FeedbackUnitsPerRpm, One) * UnitsPerRpm
           a == read_int16_little_endian(frame.left)
           b == read_int16_little_endian(frame.right)
<1>1. PICK left \in Replies(frame.left), right \in Replies(frame.right) :
        wheel_rpm = motor_values_to_wheel([left  |-> DecodedSpeed(left),
                                           right |-> DecodedSpeed(right)])
  BY DEF FrameInv
<1> DEFINE i == read_int16_little_endian(left)
           j == read_int16_little_endian(right)
           x == DecodedSpeed(left)
           y == DecodedSpeed(right)
<1>2. /\ a = encode_speed_units(Target.left) /\ Encodable(Target.left)
      /\ b = encode_speed_units(Target.right) /\ Encodable(Target.right)
  BY FrameCourse DEF FrameInv
<1>3. /\ a \in Int /\ i \in Int
      /\ a >= 0 => i >= 0
      /\ a <= 0 => i <= 0
      /\ Close(UnitsPerRpm * i, FeedbackUnitsPerRpm * a, ReplyRounding)
      /\ 16 * Magnitude(i) <= Half
      /\ 16 * (FeedbackUnitsPerRpm * Magnitude(i)) <= One
  BY <1>2, TargetBound, ReplyRead
<1>4. /\ b \in Int /\ j \in Int
      /\ b >= 0 => j >= 0
      /\ b <= 0 => j <= 0
      /\ Close(UnitsPerRpm * j, FeedbackUnitsPerRpm * b, ReplyRounding)
      /\ 16 * Magnitude(j) <= Half
      /\ 16 * (FeedbackUnitsPerRpm * Magnitude(j)) <= One
  BY <1>2, TargetBound, ReplyRead
<1>5. /\ Common(x) = i * UnitsPerRpm /\ Common(-x) = (-i) * UnitsPerRpm
      /\ Common(y) = j * UnitsPerRpm /\ Common(-y) = (-j) * UnitsPerRpm
  BY <1>3, <1>4, MeasuredUnits DEF DecodedSpeed
<1>6. /\ wheel_rpm.left = IF InvertLeft THEN -x ELSE x
      /\ wheel_rpm.right = IF InvertRight THEN -y ELSE y
  BY <1>1 DEF motor_values_to_wheel, Inverted
<1> HIDE DEF x, y, i, j, a, b
<1>7. Follows(i * UnitsPerRpm, a) /\ Follows(j * UnitsPerRpm, b)
  <2>1. UnitsPerRpm \in {1, 10}
    BY Parameters
  <2> QED
    BY <1>3, <1>4, <2>1 DEF Follows
<1>8. Follows((-i) * UnitsPerRpm, -a) /\ Follows((-j) * UnitsPerRpm, -b)
  <2>1. (-i) * UnitsPerRpm = -(i * UnitsPerRpm) /\ (-j) * UnitsPerRpm = -(j * UnitsPerRpm)
    BY <1>3, <1>4, Parameters
  <2> QED
    BY <1>7, <2>1, FollowsInverted
<1>9. Inverted([left |-> a, right |-> b])
        = [left |-> IF InvertLeft THEN -a ELSE a, right |-> IF InvertRight THEN -b ELSE b]
  BY DEF Inverted
<1> HIDE DEF Common
<1>10. /\ Follows(Common(wheel_rpm.left), Inverted([left |-> a, right |-> b]).left)
       /\ Follows(Common(wheel_rpm.right), Inverted([left |-> a, right |-> b]).right)
  BY <1>5, <1>6, <1>7, <1>8, <1>9
<1> QED
  BY <1>10 DEF a, b, Common

(* A wheel that follows one that keeps to its side does so too. *)
LEMMA FollowsSide ==
  ASSUME NEW u, NEW v, Follows(u, v), NEW a \in Int, v * a >= 0
  PROVE  u * a >= 0
<1>1. u \in Int /\ v \in Int /\ (v >= 0 => u >= 0) /\ (v <= 0 => u <= 0)
  BY DEF Follows
<1>2. CASE a > 0
  BY <1>1, <1>2
<1>3. CASE a < 0
  BY <1>1, <1>3
<1>4. CASE a = 0
  BY <1>1, <1>4
<1> QED
  BY <1>2, <1>3, <1>4

(* The wheels that follow those of a frame drive its curve, up to what the *)
(* reply was rounded by.                                                   *)
LEMMA FollowsCurve ==
  ASSUME NEW u \in Speeds, NEW v \in Speeds,
         Follows(u.left, v.left), Follows(u.right, v.right),
         NEW a \in Int, NEW b \in Int, NEW f \in Nat,
         Magnitude(a) <= f, Magnitude(b) <= f,
         Magnitude(v.left * b - v.right * a) <= Tolerance * f
  PROVE  Magnitude(u.left * b - u.right * a)
           <= (Tolerance * FeedbackUnitsPerRpm + 2 * ReplyRounding) * f
<1> DEFINE c == FeedbackUnitsPerRpm
           d == ReplyRounding
           l == u.left - c * v.left
           r == u.right - c * v.right
           z == v.left * b - v.right * a
           p == l * b
           q == r * a
           y == u.left * b - u.right * a
<1>1. c \in Nat /\ d \in Nat /\ Tolerance \in Nat
      /\ u.left \in Int /\ u.right \in Int /\ v.left \in Int /\ v.right \in Int
  BY Parameters DEF ReplyRounding, Speeds
<1>2. l \in Int /\ r \in Int /\ z \in Int /\ p \in Int /\ q \in Int /\ y \in Int
      /\ y = c * z + p - q
  BY <1>1
<1>3. Magnitude(l) <= d /\ Magnitude(r) <= d
  <2>1. c * v.left \in Int /\ c * v.right \in Int
    BY <1>1
  <2> QED
    BY <1>1, <2>1, CloseMagnitude DEF Follows
<1>4. Magnitude(z) <= Tolerance * f
  OBVIOUS
<1> HIDE DEF c, d, l, r, z
<1>5. ASSUME NEW e \in Int, NEW g \in Int, Magnitude(e) <= d, Magnitude(g) <= f
      PROVE  Magnitude(e * g) <= d * f
  <2>1. Magnitude(e) \in Nat /\ Magnitude(g) \in Nat
    BY MagnitudeFacts
  <2>2. Magnitude(e) * Magnitude(g) <= Magnitude(e) * f
    BY <2>1, <1>5, ProductGrows
  <2>3. f * Magnitude(e) <= f * d
    BY <1>1, <2>1, <1>5, ProductGrows
  <2>4. Magnitude(e) * f = f * Magnitude(e) /\ f * d = d * f
        /\ f * Magnitude(e) \in Int /\ d * f \in Int
        /\ Magnitude(e) * Magnitude(g) \in Int
    BY <1>1, <2>1
  <2>5. Magnitude(e * g) = Magnitude(e) * Magnitude(g)
    BY MagnitudeProduct
  <2> QED
    BY <2>2, <2>3, <2>4, <2>5
<1>6. Magnitude(p) <= d * f /\ Magnitude(q) <= d * f
  BY <1>2, <1>3, <1>5
<1>7. Magnitude(c * z) <= c * (Tolerance * f)
  <2>1. Magnitude(c * z) = c * Magnitude(z)
    BY <1>1, <1>2, MagnitudeTimes
  <2>2. Magnitude(z) \in Int /\ Tolerance * f \in Int
    BY <1>1, <1>2, MagnitudeFacts
  <2> QED
    BY <1>1, <1>4, <2>1, <2>2, ProductGrows
<1>8. c * z \in Int /\ d * f \in Nat /\ c * (Tolerance * f) \in Nat
      /\ (Tolerance * c + 2 * d) * f = c * (Tolerance * f) + 2 * (d * f)
  BY <1>1, <1>2
<1> DEFINE i == c * z
           df == d * f
           t == c * (Tolerance * f)
<1> HIDE DEF p, q, y, i, df, t
<1>9. Magnitude(y) <= t + 2 * df
  <2>1. y \in Int /\ i \in Int /\ p \in Int /\ q \in Int /\ y = i + p - q
        /\ df \in Nat /\ t \in Nat
        /\ Magnitude(i) <= t /\ Magnitude(p) <= df /\ Magnitude(q) <= df
    BY <1>2, <1>6, <1>7, <1>8 DEF i, df, t
  <2> QED
    BY <2>1 DEF Magnitude
<1> QED
  BY <1>8, <1>9 DEF y, df, t, c, d

(* The faster of the wheels that follow those of a frame is as fast, up to *)
(* what the reply was rounded by.                                          *)
LEMMA FollowsSpeed ==
  ASSUME NEW u \in Speeds, NEW v \in Speeds,
         Follows(u.left, v.left), Follows(u.right, v.right),
         NEW s \in Int,
         Magnitude(Largest(v) * One - s * UnitsPerRpm) <= Tolerance * One
  PROVE  Magnitude(Largest(u) * One - s * (UnitsPerRpm * FeedbackUnitsPerRpm))
           <= (Tolerance * FeedbackUnitsPerRpm + 2 * ReplyRounding) * One
<1> DEFINE c == FeedbackUnitsPerRpm
           d == ReplyRounding
           k == Largest(u)
           m == Largest(v)
           w == s * UnitsPerRpm
<1>1. /\ c \in Nat /\ d \in Nat /\ Tolerance \in Nat /\ One \in Nat
      /\ u.left \in Int /\ u.right \in Int /\ v.left \in Int /\ v.right \in Int
      /\ w \in Int /\ s * (UnitsPerRpm * c) = c * w
  BY Parameters DEF ReplyRounding, Speeds
<1>2. k \in Nat /\ m \in Nat
  BY <1>1, LargestFacts DEF Largest
<1>3. Close(k, c * m, d)
  <2>1. c * v.left \in Int /\ c * v.right \in Int
    BY <1>1
  <2>2. /\ Magnitude(c * v.left) = c * Magnitude(v.left)
        /\ Magnitude(c * v.right) = c * Magnitude(v.right)
    <3>1. c \in {1, 10}
      BY Parameters
    <3> HIDE DEF c
    <3> QED
      BY <1>1, <3>1 DEF Magnitude
  <2>3. Close(u.left, c * v.left, d) /\ Close(u.right, c * v.right, d)
    BY DEF Follows
  <2> HIDE DEF c, d
  <2>4. /\ Close(Magnitude(u.left), Magnitude(c * v.left), d)
        /\ Close(Magnitude(u.right), Magnitude(c * v.right), d)
    BY <1>1, <2>1, <2>3, CloseMagnitudes
  <2>5. /\ Magnitude(u.left) \in Nat /\ Magnitude(u.right) \in Nat
        /\ Magnitude(v.left) \in Nat /\ Magnitude(v.right) \in Nat
        /\ Magnitude(c * v.left) \in Nat /\ Magnitude(c * v.right) \in Nat
    BY <1>1, <2>1, MagnitudeFacts
  <2>6. Close(Greatest(Magnitude(u.left), Magnitude(u.right)),
              Greatest(Magnitude(c * v.left), Magnitude(c * v.right)), d)
    <3> DEFINE ul == Magnitude(u.left)
               ur == Magnitude(u.right)
               vl == Magnitude(c * v.left)
               vr == Magnitude(c * v.right)
    <3>1. ul \in Int /\ ur \in Int /\ vl \in Int /\ vr \in Int /\ d \in Int
          /\ Close(ul, vl, d) /\ Close(ur, vr, d)
      BY <1>1, <2>4, <2>5
    <3> HIDE DEF ul, ur, vl, vr
    <3>2. Close(Greatest(ul, ur), Greatest(vl, vr), d)
      BY <3>1, CloseGreatest
    <3> QED
      BY <3>2 DEF ul, ur, vl, vr
  <2>7. Greatest(Magnitude(c * v.left), Magnitude(c * v.right))
          = c * Greatest(Magnitude(v.left), Magnitude(v.right))
    <3>1. CASE Magnitude(v.left) >= Magnitude(v.right)
      <4>1. c * Magnitude(v.right) <= c * Magnitude(v.left)
        BY <1>1, <2>5, <3>1, ProductGrows
      <4>2. c * Magnitude(v.left) >= c * Magnitude(v.right)
        BY <1>1, <2>5, <4>1
      <4> QED
        BY <2>2, <3>1, <4>2 DEF Greatest
    <3>2. CASE Magnitude(v.right) > Magnitude(v.left)
      <4>1. c * Magnitude(v.left) <= c * Magnitude(v.right)
        BY <1>1, <2>5, <3>2, ProductGrows
      <4>2. c * Magnitude(v.left) \in Int /\ c * Magnitude(v.right) \in Int
        BY <1>1, <2>5
      <4> QED
        BY <2>2, <2>5, <3>2, <4>1, <4>2 DEF Greatest
    <3> QED
      BY <2>5, <3>1, <3>2
  <2> QED
    BY <2>6, <2>7 DEF Largest
<1> HIDE DEF c, d, k, m, w
<1> DEFINE x == k * One
           y == m * One
           t == Tolerance * One
           e == d * One
<1>4. x \in Nat /\ y \in Nat /\ t \in Nat /\ e \in Nat /\ c * y \in Nat /\ c * w \in Int
      /\ c * t \in Nat
      /\ One * k = x /\ One * (c * m) = c * y /\ One * d = e
      /\ (Tolerance * c + 2 * d) * One = c * t + 2 * e
  BY <1>1, <1>2
<1>5. Magnitude(y - w) <= t
  BY DEF y, w, t, m
<1> HIDE DEF x, y, t, e
<1>6. Close(c * y, c * w, c * t)
  <2>1. Close(y, w, t)
    BY <1>1, <1>4, <1>5 DEF Close, Magnitude
  <2>2. c \in Nat /\ y \in Int /\ w \in Int /\ t \in Int
    BY <1>1, <1>4
  <2> QED
    BY <2>1, <2>2, CloseTimes
<1>7. Close(x, c * y, e)
  <2> DEFINE z == c * m
  <2>1. One \in Nat /\ k \in Int /\ z \in Int /\ d \in Int
    BY <1>1, <1>2
  <2>2. Close(k, z, d)
    BY <1>3
  <2>3. One * k = x /\ One * z = c * y /\ One * d = e
    BY <1>4
  <2> HIDE DEF z
  <2>4. Close(One * k, One * z, One * d)
    BY <2>1, <2>2, CloseTimes
  <2> QED
    BY <2>3, <2>4
<1>8. Close(x, c * w, c * t + 2 * e)
  <2>1. e + c * t <= c * t + 2 * e /\ c * t + 2 * e \in Int
    BY <1>4
  <2> QED
    BY <1>4, <1>6, <1>7, <2>1, CloseChain
<1>9. Magnitude(x - c * w) <= c * t + 2 * e
  <2>1. c * t + 2 * e \in Int
    BY <1>4
  <2> QED
    BY <1>4, <1>8, <2>1, CloseMagnitude
<1> QED
  BY <1>1, <1>4, <1>9 DEF x, k, c, d, w

LEMMA WantedType ==
  ASSUME TypeOK
  PROVE  Wanted \in Speeds
<1>1. asked[1] \in Int /\ asked[2] \in Int
  BY TwistTypes DEF TypeOK
<1>2. Turn(asked[2]) \in Int
  BY <1>1, TurnClose
<1> QED
  BY <1>1, <1>2 DEF Wanted, Turn, Speeds

(* Wheels that follow those of a frame keep the course with them. *)
LEMMA FollowsCourse ==
  ASSUME TypeOK, NEW u \in Speeds, NEW v \in Speeds,
         Follows(u.left, v.left), Follows(u.right, v.right),
         KeepsCourse(v, UnitsPerRpm, Tolerance)
  PROVE  KeepsCourse(u, UnitsPerRpm * FeedbackUnitsPerRpm,
                     Tolerance * FeedbackUnitsPerRpm + 2 * ReplyRounding)
<1> DEFINE a == Wanted.left
           b == Wanted.right
           f == Greatest(Magnitude(a), Magnitude(b))
           s == Least((f * RpmPerMps) \div One, Limit * One)
<1>1. a \in Int /\ b \in Int
  BY WantedType DEF Speeds
<1>2. f \in Nat /\ Magnitude(a) <= f /\ Magnitude(b) <= f
  <2> HIDE DEF a, b
  <2> QED
    BY <1>1, LargestFacts
<1>3. /\ v.left * a >= 0 /\ v.right * b >= 0
      /\ Magnitude(v.left * b - v.right * a) <= Tolerance * f
      /\ Magnitude(Largest(v) * One - s * UnitsPerRpm) <= Tolerance * One
  BY DEF KeepsCourse, Largest
<1>4. s \in Int
  <2> HIDE DEF f
  <2>1. (f * RpmPerMps) \div One \in Int /\ Limit * One \in Int
    <3>1. f * RpmPerMps \in Int /\ One \in Nat \ {0}
      BY <1>2, Parameters
    <3> QED
      BY <3>1, Division, Parameters
  <2> QED
    BY <2>1 DEF Least
<1> HIDE DEF a, b, f, s
<1>5. u.left * a >= 0 /\ u.right * b >= 0
  BY <1>1, <1>3, FollowsSide
<1>6. Magnitude(u.left * b - u.right * a)
        <= (Tolerance * FeedbackUnitsPerRpm + 2 * ReplyRounding) * f
  BY <1>1, <1>2, <1>3, FollowsCurve
<1>7. Magnitude(Largest(u) * One - s * (UnitsPerRpm * FeedbackUnitsPerRpm))
        <= (Tolerance * FeedbackUnitsPerRpm + 2 * ReplyRounding) * One
  BY <1>3, <1>4, FollowsSpeed
<1> QED
  BY <1>5, <1>6, <1>7 DEF KeepsCourse, Largest, a, b, f, s

(* What the wheels are measured to do under a frame is what the twist it   *)
(* came from asks for, whichever units a command and a reply have: the     *)
(* reply's decoding and inversion undo those of the command.               *)
THEOREM FeedbackMirrors ==
  ASSUME Precise
  PROVE  Spec => []FeedbackMirrorsCommand
<1>1. TypeOK /\ FrameInv => FeedbackMirrorsCommand
  <2> SUFFICES ASSUME TypeOK, FrameInv, measured
               PROVE  FeedbackMirrorsCommand
    BY DEF FeedbackMirrorsCommand
  <2> DEFINE Common(rpm) == Double(rpm * FeedbackUnitsPerRpm, One) * UnitsPerRpm
             u == [left |-> Common(wheel_rpm.left), right |-> Common(wheel_rpm.right)]
             v == Inverted([left  |-> read_int16_little_endian(frame.left),
                            right |-> read_int16_little_endian(frame.right)])
  <2>1. asked \in (Linear \cup {0}) \X (Angular \cup {0})
    BY DEF TypeOK
  <2>2. KeepsCourse(v, UnitsPerRpm, Tolerance)
    BY <2>1, UnitsKeepCourse, FrameCourse
  <2>3. Follows(u.left, v.left) /\ Follows(u.right, v.right)
    BY FeedbackUnits
  <2>4. u \in Speeds /\ v \in Speeds
    <3>1. u.left \in Int /\ u.right \in Int /\ v.left \in Int /\ v.right \in Int
      BY <2>3 DEF Follows
    <3> HIDE DEF Common
    <3> QED
      BY <3>1 DEF Speeds, Inverted
  <2>5. KeepsCourse(u, UnitsPerRpm * FeedbackUnitsPerRpm,
                    Tolerance * FeedbackUnitsPerRpm + 2 * ReplyRounding)
    <3> HIDE DEF u, v
    <3> QED
      BY <2>2, <2>3, <2>4, FollowsCourse
  <2> QED
    BY <2>5 DEF FeedbackMirrorsCommand
<1> QED
  BY <1>1, TypeCorrect, FrameCarriesTwist, PTL
=============================================================================
