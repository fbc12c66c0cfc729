----------------------- MODULE EncoderOdometry_proofs -----------------------
(***************************************************************************)
(* Proofs about EncoderOdometry, for every width of the encoder counter,   *)
(* every grace period, stale timeout and delay, and any number of reports  *)
(* in flight, resets and turns of the wheels that the bounds name.         *)
(***************************************************************************)
EXTENDS EncoderOdometry, SequenceTheorems, TLAPS

Reports == EncoderReports \cup StatusReports

-----------------------------------------------------------------------------
(* The wire. *)

LEMMA ReportKinds ==
  ASSUME NEW e \in Reports
  PROVE  /\ e.kind = "encoder" => e \in EncoderReports
         /\ e.kind = "status" => e \in StatusReports
         /\ e.kind \in {"encoder", "status"}
         /\ e.boot \in Nat /\ e.wait \in 0 .. MaxDelay
BY DEF Reports, EncoderReports, StatusReports

LEMMA AgedReport ==
  ASSUME NEW e \in Reports, e.wait < MaxDelay
  PROVE  [e EXCEPT !.wait = @ + 1] \in Reports
<1>1. e.wait + 1 \in 0 .. MaxDelay
  BY ReportKinds, OdometryAssumption
<1>2. CASE e \in EncoderReports
  BY <1>1, <1>2 DEF Reports, EncoderReports
<1>3. CASE e \in StatusReports
  BY <1>1, <1>3 DEF Reports, StatusReports
<1> QED
  BY <1>2, <1>3 DEF Reports

LEMMA WireType ==
  ASSUME TypeOK
  PROVE  /\ wire \in Seq(Reports) /\ Len(wire) \in Nat
         /\ DOMAIN wire = 1 .. Len(wire)
         /\ \A i \in DOMAIN wire : wire[i] \in Reports
<1>1. wire \in Seq(Reports)
  BY DEF TypeOK, Reports
<1> QED
  BY <1>1, LenProperties, ElementOfSeq

LEMMA WireTail ==
  ASSUME TypeOK, wire # <<>>, wire' = Tail(wire)
  PROVE  /\ wire' \in Seq(Reports) /\ Len(wire') \in Nat
         /\ Len(wire') <= Len(wire)
         /\ DOMAIN wire' \subseteq Nat
         /\ Head(wire) \in Reports /\ Head(wire) = wire[1]
         /\ 1 \in DOMAIN wire
         /\ \A i \in DOMAIN wire' :
              /\ i + 1 \in DOMAIN wire /\ 1 <= i + 1
              /\ wire'[i] = wire[i + 1]
<1>1. wire \in Seq(Reports) /\ Len(wire) \in Nat /\ DOMAIN wire = 1 .. Len(wire)
  BY WireType
<1>2. /\ Tail(wire) \in Seq(Reports) /\ Len(Tail(wire)) = Len(wire) - 1
      /\ \A i \in 1 .. Len(Tail(wire)) : Tail(wire)[i] = wire[i + 1]
      /\ Head(wire) \in Reports
  BY <1>1, HeadTailProperties
<1>3. Len(wire) # 0
  BY <1>1, EmptySeq
<1>4. DOMAIN wire' = 1 .. Len(wire')
  BY <1>2, LenProperties
<1> QED
  BY <1>1, <1>2, <1>3, <1>4

LEMMA WireAppend ==
  ASSUME TypeOK, NEW e \in Reports, wire' = Append(wire, e)
  PROVE  /\ wire' \in Seq(Reports) /\ Len(wire') = Len(wire) + 1
         /\ Len(wire) \in Nat
         /\ \A i \in DOMAIN wire : i \in Nat /\ wire'[i] = wire[i]
         /\ wire'[Len(wire) + 1] = e
         /\ \A i \in DOMAIN wire' :
              \/ i \in DOMAIN wire /\ i < Len(wire) + 1
              \/ i = Len(wire) + 1
<1>1. wire \in Seq(Reports) /\ Len(wire) \in Nat /\ DOMAIN wire = 1 .. Len(wire)
  BY WireType
<1>2. /\ Append(wire, e) \in Seq(Reports) /\ Len(Append(wire, e)) = Len(wire) + 1
      /\ \A i \in 1 .. Len(wire) : Append(wire, e)[i] = wire[i]
      /\ Append(wire, e)[Len(wire) + 1] = e
  BY <1>1, AppendProperties
<1>3. DOMAIN wire' = 1 .. Len(wire')
  BY <1>2, LenProperties
<1> QED
  BY <1>1, <1>2, <1>3

LEMMA WireAged ==
  ASSUME TypeOK, Tick
  PROVE  /\ wire' \in Seq(Reports) /\ Len(wire') = Len(wire)
         /\ DOMAIN wire' = DOMAIN wire
         /\ \A i \in DOMAIN wire :
              /\ wire'[i] = [wire[i] EXCEPT !.wait = @ + 1]
              /\ wire'[i].kind = wire[i].kind
              /\ wire'[i].boot = wire[i].boot
              /\ wire'[i].wait = wire[i].wait + 1
              /\ wire[i].kind = "encoder" =>
                   /\ wire'[i].position = wire[i].position
                   /\ wire'[i].turned = wire[i].turned
              /\ wire[i].kind = "status" =>
                   /\ wire'[i].uptime = wire[i].uptime
                   /\ wire'[i].host_mode = wire[i].host_mode
<1>1. /\ Len(wire) \in Nat /\ DOMAIN wire = 1 .. Len(wire)
      /\ \A i \in DOMAIN wire : wire[i] \in Reports
  BY WireType
<1>2. /\ wire' = [i \in DOMAIN wire |-> [wire[i] EXCEPT !.wait = @ + 1]]
      /\ \A i \in DOMAIN wire : wire[i].wait < MaxDelay
  BY DEF Tick
<1>3. \A i \in DOMAIN wire : [wire[i] EXCEPT !.wait = @ + 1] \in Reports
  BY <1>1, <1>2, AgedReport
<1>4. wire' \in Seq(Reports) /\ Len(wire') = Len(wire)
  BY <1>1, <1>2, <1>3
<1>5. ASSUME NEW i \in DOMAIN wire
      PROVE  /\ wire'[i].kind = wire[i].kind
             /\ wire'[i].boot = wire[i].boot
             /\ wire'[i].wait = wire[i].wait + 1
             /\ wire[i].kind = "encoder" =>
                  /\ wire'[i].position = wire[i].position
                  /\ wire'[i].turned = wire[i].turned
             /\ wire[i].kind = "status" =>
                  /\ wire'[i].uptime = wire[i].uptime
                  /\ wire'[i].host_mode = wire[i].host_mode
  <2>1. wire'[i] = [wire[i] EXCEPT !.wait = @ + 1] /\ wire[i] \in Reports
    BY <1>1, <1>2
  <2>2. CASE wire[i] \in EncoderReports
    BY <2>1, <2>2 DEF EncoderReports
  <2>3. CASE wire[i] \in StatusReports
    BY <2>1, <2>3 DEF StatusReports
  <2> QED
    BY <2>1, <2>2, <2>3 DEF Reports
<1> QED
  BY <1>1, <1>2, <1>4, <1>5

-----------------------------------------------------------------------------
(* Types. *)

LEMMA WrappedType ==
  ASSUME NEW n \in Counters, NEW s \in {-1, 0, 1}
  PROVE  Wrapped(n + s) \in Counters
BY OdometryAssumption DEF Wrapped, Counters

LEMMA AtRestType ==
  /\ AtRest \in [Wheels -> Counters] /\ AtRest \in [Wheels -> Int]
  /\ AtRest \in [Wheels -> -MaxPlausible .. MaxPlausible]
<1>1. 0 \in Counters /\ 0 \in -MaxPlausible .. MaxPlausible
  BY OdometryAssumption DEF Counters
<1> QED
  BY <1>1 DEF AtRest

LEMMA OlderType ==
  ASSUME NEW limit \in Nat, NEW age \in 0 .. limit
  PROVE  Older(age, limit) \in 0 .. limit
BY DEF Older

LEMMA InitType == Init => TypeOK
<1> SUFFICES ASSUME Init PROVE TypeOK
  OBVIOUS
<1>1. /\ FirstCounters \subseteq Counters
      /\ AtRest \in Travel /\ 0 \in 0 .. MaxResets /\ 0 \in 0 .. MaxDelay
      /\ StaleTimeout + 1 \in 0 .. StaleTimeout + 1
      /\ EnableGrace + StaleTimeout \in 0 .. EnableGrace + StaleTimeout
  BY OdometryAssumption DEF Counters
<1>2. wire \in Seq(EncoderReports \cup StatusReports) /\ Len(wire) <= MaxReports
  BY EmptySeq, OdometryAssumption DEF Init
<1>3. /\ counter \in [Wheels -> Counters] /\ uptime \in 0 .. MaxUptime
      /\ last_report \in [uptime : Nat, host_mode : BOOLEAN]
      /\ base \in [turned : [Wheels -> Int], boot : Nat]
  BY <1>1, AtRestType DEF Init
<1> QED
  BY <1>1, <1>2, <1>3, AtRestType DEF Init, TypeOK

(* What the controller sends of its counters is a report. *)
LEMMA PositionReport ==
  ASSUME TypeOK
  PROVE  [kind |-> "encoder", position |-> counter, turned |-> turned,
          boot |-> boot, wait |-> 0] \in Reports
<1>1. /\ counter \in [Wheels -> Counters] /\ turned \in [Wheels -> Int]
      /\ boot \in Nat /\ 0 \in 0 .. MaxDelay
  BY OdometryAssumption DEF TypeOK
<1> QED
  BY <1>1 DEF Reports, EncoderReports

LEMMA StepType == TypeOK /\ [Next]_vars => TypeOK'
<1> SUFFICES ASSUME TypeOK, [Next]_vars PROVE TypeOK'
  OBVIOUS
<1>1. CASE UNCHANGED vars
  BY <1>1 DEF TypeOK, vars, controller, bus, gate, monitor, odometry, history
<1>2. CASE WheelTurns
  <2>1. PICK w \in Wheels, step \in {-1, 1} :
          /\ turned' \in Travel
          /\ counter' = [counter EXCEPT
                           ![w] = Wrapped(@ + MotorValueToWheel(w, step))]
    BY <1>2 DEF WheelTurns
  <2>2. MotorValueToWheel(w, step) \in {-1, 0, 1}
    BY DEF MotorValueToWheel
  <2>3. counter \in [Wheels -> Counters]
    BY DEF TypeOK
  <2>4. Wrapped(counter[w] + MotorValueToWheel(w, step)) \in Counters
    BY <2>2, <2>3, WrappedType
  <2>5. counter' \in [Wheels -> Counters]
    BY <2>1, <2>3, <2>4
  <2> QED
    BY <1>2, <2>1, <2>5
    DEF WheelTurns, TypeOK, bus, gate, monitor, odometry, history
<1>3. ASSUME NEW e \in Reports, Report(e) PROVE TypeOK'
  <2>1. wire' \in Seq(Reports) /\ Len(wire') <= MaxReports
    BY <1>3, WireAppend, OdometryAssumption DEF Report
  <2> QED
    BY <1>3, <2>1 DEF Report, TypeOK, Reports, controller, gate, monitor,
                      odometry, history
<1>4. CASE ControllerReportsPosition
  <2>1. [kind |-> "encoder", position |-> counter, turned |-> turned,
         boot |-> boot, wait |-> 0] \in Reports
    BY PositionReport
  <2> QED
    BY <1>3, <1>4, <2>1 DEF ControllerReportsPosition
<1>5. CASE ControllerReportsStatus
  <2>1. [kind |-> "status", uptime |-> uptime, host_mode |-> host_mode,
         boot |-> boot, wait |-> 0] \in Reports
    BY OdometryAssumption DEF TypeOK, Reports, StatusReports
  <2> QED
    BY <1>3, <1>5, <2>1 DEF ControllerReportsStatus
<1>6. CASE ControllerEnables
  <2>1. enable_boot' \in Nat
    BY <1>6, OdometryAssumption DEF ControllerEnables, TypeOK
  <2> QED
    BY <1>6, <2>1 DEF ControllerEnables, TypeOK, gate, monitor, odometry
<1>7. CASE ControllerResets
  <2>1. boot' \in 0 .. MaxResets /\ 0 \in 0 .. MaxUptime
        /\ counter' \in [Wheels -> Counters]
    BY <1>7, OdometryAssumption, AtRestType DEF ControllerResets, TypeOK
  <2>2. enable_sent' \in BOOLEAN
    BY <1>7 DEF ControllerResets, TypeOK
  <2> QED
    BY <1>7, <2>1, <2>2
    DEF ControllerResets, TypeOK, gate, monitor, odometry, history
<1>8. CASE ReportsLost
  <2>1. /\ wire' \in Seq(Reports) /\ Len(wire') <= Len(wire)
        /\ Len(wire') \in Nat /\ Len(wire) \in Nat
    BY <1>8, WireTail, WireType DEF ReportsLost
  <2>2. Len(wire') <= MaxReports
    BY <2>1, OdometryAssumption DEF TypeOK
  <2> QED
    BY <1>8, <2>1, <2>2
    DEF ReportsLost, TypeOK, Reports, controller, gate, monitor, odometry, history
<1>9. CASE EnableMotors
  BY <1>9, OdometryAssumption
  DEF EnableMotors, TypeOK, controller, monitor, odometry, history
<1>10. CASE SafetyStop
  BY <1>10 DEF SafetyStop, TypeOK, controller, bus, monitor, odometry, history
<1>11. CASE HandleEncoder
  <2> DEFINE report == Head(wire)
  <2>1. /\ wire' \in Seq(Reports) /\ Len(wire') <= Len(wire)
        /\ Len(wire') \in Nat /\ Len(wire) \in Nat
        /\ report \in EncoderReports
    BY <1>11, WireTail, WireType, ReportKinds DEF HandleEncoder
  <2>2. Len(wire') <= MaxReports
    BY <2>1, OdometryAssumption DEF TypeOK
  <2>3. /\ previous' = report.position /\ previous' \in [Wheels -> Counters]
        /\ base' = [turned |-> report.turned, boot |-> report.boot]
    BY <1>11, <2>1 DEF HandleEncoder, UpdateEncoderOdometry, EncoderReports
  <2>4. base' \in [turned : [Wheels -> Int], boot : Nat]
    BY <2>1, <2>3 DEF EncoderReports
  <2>5. /\ increment' \in [Wheels -> -MaxPlausible .. MaxPlausible]
        /\ motion_commands_enabled' \in BOOLEAN /\ encoder_initialized' \in BOOLEAN
    <3>1. AtRest \in [Wheels -> -MaxPlausible .. MaxPlausible]
      BY AtRestType
    <3>2. CASE ~encoder_initialized
      BY <1>11, <3>1, <3>2
      DEF HandleEncoder, UpdateEncoderOdometry, TakesBaseline, TypeOK
    <3>3. CASE encoder_initialized
      <4> DEFINE delta == WheelDelta(report)
      <4>1. Integrates(delta) /\ UNCHANGED encoder_initialized
        BY <1>11, <3>3 DEF HandleEncoder, UpdateEncoderOdometry
      <4>2. BothPlausible(delta) =>
              delta \in [Wheels -> -MaxPlausible .. MaxPlausible]
        BY DEF WheelDelta, BothPlausible, Plausible
      <4> HIDE DEF delta
      <4> QED
        BY <3>1, <4>1, <4>2 DEF Integrates, TypeOK
    <3> QED
      BY <3>2, <3>3
  <2> QED
    BY <1>11, <2>1, <2>2, <2>3, <2>4, <2>5
    DEF HandleEncoder, TypeOK, Reports, controller, monitor
<1>12. CASE HandleStatus
  <2> DEFINE report == Head(wire)
  <2>1. /\ wire' \in Seq(Reports) /\ Len(wire') <= Len(wire)
        /\ Len(wire') \in Nat /\ Len(wire) \in Nat
        /\ report \in StatusReports
    BY <1>12, WireTail, WireType, ReportKinds DEF HandleStatus
  <2>2. Len(wire') <= MaxReports
    BY <2>1, OdometryAssumption DEF TypeOK
  <2>3. /\ last_report' \in [uptime : Nat, host_mode : BOOLEAN]
        /\ status_boot' \in Nat
    BY <1>12, <2>1 DEF HandleStatus, HandleMcuStatus, StatusReports
  <2>4. /\ motion_commands_enabled' \in BOOLEAN /\ encoder_initialized' \in BOOLEAN
        /\ supported' \in BOOLEAN /\ seen_age' \in 0 .. StaleTimeout + 1
    <3>1. 0 \in 0 .. StaleTimeout + 1
      BY OdometryAssumption
    <3>2. \/ RaiseAlarm
          \/ UNCHANGED <<motion_commands_enabled, encoder_initialized>>
      BY <1>12 DEF HandleStatus, HandleMcuStatus
    <3>3. supported' = TRUE /\ seen_age' = 0
      BY <1>12 DEF HandleStatus, HandleMcuStatus
    <3> QED
      BY <3>1, <3>2, <3>3 DEF RaiseAlarm, TypeOK
  <2>5. unnoticed' \in BOOLEAN
    BY <1>12 DEF HandleStatus
  <2> QED
    BY <1>12, <2>1, <2>2, <2>3, <2>4, <2>5
    DEF HandleStatus, TypeOK, Reports, controller
<1>13. CASE Tick
  <2>1. wire' \in Seq(Reports) /\ Len(wire') = Len(wire)
    BY <1>13, WireAged
  <2>2. /\ enable_wait' \in 0 .. MaxDelay
        /\ uptime' \in 0 .. MaxUptime
        /\ enabled_age' \in 0 .. EnableGrace + StaleTimeout
        /\ seen_age' \in 0 .. StaleTimeout + 1
    <3>1. /\ MaxUptime \in Nat /\ EnableGrace + StaleTimeout \in Nat
          /\ StaleTimeout + 1 \in Nat /\ MaxDelay \in Nat
      BY OdometryAssumption
    <3>2. enable_wait' \in 0 .. MaxDelay
      <4>1. (enable_sent => enable_wait < MaxDelay)
            /\ enable_wait' = IF enable_sent THEN enable_wait + 1 ELSE 0
        BY <1>13 DEF Tick
      <4>2. enable_wait \in 0 .. MaxDelay
        BY DEF TypeOK
      <4> QED
        BY <3>1, <4>1, <4>2
    <3>3. uptime' \in 0 .. MaxUptime
      BY <1>13, <3>1, OlderType DEF Tick, TypeOK
    <3>4. enabled_age' \in 0 .. EnableGrace + StaleTimeout
      BY <1>13, <3>1, OlderType DEF Tick, TypeOK
    <3>5. seen_age' \in 0 .. StaleTimeout + 1
      BY <1>13, <3>1, OlderType DEF Tick, TypeOK
    <3> QED
      BY <3>2, <3>3, <3>4, <3>5
  <2> QED
    BY <1>13, <2>1, <2>2 DEF Tick, TypeOK, Reports, odometry, history
<1> QED
  BY <1>1, <1>2, <1>4, <1>5, <1>6, <1>7, <1>8, <1>9, <1>10, <1>11, <1>12, <1>13
  DEF Next, Controller, MotorControlNode

(* Every value the two report paths keep has its type. *)
THEOREM TypeCorrect == Spec => []TypeOK
BY InitType, StepType, PTL DEF Spec

-----------------------------------------------------------------------------
LEMMA AgesApart ==
  ASSUME NEW older \in Nat, NEW next \in Nat, NEW younger \in Nat,
         NEW grace \in Nat, next <= older + 1, next - (younger + 1) >= grace
  PROVE  older - younger >= grace
OBVIOUS

(* An open gate is backed by the controller: the property is inductive.     *)
LEMMA StepBacked ==
  TypeOK /\ OpenGateIsBacked /\ [Next]_vars => OpenGateIsBacked'
<1> SUFFICES ASSUME TypeOK, OpenGateIsBacked, [Next]_vars
             PROVE  OpenGateIsBacked'
  OBVIOUS
<1>1. CASE UNCHANGED <<monitor, enabled_age>>
           /\ motion_commands_enabled' \in {motion_commands_enabled, FALSE}
  BY <1>1 DEF OpenGateIsBacked, Stale, monitor
<1>2. CASE EnableMotors
  <2>1. enabled_age' = 0 /\ seen_age' = seen_age /\ seen_age \in Nat
    BY <1>2 DEF EnableMotors, monitor, TypeOK
  <2>2. ~(enabled_age' - seen_age' >= EnableGrace)
    BY <2>1, OdometryAssumption
  <2> QED
    BY <2>2 DEF OpenGateIsBacked
<1>3. CASE HandleStatus
  <2> DEFINE report == Head(wire)
  <2>1. /\ last_report' = [uptime |-> report.uptime,
                           host_mode |-> report.host_mode]
        /\ seen_age' = 0 /\ enabled_age' = enabled_age
        /\ IF Observed(report) \in Alarms
           THEN motion_commands_enabled' = FALSE
           ELSE UNCHANGED motion_commands_enabled
    BY <1>3 DEF HandleStatus, HandleMcuStatus, RaiseAlarm
  <2>2. SUFFICES ASSUME motion_commands_enabled', enabled_age - 0 >= EnableGrace
                 PROVE  last_report'.host_mode
    BY <2>1 DEF OpenGateIsBacked
  <2>3. motion_commands_enabled /\ Observed(report) \notin Alarms
    BY <2>1, <2>2
  <2>4. enabled_age >= EnableGrace
    BY <2>2, OdometryAssumption DEF TypeOK
  <2>5. report.host_mode
    BY <2>3, <2>4 DEF Observed, Alarms
  <2> QED
    BY <2>1, <2>5
<1>4. CASE Tick
  <2>1. /\ enabled_age' = Older(enabled_age, EnableGrace + StaleTimeout)
        /\ seen_age' = Older(seen_age, StaleTimeout + 1)
        /\ UNCHANGED <<motion_commands_enabled, supported, last_report>>
    BY <1>4 DEF Tick
  <2>2. /\ enabled_age \in Nat /\ seen_age \in Nat /\ enabled_age' \in Nat
        /\ StaleTimeout \in Nat /\ EnableGrace \in Nat
        /\ enabled_age' <= enabled_age + 1
    BY <2>1, OdometryAssumption DEF TypeOK, Older
  <2>3. ~Stale' /\ supported => seen_age' = seen_age + 1 /\ ~Stale
    BY <2>1, <2>2 DEF Stale, Older
  <2>4. SUFFICES ASSUME motion_commands_enabled, supported, ~Stale',
                        enabled_age' - seen_age' >= EnableGrace
                 PROVE  last_report.host_mode
    BY <2>1 DEF OpenGateIsBacked
  <2>5. enabled_age - seen_age >= EnableGrace
    <3>1. seen_age' = seen_age + 1
      BY <2>3, <2>4
    <3>2. enabled_age' - (seen_age + 1) >= EnableGrace
      BY <2>4, <3>1
    <3> QED
      BY <2>2, <3>2, AgesApart
  <2> QED
    BY <2>3, <2>4, <2>5 DEF OpenGateIsBacked
<1>5. CASE WheelTurns \/ ControllerReportsPosition \/ ControllerReportsStatus
           \/ ControllerEnables \/ ControllerResets \/ ReportsLost \/ SafetyStop
  BY <1>1, <1>5
  DEF WheelTurns, ControllerReportsPosition, ControllerReportsStatus, Report,
      ControllerEnables, ControllerResets, ReportsLost, SafetyStop, gate
<1>6. CASE HandleEncoder
  <2>1. motion_commands_enabled' \in {motion_commands_enabled, FALSE}
    BY <1>6 DEF HandleEncoder, UpdateEncoderOdometry, TakesBaseline, Integrates
  <2> QED
    BY <1>1, <1>6, <2>1 DEF HandleEncoder
<1>7. CASE UNCHANGED vars
  BY <1>1, <1>7 DEF vars, gate
<1> QED
  BY <1>2, <1>3, <1>4, <1>5, <1>6, <1>7 DEF Next, Controller, MotorControlNode

(* Once the gate is open for the grace period, every status that came since *)
(* and is not stale says host mode.                                         *)
THEOREM GateIsBacked == Spec => []OpenGateIsBacked
<1>1. Init => OpenGateIsBacked
  BY DEF Init, OpenGateIsBacked
<1> QED
  BY <1>1, StepBacked, TypeCorrect, PTL DEF Spec

-----------------------------------------------------------------------------
(* The controller's lives, in the order of their reports.                   *)

Ordered ==
  /\ status_boot <= boot /\ base.boot <= boot /\ enable_boot <= boot
  /\ \A i \in DOMAIN wire :
       /\ status_boot <= wire[i].boot /\ base.boot <= wire[i].boot
       /\ wire[i].boot <= boot
  /\ \A i, j \in DOMAIN wire : i <= j => wire[i].boot <= wire[j].boot

(* A baseline is not older than the last status, unless that status came    *)
(* from another life of the controller without an alarm.                    *)
BaselineInv == encoder_initialized /\ ~unnoticed => status_boot <= base.boot

LEMMA StepOrdered == TypeOK /\ Ordered /\ [Next]_vars => Ordered'
<1> SUFFICES ASSUME TypeOK, Ordered, [Next]_vars PROVE Ordered'
  OBVIOUS
<1>1. /\ boot \in Nat /\ status_boot \in Nat /\ base.boot \in Nat
      /\ enable_boot \in Nat
      /\ \A i \in DOMAIN wire : wire[i].boot \in Nat
  BY WireType, ReportKinds, OdometryAssumption DEF TypeOK
<1>2. CASE UNCHANGED <<wire, boot, status_boot, base, enable_boot>>
  BY <1>2 DEF Ordered
<1>3. ASSUME NEW e \in Reports, Report(e), e.boot = boot PROVE Ordered'
  <2>1. UNCHANGED <<boot, status_boot, base, enable_boot>>
    BY <1>3 DEF Report, controller, history
  <2>2. /\ \A i \in DOMAIN wire : i \in Nat /\ wire'[i] = wire[i]
        /\ wire'[Len(wire) + 1] = e
        /\ Len(wire) \in Nat
        /\ \A i \in DOMAIN wire' :
             \/ i \in DOMAIN wire /\ i < Len(wire) + 1
             \/ i = Len(wire) + 1
    BY <1>3, WireAppend DEF Report
  <2> QED
    BY <1>1, <1>3, <2>1, <2>2 DEF Ordered
<1>4. CASE ControllerReportsPosition
  <2>1. [kind |-> "encoder", position |-> counter, turned |-> turned,
         boot |-> boot, wait |-> 0] \in Reports
    BY PositionReport
  <2> QED
    BY <1>3, <1>4, <2>1 DEF ControllerReportsPosition
<1>5. CASE ControllerReportsStatus
  <2>1. [kind |-> "status", uptime |-> uptime, host_mode |-> host_mode,
         boot |-> boot, wait |-> 0] \in Reports
    BY OdometryAssumption DEF TypeOK, Reports, StatusReports
  <2> QED
    BY <1>3, <1>5, <2>1 DEF ControllerReportsStatus
<1>6. CASE ControllerEnables
  BY <1>1, <1>6 DEF ControllerEnables, Ordered
<1>7. CASE ControllerResets
  BY <1>1, <1>7 DEF ControllerResets, Ordered, history
<1>8. ASSUME wire # <<>>, wire' = Tail(wire), UNCHANGED <<boot, enable_boot>>,
             \/ UNCHANGED <<status_boot, base>>
             \/ status_boot' = Head(wire).boot /\ UNCHANGED base
             \/ base'.boot = Head(wire).boot /\ UNCHANGED status_boot
      PROVE  Ordered'
  <2>1. /\ DOMAIN wire' \subseteq Nat
        /\ Head(wire) = wire[1] /\ 1 \in DOMAIN wire
        /\ \A i \in DOMAIN wire' :
             i + 1 \in DOMAIN wire /\ 1 <= i + 1 /\ wire'[i] = wire[i + 1]
    BY <1>8, WireTail
  <2>2. \A i, j \in DOMAIN wire' : i <= j => i + 1 <= j + 1
    BY <2>1
  <2> QED
    BY <1>1, <1>8, <2>1, <2>2 DEF Ordered
<1>9. CASE ReportsLost
  BY <1>8, <1>9 DEF ReportsLost, controller, history
<1>10. CASE HandleEncoder
  <2>1. base'.boot = Head(wire).boot
    BY <1>10 DEF HandleEncoder, UpdateEncoderOdometry
  <2> QED
    BY <1>8, <1>10, <2>1 DEF HandleEncoder, controller
<1>11. CASE HandleStatus
  BY <1>8, <1>11 DEF HandleStatus, controller
<1>12. CASE Tick
  <2>1. UNCHANGED <<boot, status_boot, base, enable_boot>>
    BY <1>12 DEF Tick, history
  <2>2. /\ DOMAIN wire' = DOMAIN wire
        /\ \A i \in DOMAIN wire : wire'[i].boot = wire[i].boot
    BY <1>12, WireAged
  <2> QED
    BY <2>1, <2>2 DEF Ordered
<1>13. CASE WheelTurns \/ EnableMotors \/ SafetyStop
  BY <1>2, <1>13 DEF WheelTurns, EnableMotors, SafetyStop, controller, bus, history
<1>14. CASE UNCHANGED vars
  BY <1>2, <1>14 DEF vars, controller, bus, history
<1> QED
  BY <1>4, <1>5, <1>6, <1>7, <1>9, <1>10, <1>11, <1>12, <1>13, <1>14
  DEF Next, Controller, MotorControlNode

LEMMA InitOrdered == Init => Ordered /\ BaselineInv
<1> SUFFICES ASSUME Init PROVE Ordered /\ BaselineInv
  OBVIOUS
<1>1. DOMAIN wire = {}
  BY DEF Init
<1> QED
  BY <1>1 DEF Init, Ordered, BaselineInv

LEMMA StepBaseline ==
  TypeOK /\ Ordered /\ BaselineInv /\ [Next]_vars => BaselineInv'
<1> SUFFICES ASSUME TypeOK, Ordered, BaselineInv, [Next]_vars
             PROVE  BaselineInv'
  OBVIOUS
<1>1. CASE UNCHANGED <<encoder_initialized, unnoticed, status_boot, base>>
  BY <1>1 DEF BaselineInv
<1>2. CASE HandleEncoder
  <2>1. /\ base'.boot = Head(wire).boot
        /\ UNCHANGED <<status_boot, unnoticed>> /\ wire' = Tail(wire)
        /\ wire # <<>>
    BY <1>2 DEF HandleEncoder, UpdateEncoderOdometry
  <2>2. Head(wire) = wire[1] /\ 1 \in DOMAIN wire
    BY <2>1, WireTail
  <2> QED
    BY <2>1, <2>2 DEF Ordered, BaselineInv
<1>3. CASE HandleStatus
  <2>1. CASE Observed(Head(wire)) \in Alarms
    BY <1>3, <2>1 DEF HandleStatus, HandleMcuStatus, RaiseAlarm, BaselineInv
  <2>2. CASE Observed(Head(wire)) \notin Alarms
    BY <1>3, <2>2 DEF HandleStatus, HandleMcuStatus, BaselineInv
  <2> QED
    BY <2>1, <2>2
<1>4. CASE \/ WheelTurns \/ ControllerReportsPosition \/ ControllerReportsStatus
           \/ ControllerEnables \/ ControllerResets \/ ReportsLost
           \/ EnableMotors \/ SafetyStop \/ Tick \/ UNCHANGED vars
  BY <1>1, <1>4
  DEF WheelTurns, ControllerReportsPosition, ControllerReportsStatus, Report,
      ControllerEnables, ControllerResets, ReportsLost, EnableMotors,
      SafetyStop, Tick, vars, odometry, history
<1> QED
  BY <1>2, <1>3, <1>4 DEF Next, Controller, MotorControlNode

(* A restart of the counter is integrated only while no status has told the *)
(* new life of the controller from the old one.                             *)
THEOREM RestartUnannounced == Spec => RestartIntegratedOnlyUnannounced
<1>1. TypeOK /\ Ordered /\ BaselineInv =>
        [IntegratesReport /\ base'.boot # base.boot
           => status_boot # base'.boot \/ unnoticed]_vars
  <2> SUFFICES ASSUME TypeOK, Ordered, BaselineInv, IntegratesReport,
                      base'.boot # base.boot, ~unnoticed
               PROVE  status_boot # base'.boot
    OBVIOUS
  <2>1. /\ wire # <<>> /\ wire' = Tail(wire) /\ base'.boot = Head(wire).boot
        /\ encoder_initialized
    BY DEF IntegratesReport, HandleEncoder, UpdateEncoderOdometry
  <2>2. Head(wire) = wire[1] /\ 1 \in DOMAIN wire /\ wire[1].boot \in Nat
    BY <2>1, WireTail, ReportKinds
  <2>3. status_boot <= base.boot /\ base.boot <= base'.boot
    BY <2>1, <2>2 DEF BaselineInv, Ordered
  <2>4. status_boot \in Nat /\ base.boot \in Nat /\ base'.boot \in Nat
    BY <2>1, <2>2 DEF TypeOK
  <2> QED
    BY <2>3, <2>4
<1> QED
  BY <1>1, TypeCorrect, InitOrdered, StepOrdered, StepBaseline, PTL
  DEF Spec, RestartIntegratedOnlyUnannounced

-----------------------------------------------------------------------------
(* The counter and the wheel, modulo the range of the counter.              *)

(* Between counter values q and p wheel w turned from u to t.               *)
Agrees(w, p, t, q, u) ==
  \E k \in Int : p - q = MotorValueToWheel(w, t - u) + k * (2 * CounterHalf)

(* Between two reports, or a report and the present, each wheel did.        *)
BothAgree(p, t, q, u) == \A w \in Wheels : Agrees(w, p[w], t[w], q[w], u[w])

IsEncoder(i) == wire[i].kind = "encoder"

CounterInv ==
  /\ encoder_initialized /\ base.boot = boot
       => BothAgree(counter, turned, previous, base.turned)
  /\ \A i \in DOMAIN wire : IsEncoder(i) /\ wire[i].boot = boot
       => BothAgree(counter, turned, wire[i].position, wire[i].turned)

WireInv ==
  /\ \A i \in DOMAIN wire :
       encoder_initialized /\ IsEncoder(i) /\ wire[i].boot = base.boot
         => BothAgree(wire[i].position, wire[i].turned, previous, base.turned)
  /\ \A i, j \in DOMAIN wire :
       i <= j /\ IsEncoder(i) /\ IsEncoder(j) /\ wire[i].boot = wire[j].boot
         => BothAgree(wire[j].position, wire[j].turned,
                      wire[i].position, wire[i].turned)

LEMMA NoMultiple ==
  ASSUME NEW k \in Int, NEW n \in Nat \ {0}, -n < k * n, k * n < n
  PROVE  k = 0
<1>1. k >= 1 => k * n >= n
  <2>1. k >= 1 => (k - 1) * n >= 0
    OBVIOUS
  <2> QED
    BY <2>1
<1>2. k <= -1 => k * n <= -n
  <2>1. k <= -1 => (k + 1) * n <= 0
    OBVIOUS
  <2> QED
    BY <2>1
<1> QED
  BY <1>1, <1>2

LEMMA AgreesReflexive ==
  ASSUME NEW w \in Wheels, NEW p \in Int, NEW t \in Int
  PROVE  Agrees(w, p, t, p, t)
<1>1. p - p = MotorValueToWheel(w, t - t) + 0 * (2 * CounterHalf)
  BY OdometryAssumption DEF MotorValueToWheel
<1> QED
  BY <1>1 DEF Agrees

LEMMA AgreesAfterTurn ==
  ASSUME NEW w \in Wheels, NEW p \in Counters, NEW t \in Int, NEW q \in Int, NEW u \in Int,
         NEW step \in {-1, 1}, Agrees(w, p, t, q, u)
  PROVE  Agrees(w, Wrapped(p + MotorValueToWheel(w, step)), t + step, q, u)
<1> DEFINE n == 2 * CounterHalf
           m == p + MotorValueToWheel(w, step)
<1>1. PICK k \in Int : p - q = MotorValueToWheel(w, t - u) + k * n
  BY DEF Agrees
<1>2. n \in Nat /\ p \in Int /\ m \in Int
  BY OdometryAssumption DEF Counters, MotorValueToWheel
<1>3. /\ MotorValueToWheel(w, t + step - u)
           = MotorValueToWheel(w, t - u) + MotorValueToWheel(w, step)
      /\ MotorValueToWheel(w, step) \in Int /\ MotorValueToWheel(w, t - u) \in Int
  BY DEF MotorValueToWheel
<1>4. m - q = MotorValueToWheel(w, t + step - u) + k * n
  <2>1. k * n \in Int
    BY <1>2
  <2> QED
    BY <1>1, <1>2, <1>3, <2>1
<1>5. PICK j \in {-1, 0, 1} : Wrapped(m) = m + j * n
  BY <1>2, OdometryAssumption DEF Wrapped
<1>6. Wrapped(m) - q = MotorValueToWheel(w, t + step - u) + (k + j) * n
  <2>1. (k + j) * n = k * n + j * n /\ k * n \in Int /\ j * n \in Int
    BY <1>2
  <2>2. MotorValueToWheel(w, t + step - u) \in Int
    BY DEF MotorValueToWheel
  <2> HIDE DEF m, n
  <2> QED
    BY <1>2, <1>4, <1>5, <2>1, <2>2
<1> QED
  BY <1>6 DEF Agrees

(* What the node computes of two positions is what the wheel turned, unless *)
(* the turn is so long that its counts could be those of a plausible one.   *)
LEMMA WrappedDeltaIsTurn ==
  ASSUME NEW w \in Wheels, NEW p \in Counters, NEW q \in Counters,
         NEW t \in Int, NEW u \in Int, Agrees(w, p, t, q, u), ~MayAlias(t - u),
         \/ Plausible(t - u)
         \/ Plausible(MotorValueToWheel(w, WrappedEncoderDelta(p, q)))
  PROVE  MotorValueToWheel(w, WrappedEncoderDelta(p, q)) = t - u
<1> DEFINE n == 2 * CounterHalf
           d == WrappedEncoderDelta(p, q)
           m == MotorValueToWheel(w, t - u)
<1>1. PICK k \in Int : p - q = m + k * n
  BY DEF Agrees
<1>2. n \in Nat \ {0} /\ p \in Int /\ q \in Int
  BY OdometryAssumption DEF Counters
<1>3. /\ d \in -CounterHalf .. CounterHalf - 1
      /\ d = p - q - n \/ d = p - q \/ d = p - q + n
  BY OdometryAssumption DEF Counters, WrappedEncoderDelta, RawDelta
<1>4. m \in Int /\ m < n - MaxPlausible /\ m > MaxPlausible - n
      /\ (m \in -MaxPlausible .. MaxPlausible
           \/ d \in -MaxPlausible .. MaxPlausible)
  <2>1. /\ t - u \in Int /\ t - u < n - MaxPlausible
        /\ t - u > MaxPlausible - n
    BY OdometryAssumption DEF MayAlias
  <2>2. m = t - u \/ m = -(t - u)
    BY DEF MotorValueToWheel
  <2>3. m \in Int /\ m < n - MaxPlausible /\ m > MaxPlausible - n
    <3> HIDE DEF m, n
    <3> QED
      BY <1>2, <2>1, <2>2, OdometryAssumption
  <2>4. Plausible(t - u) => m \in -MaxPlausible .. MaxPlausible
    BY OdometryAssumption DEF Plausible, MotorValueToWheel
  <2>5. Plausible(MotorValueToWheel(w, d)) => d \in -MaxPlausible .. MaxPlausible
    <3> HIDE DEF d
    <3> QED
      BY <1>3, OdometryAssumption DEF Plausible, MotorValueToWheel
  <2> QED
    BY <2>3, <2>4, <2>5
<1>5. PICK j \in {-1, 0, 1} : d = p - q + j * n
  BY <1>2, <1>3
<1>6. d = m + (k + j) * n
  <2>1. (k + j) * n = k * n + j * n /\ k * n \in Int /\ j * n \in Int
    BY <1>2
  <2> HIDE DEF m, n, d
  <2> QED
    BY <1>1, <1>2, <1>4, <1>5, <2>1, OdometryAssumption
<1>7. (k + j) * n > -n /\ (k + j) * n < n
  <2>1. (k + j) * n = d - m
    <3>1. (k + j) * n \in Int
      BY <1>2
    <3> HIDE DEF m, n, d
    <3> QED
      BY <1>3, <1>4, <1>6, <3>1, OdometryAssumption
  <2>2. d - m > -n /\ d - m < n
    <3> HIDE DEF m, d
    <3> QED
      BY <1>3, <1>4, OdometryAssumption
  <2> QED
    BY <2>1, <2>2
<1>8. k + j = 0
  <2> HIDE DEF n
  <2> QED
    BY <1>2, <1>7, NoMultiple
<1>9. d = m
  <2>1. (k + j) * n = 0
    BY <1>2, <1>8
  <2> HIDE DEF m, n, d
  <2> QED
    BY <1>4, <1>6, <2>1
<1> QED
  BY <1>9 DEF MotorValueToWheel

LEMMA InitAgrees == Init => CounterInv /\ WireInv
<1> SUFFICES ASSUME Init PROVE CounterInv /\ WireInv
  OBVIOUS
<1>1. DOMAIN wire = {}
  BY DEF Init
<1> QED
  BY <1>1 DEF Init, CounterInv, WireInv

LEMMA EncoderFields ==
  ASSUME TypeOK
  PROVE  /\ counter \in [Wheels -> Counters] /\ turned \in [Wheels -> Int]
         /\ previous \in [Wheels -> Counters] /\ base.turned \in [Wheels -> Int]
         /\ boot \in Nat /\ base.boot \in Nat
         /\ \A i \in DOMAIN wire :
              /\ wire[i].boot \in Nat
              /\ IsEncoder(i) => wire[i].position \in [Wheels -> Counters]
                                 /\ wire[i].turned \in [Wheels -> Int]
         /\ Counters \subseteq Int
<1>1. Counters \subseteq Int
  BY OdometryAssumption DEF Counters
<1>2. \A i \in DOMAIN wire : wire[i].boot \in Nat
  BY WireType, ReportKinds
<1>3. \A i \in DOMAIN wire : IsEncoder(i) => wire[i] \in EncoderReports
  BY WireType, ReportKinds DEF IsEncoder
<1>4. turned \in [Wheels -> Int] /\ boot \in Nat
  BY OdometryAssumption DEF TypeOK
<1> QED
  BY <1>1, <1>2, <1>3, <1>4 DEF TypeOK, EncoderReports

(* A turn of one wheel is a turn of its counter, and of nothing else.       *)
LEMMA BothAgreeAfterTurn ==
  ASSUME TypeOK, WheelTurns,
         NEW q \in [Wheels -> Counters], NEW u \in [Wheels -> Int],
         BothAgree(counter, turned, q, u)
  PROVE  BothAgree(counter', turned', q, u)
<1>1. PICK w \in Wheels, step \in {-1, 1} :
        /\ turned' = [turned EXCEPT ![w] = @ + step]
        /\ counter' = [counter EXCEPT
                         ![w] = Wrapped(@ + MotorValueToWheel(w, step))]
  BY DEF WheelTurns
<1>2. counter \in [Wheels -> Counters] /\ turned \in [Wheels -> Int]
      /\ Counters \subseteq Int
  BY EncoderFields
<1> SUFFICES ASSUME NEW v \in Wheels
             PROVE  Agrees(v, counter'[v], turned'[v], q[v], u[v])
  BY DEF BothAgree
<1>3. Agrees(v, counter[v], turned[v], q[v], u[v])
  BY DEF BothAgree
<1>4. CASE v = w
  <2>1. /\ counter'[v] = Wrapped(counter[v] + MotorValueToWheel(v, step))
        /\ turned'[v] = turned[v] + step
    BY <1>1, <1>2, <1>4
  <2>2. counter[v] \in Counters /\ turned[v] \in Int /\ q[v] \in Int /\ u[v] \in Int
    BY <1>2
  <2> QED
    BY <1>3, <2>1, <2>2, AgreesAfterTurn
<1>5. CASE v # w
  <2>1. counter'[v] = counter[v] /\ turned'[v] = turned[v]
    BY <1>1, <1>2, <1>5
  <2> QED
    BY <1>3, <2>1
<1> QED
  BY <1>4, <1>5

LEMMA StepAgrees ==
  TypeOK /\ Ordered /\ CounterInv /\ WireInv /\ [Next]_vars
    => CounterInv' /\ WireInv'
<1> SUFFICES ASSUME TypeOK, Ordered, CounterInv, WireInv, [Next]_vars
             PROVE  CounterInv' /\ WireInv'
  OBVIOUS
<1>1. CASE UNCHANGED <<wire, counter, turned, boot, encoder_initialized,
                       previous, base>>
  BY <1>1 DEF CounterInv, WireInv, IsEncoder
<1>2. CASE WheelTurns
  <2>1. UNCHANGED <<wire, boot, encoder_initialized, previous, base>>
    BY <1>2 DEF WheelTurns, bus, odometry, history
  <2>2. \A q \in [Wheels -> Counters], u \in [Wheels -> Int] :
          BothAgree(counter, turned, q, u) => BothAgree(counter', turned', q, u)
    BY <1>2, BothAgreeAfterTurn
  <2>3. CounterInv'
    BY <2>1, <2>2, EncoderFields DEF CounterInv, IsEncoder
  <2>4. WireInv'
    BY <2>1 DEF WireInv, IsEncoder
  <2> QED
    BY <2>3, <2>4
<1>3. ASSUME NEW e \in Reports, Report(e), e.boot = boot,
             e.kind = "encoder" => e.position = counter /\ e.turned = turned
      PROVE  CounterInv' /\ WireInv'
  <2>1. UNCHANGED <<counter, turned, boot, encoder_initialized, previous, base>>
    BY <1>3 DEF Report, controller, odometry, history
  <2>2. /\ \A i \in DOMAIN wire : i \in Nat /\ wire'[i] = wire[i]
        /\ wire'[Len(wire) + 1] = e
        /\ Len(wire) \in Nat
        /\ \A i \in DOMAIN wire' :
             \/ i \in DOMAIN wire /\ i < Len(wire) + 1
             \/ i = Len(wire) + 1
    BY <1>3, WireAppend DEF Report
  <2>3. BothAgree(counter, turned, counter, turned)
    <3>1. \A w \in Wheels : counter[w] \in Int /\ turned[w] \in Int
      BY EncoderFields
    <3> QED
      BY <3>1, AgreesReflexive DEF BothAgree
  <2>4. CounterInv'
    BY <1>3, <2>1, <2>2, <2>3 DEF CounterInv, IsEncoder
  <2>5. ASSUME NEW i \in DOMAIN wire', encoder_initialized, IsEncoder(i)',
               wire'[i].boot = base.boot
        PROVE  BothAgree(wire'[i].position, wire'[i].turned, previous, base.turned)
    BY <1>3, <2>2, <2>5 DEF CounterInv, WireInv, IsEncoder
  <2>6. ASSUME NEW i \in DOMAIN wire', NEW j \in DOMAIN wire', i <= j,
               IsEncoder(i)', IsEncoder(j)', wire'[i].boot = wire'[j].boot
        PROVE  BothAgree(wire'[j].position, wire'[j].turned,
                      wire'[i].position, wire'[i].turned)
    <3>1. CASE j \in DOMAIN wire
      <4>1. i \in DOMAIN wire
        BY <2>2, <2>6, <3>1
      <4> QED
        BY <2>2, <2>6, <3>1, <4>1 DEF WireInv, IsEncoder
    <3>2. CASE j = Len(wire) + 1
      BY <1>3, <2>2, <2>3, <2>6, <3>2 DEF CounterInv, IsEncoder
    <3> QED
      BY <2>2, <3>1, <3>2
  <2>7. WireInv'
    BY <2>1, <2>5, <2>6 DEF WireInv
  <2> QED
    BY <2>4, <2>7
<1>4. CASE ControllerReportsPosition
  <2>1. [kind |-> "encoder", position |-> counter, turned |-> turned,
         boot |-> boot, wait |-> 0] \in Reports
    BY PositionReport
  <2> QED
    BY <1>3, <1>4, <2>1 DEF ControllerReportsPosition
<1>5. CASE ControllerReportsStatus
  <2>1. [kind |-> "status", uptime |-> uptime, host_mode |-> host_mode,
         boot |-> boot, wait |-> 0] \in Reports
    BY OdometryAssumption DEF TypeOK, Reports, StatusReports
  <2> QED
    BY <1>3, <1>5, <2>1 DEF ControllerReportsStatus
<1>6. CASE ControllerResets
  <2>1. boot' = boot + 1 /\ UNCHANGED <<wire, encoder_initialized, previous, base>>
    BY <1>6 DEF ControllerResets, odometry, history
  <2>2. base.boot # boot' /\ \A i \in DOMAIN wire : wire[i].boot # boot'
    BY <2>1, EncoderFields DEF Ordered
  <2> QED
    BY <2>1, <2>2 DEF CounterInv, WireInv, IsEncoder
<1>7. CASE ReportsLost \/ HandleStatus
  <2>1. /\ UNCHANGED <<counter, turned, boot, previous, base>>
        /\ wire # <<>> /\ wire' = Tail(wire)
        /\ encoder_initialized' => encoder_initialized
    BY <1>7
    DEF ReportsLost, HandleStatus, HandleMcuStatus, RaiseAlarm, controller,
        odometry, history
  <2>2. /\ DOMAIN wire' \subseteq Nat
        /\ \A i \in DOMAIN wire' : i + 1 \in DOMAIN wire /\ wire'[i] = wire[i + 1]
    BY <2>1, WireTail
  <2>3. \A i, j \in DOMAIN wire' : i <= j => i + 1 <= j + 1
    BY <2>2
  <2>4. CounterInv'
    BY <2>1, <2>2 DEF CounterInv, IsEncoder
  <2>5. WireInv'
    BY <2>1, <2>2, <2>3 DEF WireInv, IsEncoder
  <2> QED
    BY <2>4, <2>5
<1>8. CASE HandleEncoder
  <2>1. /\ UNCHANGED <<counter, turned, boot>>
        /\ wire # <<>> /\ wire' = Tail(wire) /\ Head(wire).kind = "encoder"
        /\ previous' = Head(wire).position
        /\ base'.turned = Head(wire).turned /\ base'.boot = Head(wire).boot
    BY <1>8 DEF HandleEncoder, UpdateEncoderOdometry, controller
  <2>2. /\ DOMAIN wire' \subseteq Nat
        /\ \A i \in DOMAIN wire' : i + 1 \in DOMAIN wire /\ 1 <= i + 1
                                   /\ wire'[i] = wire[i + 1]
        /\ Head(wire) = wire[1] /\ 1 \in DOMAIN wire
    BY <2>1, WireTail
  <2>3. \A i, j \in DOMAIN wire' : i <= j => i + 1 <= j + 1
    BY <2>2
  <2>4. CounterInv'
    BY <2>1, <2>2 DEF CounterInv, IsEncoder
  <2>5. ASSUME NEW i \in DOMAIN wire', IsEncoder(i)', wire'[i].boot = base'.boot
        PROVE  BothAgree(wire'[i].position, wire'[i].turned, previous', base'.turned)
    BY <2>1, <2>2, <2>5 DEF WireInv, IsEncoder
  <2>6. \A i, j \in DOMAIN wire' :
          i <= j /\ IsEncoder(i)' /\ IsEncoder(j)' /\ wire'[i].boot = wire'[j].boot
            => BothAgree(wire'[j].position, wire'[j].turned,
                      wire'[i].position, wire'[i].turned)
    BY <2>2, <2>3 DEF WireInv, IsEncoder
  <2>7. WireInv'
    BY <2>5, <2>6 DEF WireInv
  <2> QED
    BY <2>4, <2>7
<1>9. CASE Tick
  <2>1. UNCHANGED <<counter, turned, boot, encoder_initialized, previous, base>>
    BY <1>9 DEF Tick, odometry, history
  <2>2. /\ DOMAIN wire' = DOMAIN wire
        /\ \A i \in DOMAIN wire :
             /\ wire'[i].boot = wire[i].boot /\ wire'[i].kind = wire[i].kind
             /\ IsEncoder(i) => wire'[i].position = wire[i].position
                                /\ wire'[i].turned = wire[i].turned
    BY <1>9, WireAged DEF IsEncoder
  <2>3. CounterInv'
    BY <2>1, <2>2 DEF CounterInv, IsEncoder
  <2>4. WireInv'
    BY <2>1, <2>2 DEF WireInv, IsEncoder
  <2> QED
    BY <2>3, <2>4
<1>10. CASE \/ ControllerEnables \/ EnableMotors \/ SafetyStop
            \/ UNCHANGED vars
  BY <1>1, <1>10
  DEF ControllerEnables, EnableMotors, SafetyStop, vars, controller, bus,
      odometry, history
<1> QED
  BY <1>2, <1>4, <1>5, <1>6, <1>7, <1>8, <1>9, <1>10
  DEF Next, Controller, MotorControlNode

(* The odometry follows both wheels wherever their counters wrap, and       *)
(* leaves out what both turned when either turned too much.                 *)
THEOREM WrapInvisible == Spec => WrapIsInvisible
<1>1. TypeOK /\ TypeOK' /\ CounterInv /\ WireInv =>
        [HandleEncoder /\ encoder_initialized /\ base'.boot = base.boot
           /\ (\A w \in Wheels : ~MayAlias(TurnedSince[w]))
         => increment' = IF BothPlausible(TurnedSince) THEN TurnedSince
                                                       ELSE AtRest]_vars
  <2> SUFFICES ASSUME TypeOK, TypeOK', WireInv, HandleEncoder,
                      encoder_initialized, base'.boot = base.boot,
                      \A w \in Wheels : ~MayAlias(TurnedSince[w])
               PROVE  increment' = IF BothPlausible(TurnedSince)
                                   THEN TurnedSince ELSE AtRest
    OBVIOUS
  <2> DEFINE report == Head(wire)
             delta == WheelDelta(report)
  <2>1. /\ wire # <<>> /\ wire' = Tail(wire) /\ report.kind = "encoder"
        /\ base'.turned = report.turned /\ base'.boot = report.boot
        /\ Integrates(delta)
    BY DEF HandleEncoder, UpdateEncoderOdometry
  <2>2. report = wire[1] /\ 1 \in DOMAIN wire
    BY <2>1, WireTail
  <2>3. BothAgree(report.position, report.turned, previous, base.turned)
    BY <2>1, <2>2 DEF WireInv, IsEncoder
  <2>4. /\ report.position \in [Wheels -> Counters]
        /\ report.turned \in [Wheels -> Int]
        /\ previous \in [Wheels -> Counters] /\ base.turned \in [Wheels -> Int]
    BY <2>1, <2>2, EncoderFields DEF IsEncoder
  <2>5. /\ TurnedSince = [w \in Wheels |-> report.turned[w] - base.turned[w]]
        /\ delta = [w \in Wheels |-> MotorValueToWheel(
                      w, WrappedEncoderDelta(report.position[w], previous[w]))]
    BY <2>1 DEF TurnedSince, WheelDelta
  <2> HIDE DEF report, delta
  <2>6. ASSUME NEW w \in Wheels,
               Plausible(TurnedSince[w]) \/ Plausible(delta[w])
        PROVE  delta[w] = TurnedSince[w]
    <3>1. /\ report.position[w] \in Counters /\ previous[w] \in Counters
          /\ report.turned[w] \in Int /\ base.turned[w] \in Int
      BY <2>4
    <3>2. Agrees(w, report.position[w], report.turned[w], previous[w],
                 base.turned[w])
      BY <2>3 DEF BothAgree
    <3>3. /\ TurnedSince[w] = report.turned[w] - base.turned[w]
          /\ delta[w] = MotorValueToWheel(
                          w, WrappedEncoderDelta(report.position[w], previous[w]))
      BY <2>5
    <3>4. ~MayAlias(report.turned[w] - base.turned[w])
      BY <3>3
    <3> QED
      BY <2>6, <3>1, <3>2, <3>3, <3>4, WrappedDeltaIsTurn
  <2>7. CASE BothPlausible(delta)
    <3>1. delta = TurnedSince
      BY <2>5, <2>6, <2>7 DEF BothPlausible
    <3> QED
      BY <2>1, <2>7, <3>1 DEF Integrates
  <2>8. CASE ~BothPlausible(delta)
    <3>1. ~BothPlausible(TurnedSince)
      <4>1. PICK w \in Wheels : ~Plausible(delta[w])
        BY <2>8 DEF BothPlausible
      <4>2. ~Plausible(TurnedSince[w])
        BY <2>6, <4>1
      <4> QED
        BY <4>2 DEF BothPlausible
    <3> QED
      BY <2>1, <2>8, <3>1 DEF Integrates
  <2> QED
    BY <2>7, <2>8
<1> QED
  BY <1>1, TypeCorrect, InitOrdered, StepOrdered, InitAgrees, StepAgrees, PTL
  DEF Spec, WrapIsInvisible

-----------------------------------------------------------------------------
(* Alarms have a cause.                                                     *)

IsStatus(i) == wire[i].kind = "status"

(* Within one life the uptimes are reported in order.                       *)
UptimeInv ==
  /\ supported /\ status_boot = boot => last_report.uptime <= uptime
  /\ \A i \in DOMAIN wire : IsStatus(i) =>
       /\ wire[i].boot = boot => wire[i].uptime <= uptime
       /\ supported /\ wire[i].boot = status_boot
            => last_report.uptime <= wire[i].uptime
  /\ \A i, j \in DOMAIN wire :
       i <= j /\ IsStatus(i) /\ IsStatus(j) /\ wire[i].boot = wire[j].boot
         => wire[i].uptime <= wire[j].uptime

(* A status from before the controller handled the last enable is not read  *)
(* later than two delays after that enable was sent.                        *)
EnableInv ==
  /\ enable_sent => enabled_age <= enable_wait
  /\ motion_commands_enabled /\ ~enable_sent /\ boot = enable_boot => host_mode
  /\ \A i \in DOMAIN wire :
       /\ IsStatus(i) /\ boot = enable_boot
       /\ wire[i].boot # boot \/ (~wire[i].host_mode /\ host_mode)
       => enabled_age <= MaxDelay + wire[i].wait

LEMMA StatusFields ==
  ASSUME TypeOK
  PROVE  /\ uptime \in Nat /\ last_report.uptime \in Nat
         /\ boot \in Nat /\ status_boot \in Nat /\ enable_boot \in Nat
         /\ enabled_age \in Nat /\ enable_wait \in Nat /\ MaxDelay \in Nat
         /\ enable_wait <= MaxDelay
         /\ host_mode \in BOOLEAN
         /\ \A i \in DOMAIN wire :
              /\ wire[i].boot \in Nat /\ wire[i].wait \in Nat
              /\ wire[i].wait <= MaxDelay
              /\ IsStatus(i) => wire[i].uptime \in Nat
                                /\ wire[i].host_mode \in BOOLEAN
<1>1. \A i \in DOMAIN wire :
        wire[i].boot \in Nat /\ wire[i].wait \in 0 .. MaxDelay
  BY WireType, ReportKinds
<1>2. \A i \in DOMAIN wire : IsStatus(i) => wire[i] \in StatusReports
  BY WireType, ReportKinds DEF IsStatus
<1>3. /\ uptime \in Nat /\ boot \in Nat /\ enabled_age \in Nat
      /\ enable_wait \in 0 .. MaxDelay /\ MaxDelay \in Nat
  BY OdometryAssumption DEF TypeOK
<1>4. last_report.uptime \in Nat
  BY DEF TypeOK
<1> QED
  BY <1>1, <1>2, <1>3, <1>4 DEF TypeOK, StatusReports

LEMMA InitCause == Init => UptimeInv /\ EnableInv
<1> SUFFICES ASSUME Init PROVE UptimeInv /\ EnableInv
  OBVIOUS
<1>1. DOMAIN wire = {}
  BY DEF Init
<1> QED
  BY <1>1 DEF Init, UptimeInv, EnableInv

LEMMA StepUptime ==
  TypeOK /\ TypeOK' /\ Ordered /\ UptimeInv /\ [Next]_vars => UptimeInv'
<1> SUFFICES ASSUME TypeOK, TypeOK', Ordered, UptimeInv, [Next]_vars
             PROVE  UptimeInv'
  OBVIOUS
<1>1. CASE UNCHANGED <<wire, supported, status_boot, boot, last_report, uptime>>
  BY <1>1 DEF UptimeInv, IsStatus
<1>2. ASSUME NEW e \in Reports, Report(e), e.boot = boot,
             e.kind = "status" => e.uptime = uptime
      PROVE  UptimeInv'
  <2>1. UNCHANGED <<supported, status_boot, boot, last_report, uptime>>
    BY <1>2 DEF Report, controller, monitor, history
  <2>2. /\ \A i \in DOMAIN wire : i \in Nat /\ wire'[i] = wire[i]
        /\ wire'[Len(wire) + 1] = e
        /\ Len(wire) \in Nat
        /\ \A i \in DOMAIN wire' :
             \/ i \in DOMAIN wire /\ i < Len(wire) + 1
             \/ i = Len(wire) + 1
    BY <1>2, WireAppend DEF Report
  <2>3. uptime <= uptime
    BY StatusFields
  <2>4. ASSUME NEW i \in DOMAIN wire', IsStatus(i)'
        PROVE  /\ wire'[i].boot = boot => wire'[i].uptime <= uptime
               /\ supported /\ wire'[i].boot = status_boot
                    => last_report.uptime <= wire'[i].uptime
    BY <1>2, <2>2, <2>3, <2>4 DEF UptimeInv, IsStatus
  <2>5. ASSUME NEW i \in DOMAIN wire', NEW j \in DOMAIN wire', i <= j,
               IsStatus(i)', IsStatus(j)', wire'[i].boot = wire'[j].boot
        PROVE  wire'[i].uptime <= wire'[j].uptime
    <3>1. CASE j \in DOMAIN wire
      <4>1. i \in DOMAIN wire
        BY <2>2, <2>5, <3>1
      <4> QED
        BY <2>2, <2>5, <3>1, <4>1 DEF UptimeInv, IsStatus
    <3>2. CASE j = Len(wire) + 1
      BY <1>2, <2>2, <2>3, <2>5, <3>2 DEF UptimeInv, IsStatus
    <3> QED
      BY <2>2, <3>1, <3>2
  <2> QED
    BY <2>1, <2>4, <2>5 DEF UptimeInv
<1>3. CASE ControllerReportsPosition
  <2>1. [kind |-> "encoder", position |-> counter, turned |-> turned,
         boot |-> boot, wait |-> 0] \in Reports
    BY PositionReport
  <2> QED
    BY <1>2, <1>3, <2>1 DEF ControllerReportsPosition
<1>4. CASE ControllerReportsStatus
  <2>1. [kind |-> "status", uptime |-> uptime, host_mode |-> host_mode,
         boot |-> boot, wait |-> 0] \in Reports
    BY OdometryAssumption DEF TypeOK, Reports, StatusReports
  <2> QED
    BY <1>2, <1>4, <2>1 DEF ControllerReportsStatus
<1>5. CASE ControllerResets
  <2>1. boot' = boot + 1 /\ UNCHANGED <<wire, supported, status_boot, last_report>>
    BY <1>5 DEF ControllerResets, monitor, history
  <2>2. status_boot # boot' /\ \A i \in DOMAIN wire : wire[i].boot # boot'
    BY <2>1, StatusFields DEF Ordered
  <2> QED
    BY <2>1, <2>2 DEF UptimeInv, IsStatus
<1>6. CASE ReportsLost \/ HandleEncoder
  <2>1. /\ UNCHANGED <<supported, status_boot, boot, last_report, uptime>>
        /\ wire # <<>> /\ wire' = Tail(wire)
    BY <1>6 DEF ReportsLost, HandleEncoder, controller, monitor, history
  <2>2. /\ DOMAIN wire' \subseteq Nat
        /\ \A i \in DOMAIN wire' : i + 1 \in DOMAIN wire /\ wire'[i] = wire[i + 1]
    BY <2>1, WireTail
  <2>3. \A i, j \in DOMAIN wire' : i <= j => i + 1 <= j + 1
    BY <2>2
  <2> QED
    BY <2>1, <2>2, <2>3 DEF UptimeInv, IsStatus
<1>7. CASE HandleStatus
  <2>1. /\ UNCHANGED <<boot, uptime>>
        /\ wire # <<>> /\ wire' = Tail(wire) /\ Head(wire).kind = "status"
        /\ last_report'.uptime = Head(wire).uptime
        /\ status_boot' = Head(wire).boot
    BY <1>7 DEF HandleStatus, HandleMcuStatus, controller
  <2>2. /\ DOMAIN wire' \subseteq Nat
        /\ \A i \in DOMAIN wire' : i + 1 \in DOMAIN wire /\ 1 <= i + 1
                                   /\ wire'[i] = wire[i + 1]
        /\ Head(wire) = wire[1] /\ 1 \in DOMAIN wire
    BY <2>1, WireTail
  <2>3. \A i, j \in DOMAIN wire' : i <= j => i + 1 <= j + 1
    BY <2>2
  <2>4. ASSUME NEW i \in DOMAIN wire', IsStatus(i)'
        PROVE  /\ wire'[i].boot = boot => wire'[i].uptime <= uptime
               /\ wire'[i].boot = status_boot'
                    => last_report'.uptime <= wire'[i].uptime
    BY <2>1, <2>2, <2>4 DEF UptimeInv, IsStatus
  <2>5. status_boot' = boot => last_report'.uptime <= uptime
    BY <2>1, <2>2 DEF UptimeInv, IsStatus
  <2>6. \A i, j \in DOMAIN wire' :
          i <= j /\ IsStatus(i)' /\ IsStatus(j)' /\ wire'[i].boot = wire'[j].boot
            => wire'[i].uptime <= wire'[j].uptime
    BY <2>2, <2>3 DEF UptimeInv, IsStatus
  <2> QED
    BY <2>1, <2>4, <2>5, <2>6 DEF UptimeInv
<1>8. CASE Tick
  <2>1. UNCHANGED <<supported, status_boot, boot, last_report>>
    BY <1>8 DEF Tick, history
  <2>2. uptime' \in Nat /\ uptime <= uptime'
    BY <1>8, StatusFields DEF Tick, Older
  <2>3. /\ DOMAIN wire' = DOMAIN wire
        /\ \A i \in DOMAIN wire :
             /\ wire'[i].boot = wire[i].boot /\ wire'[i].kind = wire[i].kind
             /\ IsStatus(i) => wire'[i].uptime = wire[i].uptime
    BY <1>8, WireAged DEF IsStatus
  <2>4. supported /\ status_boot = boot => last_report.uptime <= uptime'
    BY <2>2, StatusFields DEF UptimeInv
  <2>5. ASSUME NEW i \in DOMAIN wire, IsStatus(i)
        PROVE  /\ wire[i].boot = boot => wire[i].uptime <= uptime'
               /\ supported /\ wire[i].boot = status_boot
                    => last_report.uptime <= wire[i].uptime
    BY <2>2, <2>5, StatusFields DEF UptimeInv
  <2>6. \A i, j \in DOMAIN wire :
          i <= j /\ IsStatus(i) /\ IsStatus(j) /\ wire[i].boot = wire[j].boot
            => wire[i].uptime <= wire[j].uptime
    BY DEF UptimeInv
  <2> QED
    BY <2>1, <2>3, <2>4, <2>5, <2>6 DEF UptimeInv, IsStatus
<1>9. CASE \/ WheelTurns \/ ControllerEnables \/ EnableMotors \/ SafetyStop
           \/ UNCHANGED vars
  BY <1>1, <1>9
  DEF WheelTurns, ControllerEnables, EnableMotors, SafetyStop, vars,
      controller, bus, monitor, history
<1> QED
  BY <1>3, <1>4, <1>5, <1>6, <1>7, <1>8, <1>9
  DEF Next, Controller, MotorControlNode

LEMMA StepEnable ==
  TypeOK /\ TypeOK' /\ Ordered /\ EnableInv /\ [Next]_vars => EnableInv'
<1> SUFFICES ASSUME TypeOK, TypeOK', Ordered, EnableInv, [Next]_vars
             PROVE  EnableInv'
  OBVIOUS
<1>1. CASE /\ UNCHANGED <<wire, enable_sent, enable_wait, enabled_age, boot,
                         enable_boot, host_mode>>
           /\ motion_commands_enabled' \in {motion_commands_enabled, FALSE}
  <2>1. enable_sent' => enabled_age' <= enable_wait'
    BY <1>1 DEF EnableInv
  <2>2. motion_commands_enabled' /\ ~enable_sent' /\ boot' = enable_boot'
          => host_mode'
    BY <1>1 DEF EnableInv
  <2>3. \A i \in DOMAIN wire' :
          /\ IsStatus(i)' /\ boot' = enable_boot'
          /\ wire'[i].boot # boot' \/ (~wire'[i].host_mode /\ host_mode')
          => enabled_age' <= MaxDelay + wire'[i].wait
    BY <1>1 DEF EnableInv, IsStatus
  <2> QED
    BY <2>1, <2>2, <2>3 DEF EnableInv
<1>2. ASSUME NEW e \in Reports, Report(e), e.boot = boot,
             e.kind = "status" => e.host_mode = host_mode
      PROVE  EnableInv'
  <2>1. UNCHANGED <<enable_sent, enable_wait, enabled_age, boot, enable_boot,
                    host_mode, motion_commands_enabled>>
    BY <1>2 DEF Report, controller, gate, history
  <2>2. /\ \A i \in DOMAIN wire : wire'[i] = wire[i]
        /\ wire'[Len(wire) + 1] = e
        /\ \A i \in DOMAIN wire' : i \in DOMAIN wire \/ i = Len(wire) + 1
    BY <1>2, WireAppend DEF Report
  <2> QED
    BY <1>2, <2>1, <2>2 DEF EnableInv, IsStatus
<1>3. CASE ControllerReportsPosition
  <2>1. [kind |-> "encoder", position |-> counter, turned |-> turned,
         boot |-> boot, wait |-> 0] \in Reports
    BY PositionReport
  <2> QED
    BY <1>2, <1>3, <2>1 DEF ControllerReportsPosition
<1>4. CASE ControllerReportsStatus
  <2>1. [kind |-> "status", uptime |-> uptime, host_mode |-> host_mode,
         boot |-> boot, wait |-> 0] \in Reports
    BY OdometryAssumption DEF TypeOK, Reports, StatusReports
  <2> QED
    BY <1>2, <1>4, <2>1 DEF ControllerReportsStatus
<1>5. CASE ControllerEnables
  <2>1. /\ enable_sent /\ ~enable_sent' /\ host_mode' = TRUE
        /\ UNCHANGED <<wire, enable_wait, enabled_age, boot>>
    BY <1>5 DEF ControllerEnables, gate
  <2>2. enabled_age <= MaxDelay
    BY <2>1, StatusFields DEF EnableInv
  <2>3. \A i \in DOMAIN wire : enabled_age <= MaxDelay + wire[i].wait
    BY <2>2, StatusFields
  <2> QED
    BY <2>1, <2>3 DEF EnableInv
<1>6. CASE ControllerResets
  <2>1. /\ boot' = boot + 1 /\ enable_sent' \in {FALSE, enable_sent}
        /\ UNCHANGED <<enable_wait, enabled_age, enable_boot>>
    BY <1>6 DEF ControllerResets, gate, history
  <2>2. boot' # enable_boot'
    BY <2>1, StatusFields DEF Ordered
  <2>3. enable_sent' => enabled_age' <= enable_wait'
    BY <2>1 DEF EnableInv
  <2> QED
    BY <2>2, <2>3 DEF EnableInv
<1>7. CASE ReportsLost \/ HandleEncoder \/ HandleStatus
  <2>1. /\ UNCHANGED <<enable_sent, enable_wait, enabled_age, boot, enable_boot,
                       host_mode>>
        /\ motion_commands_enabled' \in {motion_commands_enabled, FALSE}
        /\ wire # <<>> /\ wire' = Tail(wire)
    BY <1>7
    DEF ReportsLost, HandleEncoder, UpdateEncoderOdometry, TakesBaseline,
        Integrates, HandleStatus, HandleMcuStatus, RaiseAlarm, controller,
        gate, history
  <2>2. \A i \in DOMAIN wire' : i + 1 \in DOMAIN wire /\ wire'[i] = wire[i + 1]
    BY <2>1, WireTail
  <2>3. ASSUME NEW i \in DOMAIN wire', IsStatus(i)', boot = enable_boot,
               wire'[i].boot # boot \/ (~wire'[i].host_mode /\ host_mode)
        PROVE  enabled_age <= MaxDelay + wire'[i].wait
    BY <2>2, <2>3 DEF EnableInv, IsStatus
  <2>4. /\ enable_sent => enabled_age <= enable_wait
        /\ motion_commands_enabled /\ ~enable_sent /\ boot = enable_boot
             => host_mode
    BY DEF EnableInv
  <2>5. motion_commands_enabled' /\ ~enable_sent' /\ boot' = enable_boot'
          => host_mode'
    BY <2>1, <2>4
  <2>6. enable_sent' => enabled_age' <= enable_wait'
    BY <2>1, <2>4
  <2>7. \A i \in DOMAIN wire' :
          /\ IsStatus(i)' /\ boot' = enable_boot'
          /\ wire'[i].boot # boot' \/ (~wire'[i].host_mode /\ host_mode')
          => enabled_age' <= MaxDelay + wire'[i].wait
    BY <2>1, <2>3
  <2> QED
    BY <2>5, <2>6, <2>7 DEF EnableInv
<1>8. CASE EnableMotors
  <2>1. enabled_age' = 0 /\ enable_wait' = 0 /\ enable_sent' /\ wire' = wire
    BY <1>8 DEF EnableMotors
  <2>2. \A i \in DOMAIN wire : 0 <= MaxDelay + wire[i].wait
    BY StatusFields
  <2> QED
    BY <2>1, <2>2 DEF EnableInv
<1>9. CASE Tick
  <2>1. /\ UNCHANGED <<enable_sent, boot, enable_boot, host_mode,
                       motion_commands_enabled>>
        /\ enable_sent => enable_wait' = enable_wait + 1
    BY <1>9 DEF Tick, history
  <2>2. enabled_age' \in Nat /\ enabled_age' <= enabled_age + 1
    BY <1>9, StatusFields DEF Tick, Older
  <2>3. /\ DOMAIN wire' = DOMAIN wire
        /\ \A i \in DOMAIN wire :
             /\ wire'[i].boot = wire[i].boot /\ wire'[i].kind = wire[i].kind
             /\ wire'[i].wait = wire[i].wait + 1
             /\ IsStatus(i) => wire'[i].host_mode = wire[i].host_mode
    BY <1>9, WireAged DEF IsStatus
  <2>4. enable_sent => enabled_age' <= enable_wait'
    BY <2>1, <2>2, StatusFields DEF EnableInv
  <2>5. ASSUME NEW i \in DOMAIN wire, IsStatus(i), boot = enable_boot,
               wire[i].boot # boot \/ (~wire[i].host_mode /\ host_mode)
        PROVE  enabled_age' <= MaxDelay + (wire[i].wait + 1)
    <3>1. enabled_age <= MaxDelay + wire[i].wait
      BY <2>5 DEF EnableInv
    <3> QED
      BY <2>2, <3>1, StatusFields
  <2>6. motion_commands_enabled /\ ~enable_sent /\ boot = enable_boot => host_mode
    BY DEF EnableInv
  <2> QED
    BY <2>1, <2>3, <2>4, <2>5, <2>6 DEF EnableInv, IsStatus
<1>10. CASE WheelTurns \/ SafetyStop \/ UNCHANGED vars
  BY <1>1, <1>10
  DEF WheelTurns, SafetyStop, vars, controller, bus, gate, history
<1> QED
  BY <1>3, <1>4, <1>5, <1>6, <1>7, <1>8, <1>9, <1>10
  DEF Next, Controller, MotorControlNode

(* An alarm is raised only when the controller was reset since the last     *)
(* status, or since it handled the last enable.                             *)
THEOREM AlarmsHaveCause == Spec => NoFalseAlarm
<1>1. TypeOK /\ UptimeInv /\ EnableInv =>
        [HandleStatus /\ Observed(Head(wire)) \in Alarms
           => Head(wire).boot # status_boot \/ boot # enable_boot]_vars
  <2> SUFFICES ASSUME TypeOK, UptimeInv, EnableInv, HandleStatus,
                      Observed(Head(wire)) \in Alarms,
                      Head(wire).boot = status_boot, boot = enable_boot
               PROVE  FALSE
    OBVIOUS
  <2> DEFINE report == Head(wire)
  <2>1. wire # <<>> /\ wire' = Tail(wire) /\ report.kind = "status"
    BY DEF HandleStatus
  <2>2. report = wire[1] /\ 1 \in DOMAIN wire /\ IsStatus(1)
    BY <2>1, WireTail DEF IsStatus
  <2>3. /\ report.wait \in Nat /\ report.wait <= MaxDelay
        /\ report.uptime \in Nat /\ report.host_mode \in BOOLEAN
    BY <2>2, StatusFields
  <2>4. ~(supported /\ report.uptime < last_report.uptime)
    <3>1. supported => last_report.uptime <= report.uptime
      BY <2>2 DEF UptimeInv
    <3> QED
      BY <2>3, <3>1, StatusFields
  <2>5. motion_commands_enabled /\ enabled_age >= EnableGrace /\ ~report.host_mode
    BY <2>4 DEF Observed, Alarms
  <2>6. enabled_age > MaxDelay + MaxDelay
    BY <2>5, StatusFields, OdometryAssumption
  <2>7. ~enable_sent
    BY <2>6, StatusFields DEF EnableInv
  <2>8. host_mode
    BY <2>5, <2>7 DEF EnableInv
  <2>9. enabled_age <= MaxDelay + report.wait
    BY <2>2, <2>5, <2>8 DEF EnableInv
  <2> QED
    BY <2>3, <2>6, <2>9, StatusFields
<1> QED
  BY <1>1, TypeCorrect, InitOrdered, StepOrdered, InitCause, StepUptime,
     StepEnable, PTL
  DEF Spec, NoFalseAlarm

=============================================================================
