-------------------------- MODULE EncoderOdometry --------------------------
(***************************************************************************)
(* What MotorControlNode makes of the two reports the motor controller     *)
(* sends unasked: the encoder positions (CAN 0x481), from which the wheel  *)
(* positions are integrated, and the status (CAN 0x281), from which        *)
(* McuStateMonitor infers that the controller was reset. A reset sets the  *)
(* encoder counter and the uptime to zero and forgets the host mode that   *)
(* enable_motors asked for.                                                *)
(*                                                                         *)
(* A position report carries the counters of both wheels. Counts are small *)
(* integers on a counter of 2 * CounterHalf values (32 bits in the code);  *)
(* a report that moves either wheel by more than MaxPlausible counts is    *)
(* rejected for both. Time is in ticks of one second, the uptime's unit.   *)
(***************************************************************************)
EXTENDS Integers, Sequences

CONSTANTS
  CounterHalf,    \* the counter holds -CounterHalf .. CounterHalf - 1
  MaxPlausible,   \* maximum_plausible_delta
  FirstCounters,  \* what a counter may hold when the node starts
  Inverted,       \* the wheels whose motor is inverted
  EnableGrace,    \* enable_grace_
  StaleTimeout,   \* stale_timeout_
  MaxDelay,       \* ticks a frame may wait to be read or handled
  MaxUptime,      \* bound: the uptime saturates here
  MaxResets,      \* bound: resets of the controller
  Travel,         \* bound: what the two wheels may have turned
  MaxReports      \* bound: reports on the wire

Wheels == {"left", "right"}

AtRest == [w \in Wheels |-> 0]

ASSUME OdometryAssumption ==
  /\ CounterHalf \in Nat \ {0}
  /\ MaxPlausible \in 0 .. CounterHalf - 1
  /\ FirstCounters \subseteq -CounterHalf .. CounterHalf - 1
  /\ Inverted \subseteq Wheels
  /\ EnableGrace \in Nat \ {0}
  /\ StaleTimeout \in Nat
  /\ MaxDelay \in Nat
  /\ 2 * MaxDelay < EnableGrace
  /\ MaxUptime \in Nat \ {0}
  /\ MaxResets \in Nat
  /\ Travel \subseteq [Wheels -> Int]
  /\ AtRest \in Travel
  /\ MaxReports \in Nat \ {0}

VARIABLES
  turned,         \* how far each wheel really turned, forwards
  counter,        \* the encoder counters of the controller
  uptime,         \* seconds since the controller booted
  host_mode,      \* the controller is in ROS-host mode
  boot,           \* how often the controller was reset
  enable_sent,    \* the enable sequence is on its way to the controller
  wire,           \* reports sent and not yet read, oldest first
  enable_wait,    \* ticks since it was sent
  motion_commands_enabled,
  enabled_age,    \* now - motion_enabled_time_
  supported,      \* supported_
  last_report,    \* last_report_
  seen_age,       \* now - last_seen_
  encoder_initialized,
  previous,       \* previous_m1_position_, previous_m2_position_
  increment,      \* what the last report added to the wheel positions
  base,           \* history: turned and boot when "previous" was sent
  status_boot,    \* history: boot when last_report was sent
  enable_boot,    \* history: boot when the last enable was handled
  unnoticed       \* history: a status of another boot raised no alarm

controller == <<turned, counter, uptime, host_mode, boot>>
bus == <<enable_sent, enable_wait, wire>>
gate == <<motion_commands_enabled, enabled_age>>
monitor == <<supported, last_report, seen_age>>
odometry == <<encoder_initialized, previous, increment>>
history == <<base, status_boot, enable_boot, unnoticed>>
vars == <<controller, bus, gate, monitor, odometry, history>>

Counters == -CounterHalf .. CounterHalf - 1

(* The payloads, with the truth at the moment of sending as history. *)
EncoderReports == [kind : {"encoder"}, position : [Wheels -> Counters],
                   turned : [Wheels -> Int], boot : Nat,
                   wait : 0 .. MaxDelay]
StatusReports == [kind : {"status"}, uptime : Nat, host_mode : BOOLEAN,
                  boot : Nat, wait : 0 .. MaxDelay]

TypeOK ==
  /\ turned \in Travel
  /\ counter \in [Wheels -> Counters]
  /\ uptime \in 0 .. MaxUptime
  /\ host_mode \in BOOLEAN
  /\ boot \in 0 .. MaxResets
  /\ enable_sent \in BOOLEAN
  /\ wire \in Seq(EncoderReports \cup StatusReports)
  /\ Len(wire) <= MaxReports
  /\ enable_wait \in 0 .. MaxDelay
  /\ motion_commands_enabled \in BOOLEAN
  /\ enabled_age \in 0 .. EnableGrace + StaleTimeout
  /\ supported \in BOOLEAN
  /\ last_report \in [uptime : Nat, host_mode : BOOLEAN]
  /\ seen_age \in 0 .. StaleTimeout + 1
  /\ encoder_initialized \in BOOLEAN
  /\ previous \in [Wheels -> Counters]
  /\ increment \in [Wheels -> -MaxPlausible .. MaxPlausible]
  /\ base \in [turned : [Wheels -> Int], boot : Nat]
  /\ status_boot \in Nat
  /\ enable_boot \in Nat
  /\ unnoticed \in BOOLEAN

-----------------------------------------------------------------------------
(* Arithmetic. *)

(* A counter one step away from n, around the ends of its range. *)
Wrapped(n) ==
  IF n >= CounterHalf THEN n - 2 * CounterHalf
  ELSE IF n < -CounterHalf THEN n + 2 * CounterHalf
  ELSE n

(* Unsigned subtraction, modulo the range of the counter. *)
RawDelta(current, prior) ==
  IF current >= prior THEN current - prior
                      ELSE current - prior + 2 * CounterHalf

(* Mutant: the upper half of the raw difference is not taken as negative. *)
UnwrappedDelta(current, prior) == RawDelta(current, prior)

WrappedEncoderDelta(current, prior) ==
  LET raw == RawDelta(current, prior)
  IN  IF raw <= CounterHalf - 1 THEN raw ELSE raw - 2 * CounterHalf

(* Motor values are negated when the motor is inverted. *)
MotorValueToWheel(w, n) == IF w \in Inverted THEN -n ELSE n

Plausible(delta) == delta \in -MaxPlausible .. MaxPlausible

(* Neither wheel jumped. *)
BothPlausible(delta) == \A w \in Wheels : Plausible(delta[w])

-----------------------------------------------------------------------------
(* The motor controller (external). *)

(* A wheel turns by one count, driven or pushed. *)
WheelTurns ==
  \E w \in Wheels, step \in {-1, 1} :
    /\ turned' = [turned EXCEPT ![w] = @ + step]
    /\ turned' \in Travel
    /\ counter' = [counter EXCEPT
                     ![w] = Wrapped(@ + MotorValueToWheel(w, step))]
    /\ UNCHANGED <<uptime, host_mode, boot, bus, gate, monitor, odometry,
                   history>>

Report(report) ==
  /\ Len(wire) < MaxReports
  /\ wire' = Append(wire, report)
  /\ UNCHANGED <<controller, enable_sent, enable_wait, gate, monitor,
                 odometry, history>>

ControllerReportsPosition ==
  Report([kind |-> "encoder", position |-> counter, turned |-> turned,
          boot |-> boot, wait |-> 0])

ControllerReportsStatus ==
  Report([kind |-> "status", uptime |-> uptime, host_mode |-> host_mode,
          boot |-> boot, wait |-> 0])

ControllerEnables ==
  /\ enable_sent
  /\ enable_sent' = FALSE
  /\ host_mode' = TRUE
  /\ enable_boot' = boot
  /\ UNCHANGED <<turned, counter, uptime, boot, enable_wait, wire, gate,
                 monitor, odometry, base, status_boot, unnoticed>>

(* An enable sequence that reaches a booting controller may be lost. *)
ControllerResets ==
  /\ boot < MaxResets
  /\ boot' = boot + 1
  /\ counter' = AtRest
  /\ uptime' = 0
  /\ host_mode' = FALSE
  /\ enable_sent' \in {FALSE, enable_sent}
  /\ UNCHANGED <<turned, enable_wait, wire, gate, monitor, odometry, history>>

(* Reports are lost: a full receive queue, or the interface is down. *)
ReportsLost ==
  /\ wire # <<>>
  /\ wire' = Tail(wire)
  /\ UNCHANGED <<controller, enable_sent, enable_wait, gate, monitor,
                 odometry, history>>

-----------------------------------------------------------------------------
(* The node. *)

(* enable_motors succeeds; the enable sequence and the gate. *)
EnableMotors ==
  /\ enable_sent' = TRUE
  /\ enable_wait' = 0
  /\ motion_commands_enabled' = TRUE
  /\ enabled_age' = 0
  /\ UNCHANGED <<controller, wire, monitor, odometry, history>>

(* Any of the handlers that close the gate. *)
SafetyStop ==
  /\ motion_commands_enabled
  /\ motion_commands_enabled' = FALSE
  /\ UNCHANGED <<controller, bus, enabled_age, monitor, odometry, history>>

(* A baseline sets the wheel positions and moves the pose by nothing.      *)
TakesBaseline ==
  /\ encoder_initialized' = TRUE
  /\ increment' = AtRest
  /\ UNCHANGED motion_commands_enabled

(* Mutant: the jump is integrated whatever its size. *)
IntegratesAnything(delta) ==
  increment' = delta /\ UNCHANGED motion_commands_enabled

(* Mutant: only the wheel that jumped is dropped. *)
IntegratesTheOther(delta) ==
  /\ increment' = [w \in Wheels |-> IF Plausible(delta[w]) THEN delta[w] ELSE 0]
  /\ IF BothPlausible(delta)
     THEN UNCHANGED motion_commands_enabled
     ELSE motion_commands_enabled' \in {motion_commands_enabled, FALSE}

(* An implausible jump of either wheel drops what both turned, and aborts  *)
(* a motion test if one is active, which closes the gate.                  *)
Integrates(delta) ==
  IF BothPlausible(delta)
  THEN increment' = delta /\ UNCHANGED motion_commands_enabled
  ELSE /\ increment' = AtRest
       /\ motion_commands_enabled' \in {motion_commands_enabled, FALSE}

(* What each wheel turned, as the counters of a report tell it. *)
WheelDelta(report) ==
  [w \in Wheels |-> MotorValueToWheel(
     w, WrappedEncoderDelta(report.position[w], previous[w]))]

(* update_encoder_odometry. Whatever becomes of the increments, the        *)
(* positions of both wheels are the next baseline.                         *)
UpdateEncoderOdometry(report) ==
  /\ previous' = report.position
  /\ base' = [turned |-> report.turned, boot |-> report.boot]
  /\ IF ~encoder_initialized
     THEN TakesBaseline
     ELSE /\ Integrates(WheelDelta(report))
          /\ UNCHANGED encoder_initialized

HandleEncoder ==
  /\ wire # <<>>
  /\ Head(wire).kind = "encoder"
  /\ wire' = Tail(wire)
  /\ UpdateEncoderOdometry(Head(wire))
  /\ UNCHANGED <<controller, enable_sent, enable_wait, enabled_age, monitor,
                 status_boot, enable_boot, unnoticed>>

(* Mutant: the grace period is not waited for. *)
ObservedImpatiently(report) ==
  IF supported /\ report.uptime < last_report.uptime THEN "reset_detected"
  ELSE IF motion_commands_enabled /\ ~report.host_mode THEN "state_mismatch"
  ELSE IF supported THEN "none" ELSE "first_report"

(* Mutant: only the uptime is looked at. *)
ObservedUptime(report) ==
  IF supported /\ report.uptime < last_report.uptime THEN "reset_detected"
  ELSE IF supported THEN "none" ELSE "first_report"

(* McuStateMonitor::observe, the event it returns. *)
Observed(report) ==
  IF supported /\ report.uptime < last_report.uptime THEN "reset_detected"
  ELSE IF /\ motion_commands_enabled
          /\ enabled_age >= EnableGrace
          /\ ~report.host_mode
       THEN "state_mismatch"
  ELSE IF supported THEN "none" ELSE "first_report"

Alarms == {"reset_detected", "state_mismatch"}

(* Mutant: the baseline survives the reset. *)
AlarmKeepsBaseline ==
  motion_commands_enabled' = FALSE /\ UNCHANGED encoder_initialized

(* The encoder baseline is given up and latch_safety_stop closes the gate. *)
RaiseAlarm ==
  motion_commands_enabled' = FALSE /\ encoder_initialized' = FALSE

(* handle_mcu_status. *)
HandleMcuStatus(report) ==
  /\ supported' = TRUE
  /\ seen_age' = 0
  /\ last_report' = [uptime |-> report.uptime, host_mode |-> report.host_mode]
  /\ IF Observed(report) \in Alarms
     THEN RaiseAlarm
     ELSE UNCHANGED <<motion_commands_enabled, encoder_initialized>>

HandleStatus ==
  /\ wire # <<>>
  /\ Head(wire).kind = "status"
  /\ wire' = Tail(wire)
  /\ HandleMcuStatus(Head(wire))
  /\ status_boot' = Head(wire).boot
  /\ unnoticed' = (Observed(Head(wire)) \notin Alarms
                     /\ (unnoticed \/ Head(wire).boot # status_boot))
  /\ UNCHANGED <<controller, enable_sent, enable_wait, enabled_age, previous,
                 increment, base, enable_boot>>

(* McuStateMonitor::stale: reports were seen, and stopped arriving. *)
Stale == supported /\ seen_age > StaleTimeout

-----------------------------------------------------------------------------
(* Time. *)

Older(age, limit) == IF age < limit THEN age + 1 ELSE age

Tick ==
  /\ enable_sent => enable_wait < MaxDelay
  /\ \A i \in DOMAIN wire : wire[i].wait < MaxDelay
  /\ enable_wait' = IF enable_sent THEN enable_wait + 1 ELSE 0
  /\ wire' = [i \in DOMAIN wire |-> [wire[i] EXCEPT !.wait = @ + 1]]
  /\ uptime' = Older(uptime, MaxUptime)
  /\ enabled_age' = Older(enabled_age, EnableGrace + StaleTimeout)
  /\ seen_age' = Older(seen_age, StaleTimeout + 1)
  /\ UNCHANGED <<turned, counter, host_mode, boot, enable_sent,
                 motion_commands_enabled, supported, last_report, odometry,
                 history>>

Init ==
  /\ turned = AtRest
  /\ counter \in [Wheels -> FirstCounters]
  /\ uptime \in 0 .. MaxUptime
  /\ host_mode \in BOOLEAN
  /\ boot = 0
  /\ enable_sent = FALSE
  /\ wire = <<>>
  /\ enable_wait = 0
  /\ motion_commands_enabled = FALSE
  /\ enabled_age = EnableGrace + StaleTimeout
  /\ supported = FALSE
  /\ last_report = [uptime |-> 0, host_mode |-> FALSE]
  /\ seen_age = StaleTimeout + 1
  /\ encoder_initialized = FALSE
  /\ previous = AtRest
  /\ increment = AtRest
  /\ base = [turned |-> AtRest, boot |-> 0]
  /\ status_boot = 0
  /\ enable_boot = 0
  /\ unnoticed = FALSE

Controller ==
  \/ WheelTurns
  \/ ControllerReportsPosition
  \/ ControllerReportsStatus
  \/ ControllerEnables
  \/ ControllerResets
  \/ ReportsLost

MotorControlNode ==
  \/ EnableMotors
  \/ SafetyStop
  \/ HandleEncoder
  \/ HandleStatus

Next == Controller \/ MotorControlNode \/ Tick

(* The controller handles what it receives and reports its status every    *)
(* second; the receive timer reads what arrives, and not every status is   *)
(* lost; time passes.                                                      *)
Fairness ==
  /\ WF_vars(ControllerEnables)
  /\ SF_vars(ControllerReportsStatus)
  /\ WF_vars(HandleEncoder)
  /\ SF_vars(HandleStatus)
  /\ SF_vars(Tick)

Spec == Init /\ [][Next]_vars

FairSpec == Spec /\ Fairness

-----------------------------------------------------------------------------
(* Properties. *)

(* An encoder report is integrated into the wheel positions. *)
IntegratesReport ==
  /\ HandleEncoder
  /\ encoder_initialized
  /\ BothPlausible(WheelDelta(Head(wire)))

(* What each wheel really turned between the last two reports handled. *)
TurnedSince == [w \in Wheels |-> base'.turned[w] - base.turned[w]]

(* A turn so long that its counts could be those of a plausible one. *)
MayAlias(turn) ==
  \/ turn >= 2 * CounterHalf - MaxPlausible
  \/ turn <= MaxPlausible - 2 * CounterHalf

(* Within one life of the controller the odometry follows the wheels: a    *)
(* report moves both by exactly what they turned since the report before,  *)
(* integrated or not, wherever a counter wrapped in between, as long as    *)
(* both turned a plausible amount. When either turned more, neither moves, *)
(* and what both turned is left out for good (wrapped_encoder_delta, the   *)
(* rebasing and the plausibility check in update_encoder_odometry).        *)
WrapIsInvisible ==
  [][HandleEncoder /\ encoder_initialized /\ base'.boot = base.boot
       /\ (\A w \in Wheels : ~MayAlias(TurnedSince[w]))
     => increment' = IF BothPlausible(TurnedSince) THEN TurnedSince
                                                   ELSE AtRest]_vars

(* A counter that restarted is measured from the old position only while   *)
(* the node has not heard from the controller since the restart, or heard  *)
(* a status that nothing told from a status of the life before.            *)
RestartIntegratedOnlyUnannounced ==
  [][IntegratesReport /\ base'.boot # base.boot
     => status_boot # base'.boot \/ unnoticed]_vars

(* What handle_mcu_status says of its reset: "The controller encoder       *)
(* counters restart at zero after a reset; take a new odometry baseline    *)
(* instead of integrating the jump" (motor_control_node.cpp:995).          *)
RestartIsNeverIntegrated ==
  [][IntegratesReport => base'.boot = base.boot]_vars

(* An open gate is backed by the controller: once it is open for the grace *)
(* period, a status that came since and is not stale says host mode.       *)
OpenGateIsBacked ==
  /\ motion_commands_enabled
  /\ supported
  /\ ~Stale
  /\ enabled_age - seen_age >= EnableGrace
  => last_report.host_mode

(* No alarm without cause: when neither the enable sequence nor a report   *)
(* waits for half the grace period, observe raises one only when the       *)
(* controller was reset since the last status or since it handled the last *)
(* enable.                                                                 *)
NoFalseAlarm ==
  [][HandleStatus /\ Observed(Head(wire)) \in Alarms
     => Head(wire).boot # status_boot \/ boot # enable_boot]_vars

(* A controller that forgot the enable is noticed even when its uptime has *)
(* caught up with the last one reported: the gate closes, unless the       *)
(* controller is enabled again.                                            *)
ForgottenEnableCloses ==
  (motion_commands_enabled /\ ~host_mode)
    ~> (~motion_commands_enabled \/ host_mode)

=============================================================================
