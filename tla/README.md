# Verification of motor_control_g4dual

TLA+ models of the ROS 2 node that drives a dual-motor controller over
SocketCAN, the TLC configurations that check them on small instances, and
TLAPS proofs for every value of the constants. Paths are relative to the
repository.

## The system

| Component | Code | State it keeps | Operations |
|---|---|---|---|
| Node, safety core | `src/motor_control_node.cpp` | the gate `motion_commands_enabled_`, the latches `fault_latched_` and `feedback_timeout_latched_`, `reported_fault_masks_`, the stored cmd_vel with `command_received_` and `watchdog_stopped_`, `can_link_lost_`, time stamps | `enable_motors`, `stop_motors`, `reset_faults`, `set_emergency_stop`, `command_callback`, `control_callback` (50 ms), `receive_can_frames` (50 ms), constructor, destructor |
| Motion test, node side | `src/motor_control_motion_test.cpp` | the CSV log | `motion_test_command`, `update_`, `abort_` and `finish_motion_test` |
| `MotionTest` | `motion_test.hpp` | phase, segment, ramp, deadlines | `start`, `update`, `abort` |
| `ControlReplyTracker` | `control_reply_tracker.hpp` | `state_`, `remaining_`, `uncertain_`, `deadline_` | `begin`, `expire`, `observe`, `transmission_failed`, `interrupt`, `set_enabled` |
| 0x20F5 handshake | `src/motor_control_node.cpp` | `ack_handshake_state_` and its deadline | `start_ack_handshake`, `check_reply_timeouts`, the replies in `receive_can_frames` |
| Firmware query | `src/motor_control_node.cpp` | `firmware_query_state_` | sent once by the constructor |
| `McuStateMonitor` | `mcu_state_monitor.hpp` | last status, when it was seen | `observe`, `stale` |
| Encoder odometry | `src/motor_control_node.cpp:836` | the previous positions, the pose | `update_encoder_odometry` |
| `SocketCanTransport` | `src/socket_can_transport.cpp` | the socket | `open`, `close`, `send_command`, `receive` |
| `MotorCanProtocol`, kinematics | `src/motor_can_protocol.cpp`, `src/differential_drive_kinematics.cpp` | none | encoding, decoding, scaling, wrapped increments |
| Diagnostics, telemetry | `publish_*` | counters | publishing |

`main.cpp` spins the node in a single-threaded executor, so callbacks never
overlap: the interleaving is that of whole callbacks, and a callback is one
atomic step of the models. Callbacks share all the members above. The node
meets the drive only through frames: a write may be refused, and may close the
socket as a side effect (`socket_can_transport.cpp:257`); a read may close it
too. Time enters through time stamps compared with `steady_clock::now()`.

What is hard in this code: two timers and six topics interleave on two latches
and a gate; every send may fail, and a failing send inside
`finish_motion_test` re-enters the stop logic; the socket may be closed by any
callback and is noticed by one of them; watchdogs race late frames;
acknowledgements carry no command, so a late one may be taken for another. The
hazards are listed at their lines in `PROJECT.json`.

## The modules

| Module | What it is |
|---|---|
| `MotorControlNode` | the safety core: one action per callback, or per branch of a timer callback |
| `MotionPermit` | the abstract promise of the gate, which the core implements |
| `MC_MotorControlNode` | the instance TLC checks |
| `MotorControlNode_proofs` | the inductive invariant and the safety theorems |
| `MotorControlNode_permit` | proofs about what may set the drive in motion, and of the refinement |
| `MotorControlNode_halting` | proofs that closing the gate halts, and about the fault memory |
| `ControlReplyTracker` | the class, as operators from a tracker to a tracker |
| `ControlReplies` | the tracker, the handshake and the calls the callbacks make, composed with a controller that answers over a lossy, ordered channel |
| `MC_ControlReplies` | the instance TLC checks |
| `ControlReplies_proofs` | proofs of its safety properties |
| `EncoderOdometry` | `update_encoder_odometry` and `McuStateMonitor`, composed with a controller that counts, reports and resets |
| `MC_EncoderOdometry`, `EncoderOdometry_proofs` | the instance TLC checks, and the proofs |
| `MotionTest` | the class: the five patterns, their segments, ramps, deadlines and standstills |
| `TestSequence` | the abstract promise of a test, which `MotionTest` implements |
| `MC_MotionTest`, `MotionTest_proofs` | the instances TLC checks, and the proofs |
| `SpeedCommand` | the numbers: kinematics and speed frames, in doubles of a given unit and significand |
| `MC_SpeedCommand`, `SpeedCommand_proofs` | the instance TLC checks, and the proofs |
| `ReceivePath` | from the bus to the gate: filters, receive buffer, `SocketCanTransport`, the bounded poll, decoding |
| `MC_ReceivePath`, `ReceivePath_proofs` | the instance TLC checks, and the proofs |

### MotorControlNode

Variables carry the names of the members. Time stamps are ages, counted by
`Tick` and saturated one past the limit they are compared with. Two variables
are history: `drive` is what the bus last told the drive, and
`command_is_current` says that the stored cmd_vel arrived after the last
enable. `drive` is `"moving"` when the last motion frame the socket accepted
was a nonzero speed, `"refused"` when since then a halting frame (zero speed,
stop or emergency stop) was attempted and refused, else `"halted"`.

- *Frames.* Every handler is given as the sequence of the motion and control
  frames it attempts (`StopFrames`, `AbortFrames`, `PublishedFrames`) and
  `Transmit` chooses which are accepted and whether the link is lost. A closed
  socket refuses everything, and a socket closed by the handler refused its
  last frame.
- *Nested stops.* `finish_motion_test`, `abort_motion_test` and
  `latch_safety_stop` call each other. The test is terminal before the first
  zero is published, so the recursion ends after one zero and one emergency
  stop, which is what `StopFrames` lists; `CloseGate` is the state they leave.
  The model starts from this flattening, read off the code: it checks what the
  stops do to everything else, and not that the recursion ends.
- *Polls.* `receive_can_frames` reads up to 64 frames. A poll of several frames
  is several polls of one frame each with no `Tick` between: the speed query
  that each of them starts with changes nothing unless it closes the socket.
- *Targets.* A velocity is `"zero"`, `"move"` or `"unencodable"`. The last is a
  finite cmd_vel that `encode_wheel_speeds` refuses because the scaling to the
  RPM limit produced NaN or a value an ulp above 135 RPM
  (`differential_drive_kinematics.cpp:55`, `motor_can_protocol.cpp:364`).
- *Choices.* When a test runs, completes, aborts by itself or fails to log is
  left open, and so are the verdict of `McuStateMonitor`, the plausibility of
  an encoder jump, and whether feedback is recent enough to start a test. The
  modules below say what decides them; the core allows every outcome, so what
  holds of it holds of the composition.
- *Left out.* An event that is refused and only reported changes none of these
  variables, is a stuttering step, and has no action. The replies side is
  written by these handlers and read by none of them; it is modelled by itself.

### ControlReplies

The actions are the same callbacks, reduced to what they do to
`control_replies_`, to the handshake and to the frames on the bus, plus the
controller (external): it handles writes in order, may accept, reject or ignore
0x20F5, answers control words once acknowledgements are on, and may reset.
Replies may be lost and arbitrarily late, but are neither duplicated nor
reordered, the assumption `control_reply_tracker.hpp:15` states. Two history
variables tell whether a reply was counted for a command it does not belong to
(`miscounted`), and whether any control traffic was in flight when the
handshake enabled the tracker (`clean_start`). Only the node that asks for
acknowledgements (`expect_control_ack`) is modelled; without it the tracker
stays disabled.

### EncoderOdometry

The controller counts the turns of each wheel on a counter that wraps, reports
both (0x481) and its status (0x281) over a wire that keeps the order and may lose
reports, and resets: counters and uptime start at zero and the host mode is
forgotten. The node's side is `HandleEncoder` (`update_encoder_odometry`) and
`HandleStatus` (`handle_mcu_status` with `McuStateMonitor::observe`), with
`EnableMotors` and `SafetyStop` for the callbacks that open and close the gate.
`WheelDelta` is what the two wheels turned by the counters, inverted motors
negated, and `Integrates` drops both increments when either wheel jumped
(`:867`), although both baselines have moved by then (`:858`): what the wheel
that did not jump turned is lost with it. What the node cannot see is history:
how far the wheels really turned, and in which life of the controller a report
was sent.

### MotionTest

`update` is split by its branches: giving up, waiting, completing, beginning a
segment, ramping down, driving, stalling and steering an S. Quantities are
integers on a grid. The pose is reduced to the coordinate `progress()` measures,
and moves by at most one in an update or not at all, in any direction: the
robot is not assumed to obey. The steering of an S is an arbitrary target in
the range the code clamps it to. The checks of `motion_test_command` before a start appear
as what they leave: a reading at rest that is not stale, and, as a property,
the limit of the wheel speed (`WheelSpeedWasChecked`).

### SpeedCommand

A double is an integer in units of `1/One`. `Half` is the least number whose
significand is full (2^52 in the code), `Gaps` the distances neighbouring
doubles may have, and every operation of `twist_to_motor_rpm`,
`encode_speed_units` and `decode_reply` is rounded to the nearest, ties to
even, as IEEE arithmetic does. `ScaleAssumption` says that the unit is small
enough to show the scale `max / largest` of every twist. In the code the unit
is 2^-1074 and a finite speed is below 2^1024, so it holds of every twist whose
wheel speeds do not overflow. Frames carry the two bytes of the code's format.
Twists whose wheel speeds overflow to infinity are left out: the core's target
`"unencodable"` stands for their outcome.

A command is encoded with `rpm_resolution` and a reply decoded with
`feedback_rpm_resolution` (`motor_control_node.cpp:100-108`, `:346`, `:439`),
each 1.0 or 0.1, by default 1.0 and 0.1: `UnitsPerRpm` and
`FeedbackUnitsPerRpm`. In between is the controller (external): `Replies` are
what it may answer for a motor that turns as it was told, in the units of a
reply; where these are the coarser ones it may round either way. So
`FeedbackMirrorsCommand` compares the published rpm with the twist, and not the
bytes of a reply with those of a command.

### ReceivePath

Callbacks do not overlap, but frames arrive while a poll reads. So
`receive_can_frames` is one step for its beginning (`PollFindsSocketClosed`,
`PollReopens`, `PollQueries`) and one for each of at most
`kMaximumFramesPerPoll` reads, between which the bus may act. The receive
buffer drops what it cannot hold, an interface that goes down leaves one error
for the next call on the socket, and the executor may be late by `MaxStall`
ticks. Frames differ in identifier, format, length and payload, and `Decode`
says which are accepted. A read or a write fails only as the link does.

## The runs

| Run | Question | Result |
|---|---|---|
| `node_safety` | Does any order of events open the gate over a latch, replay a command, leave a test behind a closed gate, forget a lost link, or close the gate without an attempt to halt? Does the node implement `MotionPermit`? Do silent feedback, a lost link and a silent cmd_vel always have their consequence? | no; yes; yes; 130,696 states |
| `node_gated` | Is a closed gate "safely gated", as diagnostics say? | no, see below |
| `replies_safety` | Does the tracker ever hide its uncertainty, miscount, or confirm a command by the replies to another after a clean start? Is every pending command resolved? | no; yes; 223,550 states |
| `replies_late` | Can a late reply confirm a later command? | yes, see below |
| `odometry_safety` | Do the wheel positions follow the wheels across wraps and jumps of either, and is a restarted counter told from a turning wheel? | yes, as far as a status told; 2,265,970 states |
| `monitor_safety` | Is a controller that forgot the enable always noticed, and never one that did not? | yes; 187,213 states |
| `odometry_restart` | Is the jump of a reset never integrated, as a comment says? | it is, see below |
| `test_safety` | Does every pattern move from measured rest to rest within its limits, implement `TestSequence`, and end? | yes; 37,749 states |
| `test_stale` | Is standstill measured with every configuration `validate` accepts? | no, see below |
| `speed_safety` | Do the wheels keep the course of the twist through scaling, rounding, inversion and bytes, and is feedback its mirror, in the default resolutions? | yes; 13,824 states |
| `speed_refused` | Can every target that was clamped be sent? | no, see below |
| `receive_safety` | Do late, queued or lost frames delay the closing of the gate beyond a bound? | no; 2,127,154 states |

*Bounds, node and replies.* Two ticks for the command and the feedback timeout
make an age below, at and beyond the limit three different states; the fault
window of one tick has an inside and an outside; four ticks between reopenings
make an attempt wait longer than both timeouts. Two motors and two masks, 0
included (the controller may report a cleared mask), are what the "new report"
test needs to see a repeat, a change and an alternation. In the replies runs
five frames in flight hold a handshake write, an enable burst and one more
command, which is what it takes for the replies to one command to meet the
next; `MaxInFlight` bounds the guards of the actions that write. No model has a
state constraint or a symmetry set.

*Bounds, the others.* A counter of four values that starts next to its end
wraps on the first turn. `Travel` is where the wheels can be: the five points of
`PathOfJumps`, along which the robot may go back and forth, let either wheel
turn by two counts between two reports, which is implausible, while the other
turns by none or by one, which is not, and make one counter wrap forwards and
the other backwards. One reset is enough for a report of one life to meet the
baseline of another. In `monitor_safety` the robot stands (`StandsStill`), since
the status does not depend on where it is. It needs two resets, so that an
uptime of up to two can catch up, and a grace period longer than twice the
delay of a frame, the assumption under which an alarm has a cause. The motion tests run all five patterns with segments of two
or three units of length, accelerations of one unit per tick, and a sample up
to one tick later than its timeout, so that every ramp has an inner point,
every deadline an outside, and a segment can stall, overshoot or run back.
With 11 significant bits (53 in a double) the velocities of the instance make
the scaling round up and down, and each wheel turn both ways and stand still; `Tolerance` is what the roundings to whole speed
units add up to. Polls of two frames on a bus that can bring two in a tick, a
buffer of six and one late tick leave a backlog that is never made up for;
then the bounds on evidence, exposure and loss are reached exactly. Six is what
`BandwidthAssumption` asks of the buffer: the frames of the late tick, of the
tick whose poll is due, and of the one that is passing.

*Fairness.* `WF(ControlCallback)` and `WF(PollSocketClosed \/ PollReopens)`:
both timers are wall timers created in the constructor
(`motor_control_node.cpp:165`, `:191`), and a single-threaded executor runs a
timer that is ready again and again. Polls of an open socket are under no
fairness, since weak fairness of an action is fairness of its effective steps:
it would promise that frames keep arriving, which is what the feedback timeout
is there to doubt. `PendingResolves` assumes that time passes and that the
reply deadlines are checked, which both timers do. `TestEnds` assumes that the
control timer calls `update` while a test is active, and nothing of the robot.
`ForgottenEnableCloses` assumes that the controller handles what it is sent and
reports its status every second, that the receive timer reads what arrives,
that not every status is lost (strong fairness, since one may be lost again and
again), and that time passes. Operator events, time in the node model, resets,
and the loss of frames are under no fairness.

### What the violated runs show

*A gate closed by `reset_faults` or by the release of the emergency stop does
not halt* (`node_gated`). Both close the gate and send only their own frame
(`motor_control_node.cpp:652`, `:677`). Without an active test nothing tells
the drive to stop, and with the gate closed neither cmd_vel nor the watchdog can
send a zero. Diagnostics say OK, "Motor commands safely gated" (`:1062`). The
motor controller may have a watchdog of its own; nothing in this repository
configures or checks one. `GateClosesHalting` shows that every other handler
attempts to halt, with one more exception: a destructor that finds the socket
closed.

*A late reply can confirm a later command* (`replies_late`). `enable_motors`
sends 0x20F5 and the three stages in one go. When the acknowledgement of 0x20F5
arrives, `set_enabled(true)` (`:461`) makes the tracker idle although three
acknowledgements are still to come. A stop given then expects one reply and
takes the first of them. README lines 65-66 say that a late reply cannot confirm
a later command. `AcknowledgedByOwnReplies` shows that this is the only way: if
no control traffic was in flight when the tracker was enabled, no command is
ever acknowledged by the replies to another.

*The jump of a reset may be integrated* (`odometry_restart`). The baseline is
given up when a status reveals the reset (`:997`). An encoder report of the
restarted controller that is read before it is measured from the old position;
the plausibility check catches it only if the jump is large. The other way is a
status that does not tell of the restart: its uptime has caught up, after a
silence, with the last one seen, or it is the first status ever read
(`kFirstReport`, `:974-979`), with which no earlier one can be compared.
`RestartIntegratedOnlyUnannounced` shows that there is no other.

*Standstill may be confirmed without being measured* (`test_stale`). While
settling, `update` looks at the same wheel-speed sample until it is older than
`feedback_timeout`; `validate` does not ask that to be at most `settle_time`.
A configuration with a longer feedback timeout confirms the standstill by one
reading taken before the wheels were told to stop. The defaults, both half a
second, are safe: the property is proved for every configuration with
`feedback_timeout <= settle_time`.

*A clamped target may be refused* (`speed_refused`). Scaling by
`max_motor_speed_rpm / largest` rounds twice and may end an ulp above the
limit. With the default limit, which is `kMaxSpeedRpm`, `encode_speed_units`
refuses it, nothing is sent, and the drive keeps its last speed for as long as
that cmd_vel is repeated. With the default geometry and real doubles,
linear 2.245 and angular 0.2 is such a command. A limit at least
one rpm lower is safe: `speed_safety` shows it, and `CommandSent` proves it for
every precision.

A weaker promise, worth knowing: the cmd_vel watchdog sets `watchdog_stopped_`
whether or not its zero was accepted (`:309-311`) and does not try again while
the command stays silent, so `WatchdogInvariant` and `SilentCommandHalts` speak
of a zero that was attempted.

## The proofs

Each component's assumption on its constants is all that is assumed:
`NodeAssumption` (positive timeouts, as the constructor demands),
`OdometryAssumption` (among others, that frames wait for less than half the
grace period), `MotionTestAssumption` (a configuration `validate` accepts),
`ReceiveAssumption`, and `BandwidthAssumption` for `ReceivePath` (a poll reads
what a tick can bring, and the buffer holds what arrives while timers are
late; the code leaves the buffer at the kernel's default, which is hundreds of
frames), `SpeedAssumption` and `ScaleAssumption`. The theorems that need more say
so in their statement: `CommandSent` and the two that assume `Precise`.
The argument, for the node:

1. `MotorControlNode_proofs`. None of the safety invariants is inductive by
   itself: that a test runs only behind an open gate needs that whatever closes
   the gate finishes the test, and that the watchdog has halted the drive needs
   that the stored command is not fresh (`WatchdogIsStale`: once the watchdog
   fired, `control_callback` cannot publish a speed before the next cmd_vel or
   enable). `IInv` is their conjunction with the type invariant. One lemma per
   action shows that it is preserved (`NextIInv`), and `Invariance` follows.
   `TypeCorrect`, `GateSafety`, `TestSafety`, `ReplaySafety`, `LinkSafety` and
   `WatchdogSafety` are its conjuncts.
2. `MotorControlNode_permit`. Lemmas about frame sequences (`StopFramesShape`
   and its neighbours) say that the stop sequences hold only halting frames. So
   every step is of one of five kinds (`NextKind`): it halts at most, grants,
   latches, resets, or moves under a permit. `MotionSafety` and
   `PermitRefinement` follow.
3. `MotorControlNode_halting`. `HaltingSafety` goes through the actions once
   more, for the attempt to halt. `FaultMemorySafety` is inductive with the
   type invariant.

4. `ControlReplies_proofs`. That a command is acknowledged by its own replies
   rests on counting. `CountInv` says of a tracker that started clean and is not
   uncertain that every control write or reply still under way belongs to the
   last command, and that there are no more of them than replies it awaits. `TrackerInv` and `HandshakeInv`
   say which states of the tracker and the handshake go together.
5. `EncoderOdometry_proofs`. `WrapInvisible` rests on `CounterInv` and
   `WireInv`: as long as the life of the controller is the same, each counter
   differs from what its wheel really turned by a constant, modulo the range of
   the counter, on the controller, on the wire and in the baseline. So the
   difference of two positions is the turn between them if that is plausible,
   and implausible if it is not, unless the turn is one that `MayAlias`
   excludes: in the code, 2^32 counts less a plausible jump. As both wheels are judged alike by their counts and by their
   turns (`BothAgree`), either both increments are integrated or neither. `Ordered`
   says that reports are read in the order of the lives that sent them, and
   `BaselineInv` that the baseline is not older than the last status, unless
   that one came from another life without an alarm.
   `AlarmsHaveCause` adds `UptimeInv` (within one life the uptimes on the wire
   do not go back) and `EnableInv` (a status from before the controller handled
   the last enable is read at most two delays after that enable was sent).
6. `MotionTest_proofs`. `StillWithinPhase` bounds the time of standstill by the
   age of the phase, from which a reading used at the end of settling was taken
   within the phase. `Commanded` ties the command to the ramps, so that the
   change of one is the change of the other. `TestImplementsSequence` maps each
   branch of `update` to a step of `TestSequence` or to a stutter.
7. `ReceivePath_proofs`. `LossInv` follows an unreported link error from the
   interface to the callback that meets it. For `EvidenceIsRecent`,
   `BacklogInv` says that no more frames are unread than the bus can have
   brought since the polls fell behind, and that the age of each is bounded by
   its place in the buffer; with it `EvidenceInv` bounds the age of the
   feedback that was read by the age of its time stamp. `FaultIsNoticed` rests
   on `ExposureInv`: while the gate is open over a fault, either the fault has
   yet to be repeated, or a report of it is in the buffer that was sent early
   enough, or the interface was lost since and the loss is still to be noticed.
   That a report is in the buffer needs that the buffer did not drop it, which
   is what the bound on `QueueLimit` is for: with a buffer of twice what a poll
   reads, a late timer and full traffic, the report of the fault itself is
   among the frames that are lost, and the bound is exceeded. Nor does it hold
   without a window after a reset in which a fault is ignored
   (`FaultIgnoreWindow`, 300 ms in the code).
8. `SpeedCommand_proofs`. `Rounding` bounds the error of one operation, by half
   a unit or by half of the last bit, and `Close` carries such errors through
   the turn, the sum, the gear, the scale and the encoding (`TurnClose` to
   `EncodeClose`). `ScaledBound` shows that what the scaling leaves exceeds the
   limit by less than one rpm, from which `CommandSent` follows for
   `max_motor_speed_rpm` below `kMaxSpeedRpm`. (When they are equal it is false:
   `speed_refused`.) `FrameInv` says that the frame on the bus is the encoding
   of the twist that was asked and the published speeds the decoding of an
   answer to it; `RoundTrip` that the bytes of a number within an int16 are read
   as that number; and `DoubleIsOdd`, that rounding is symmetric, lets the
   inversions cancel. `UnitsKeepCourse` puts the errors together, from which
   `CourseIsKept` follows. For `FeedbackMirrors`, `ReplyUnits` says how far an
   answer is from what was told, in units common to both resolutions,
   `ReplyFits` that it fits its two bytes, `DecodedUnits` that its units are
   found again in the rpm that are published, and `FollowsCourse` that what is
   so near to a course keeps it. The theorems hold for each of the four
   combinations of resolutions; `ReplyRounding` is zero in all but one of them.

`CourseIsKept` and `FeedbackMirrors` assume `Precise`: that a double has bits to
spare for the speeds that are sent and answered (`64 * Limit * UnitsPerRpm <=
Half`, and the same with `FeedbackUnitsPerRpm`), and
that the unit is small for the geometry and the twists; then all roundings
together stay below the two units of `Tolerance`. The code's doubles are far
within it: `Half` is 2^52 and `One` 2^1074, while 64 times 135 rpm in
tenths is less than 2^17. The instance of `speed_safety` is outside: eleven bits
are hardly enough for the 1340 units of its replies, which is where TLC finds an
error of the model quickest. So the run and the theorems overlap only in part, and neither
makes the other idle. That `Precise` can be met, and that the properties hold
where it is, was checked with TLC too, on an instance of the same module
(`One` 2048, `Half` 256, a limit of three rpm in whole units both ways).

Only model-checked: the liveness properties `SilenceCloses`, `LinkLossCloses`,
`SilentCommandHalts`, `PendingResolves`, `ForgottenEnableCloses` and
`TestEnds`, which are beyond the prover, and the two properties of the speeds in
doubles too coarse to be `Precise`. Every invariant, every action property and
every refinement that a passing run checks is stated by a theorem.

## Not modelled

- Logging, published values, counters, the CSV log of a test, and texts: no
  decision reads them.
- The firmware query (`motor_control_node.cpp:213`, `:481`, `:496`, `:1036`):
  asked once by the constructor, answered at most once, only shown. Its effect
  on `receive_can_frames` is nil.
- The pose (x, y, yaw) of the odometry and the steering law of the S, which are
  trigonometry on reals. What depends on them is modelled for every value they
  may take.
- Wheel speeds that overflow and whose scaling is NaN, in `SpeedCommand`; the
  core has their refusal as the target `"unencodable"`.
- That the nested stops of a test end, which the core takes as read.
- The encoders of `MotorCanProtocol` for jerk limits, PID gains, S-curves and
  test cases: the node never calls them.
- Failures of a send or a read other than a lost link, in `ReceivePath`; the
  core has them as choices.
- The composition of all modules in one state space, which is beyond TLC. Each
  module allows its neighbours every outcome they may have, so its properties
  do not depend on which one they choose.
- `main.cpp`'s argument parsing, launch files, packaging and docs.

What would be worth doing next: `SpeedCommand` with the overflow of a double to
infinity.

## Running

    tlc -workers 2 -config node_safety.cfg MC_MotorControlNode.tla
    tlc -workers 2 -config replies_safety.cfg MC_ControlReplies.tla
    tlc -workers 2 -config monitor_safety.cfg MC_EncoderOdometry.tla
    tlc -workers 2 -config test_safety.cfg MC_MotionTest.tla
    tlc -workers 2 -config speed_safety.cfg MC_SpeedCommand.tla
    tlc -workers 2 -config receive_safety.cfg MC_ReceivePath.tla
    tlapm ReceivePath_proofs.tla
    tlapm SpeedCommand_proofs.tla

and so on: the configurations `odometry_*`, `test_*` and `speed_*` go with the
module named for them, and each `_proofs` module, `MotorControlNode_permit` and
`MotorControlNode_halting` are checked by `tlapm`.
