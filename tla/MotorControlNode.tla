-------------------------- MODULE MotorControlNode --------------------------
(***************************************************************************)
(* The safety core of MotorControlNode: the software gate in front of the  *)
(* speed frames, the two safety latches, the cmd_vel watchdog, the loss    *)
(* and reopening of the SocketCAN socket, and what the drive was last told *)
(* over the bus.                                                           *)
(*                                                                         *)
(* The node is spun by a single-threaded executor (main.cpp), so a         *)
(* callback is one atomic step and the interleaving is that of callbacks.  *)
(* A receive poll that reads several frames is modelled as consecutive     *)
(* polls of one frame with no Tick between them.                           *)
(*                                                                         *)
(* Left to other modules: control_replies_, the 0x20F5 handshake and the   *)
(* firmware query (diagnostics; no handler here reads them), the inside of *)
(* MotionTest (here a test runs, completes or aborts) and of               *)
(* McuStateMonitor and the odometry (here their verdict is a choice).      *)
(***************************************************************************)
EXTENDS Integers, Sequences

CONSTANTS
  EnableCan,          \* the enable_can parameter
  CommandTimeout,     \* command_timeout_ms, in ticks
  FeedbackTimeout,    \* feedback_timeout_ms, in ticks
  FaultIgnoreWindow,  \* kFaultResetIgnoreWindow, in ticks
  ReopenInterval,     \* kReopenInterval, in ticks
  Motors,             \* the motor selectors a fault report may carry
  FaultMasks          \* the fault masks a fault report may carry

ASSUME NodeAssumption ==
  /\ EnableCan \in BOOLEAN
  /\ CommandTimeout \in Nat \ {0}
  /\ FeedbackTimeout \in Nat \ {0}
  /\ FaultIgnoreWindow \in Nat \ {0}
  /\ ReopenInterval \in Nat \ {0}
  /\ FaultMasks \subseteq Nat

VARIABLES
  up,                        \* the node object exists
  socket_open,               \* can_transport_->is_open()
  can_link_lost,
  motion_commands_enabled,   \* the gate
  fault_latched,
  feedback_timeout_latched,
  reported_fault_masks,
  command_received,
  watchdog_stopped,
  target,                    \* what linear_/angular_velocity_ encode to
  test_active,               \* motion_test_.active()
  encoder_initialized,
  command_age,               \* now - last_command_time_
  feedback_age,              \* now - last_feedback_time_
  reset_age,                 \* now - last_fault_reset_time_
  reopen_age,                \* now - last_can_reopen_attempt_
  drive,                     \* history: what the bus last told the drive
  command_is_current         \* history: cmd_vel came after the last enable

link == <<socket_open, can_link_lost>>
latches == <<fault_latched, feedback_timeout_latched, reported_fault_masks>>
command == <<command_received, watchdog_stopped, target>>
clocks == <<command_age, feedback_age, reset_age, reopen_age>>
vars == <<up, link, motion_commands_enabled, latches, command, test_active,
          encoder_initialized, clocks, drive, command_is_current>>

-----------------------------------------------------------------------------
(* A velocity command by what encode_wheel_speeds makes of it: a zero      *)
(* frame, a nonzero frame, or nothing at all. The last happens to a finite *)
(* cmd_vel whose scaling to the RPM limit overflows to NaN or rounds to    *)
(* just above kMaxSpeedRpm.                                                *)
Targets == {"zero", "move", "unencodable"}

(* Frames by their effect on the motion of the drive. "halt" is a zero     *)
(* speed, kStop or kEmergencyStop; "control" is any other control frame.   *)
Frames == {"speed", "halt", "control"}

(* "moving": the last motion frame the socket accepted is a nonzero speed  *)
(* and no halting frame was attempted since; "refused": as "moving", but a *)
(* halting frame was attempted since and the socket refused it.            *)
DriveStates == {"halted", "moving", "refused"}

TypeOK ==
  /\ up \in BOOLEAN
  /\ socket_open \in BOOLEAN
  /\ can_link_lost \in BOOLEAN
  /\ motion_commands_enabled \in BOOLEAN
  /\ fault_latched \in BOOLEAN
  /\ feedback_timeout_latched \in BOOLEAN
  /\ reported_fault_masks \in [Motors -> FaultMasks \cup {0}]
  /\ command_received \in BOOLEAN
  /\ watchdog_stopped \in BOOLEAN
  /\ target \in Targets
  /\ test_active \in BOOLEAN
  /\ encoder_initialized \in BOOLEAN
  /\ command_age \in 0 .. CommandTimeout + 1
  /\ feedback_age \in 0 .. FeedbackTimeout + 1
  /\ reset_age \in 0 .. FaultIgnoreWindow
  /\ reopen_age \in 0 .. ReopenInterval
  /\ drive \in DriveStates
  /\ command_is_current \in BOOLEAN

-----------------------------------------------------------------------------
(* Transmission. *)

(* What the drive was last told once the frames at the positions ok of     *)
(* "frames" were accepted. No handler sends a speed after a halting frame. *)
DriveAfter(frames, ok) ==
  IF \E k \in ok : frames[k] = "halt" THEN "halted"
  ELSE IF \E k \in ok : frames[k] = "speed"
       THEN IF \E k \in DOMAIN frames : frames[k] = "halt" THEN "refused"
                                                           ELSE "moving"
  ELSE IF drive = "moving" /\ \E k \in DOMAIN frames : frames[k] = "halt"
       THEN "refused"
  ELSE drive

(* send_command for each of the frames in turn. A write that fails because *)
(* the link is down closes the socket, and every later write fails.        *)
Transmit(frames, ok) ==
  /\ ok \subseteq DOMAIN frames
  /\ socket_open' \in BOOLEAN
  /\ ~socket_open => ok = {} /\ ~socket_open'
  /\ socket_open /\ ~socket_open' => /\ Len(frames) > 0
                                     /\ Len(frames) \notin ok
  /\ drive' = DriveAfter(frames, ok)

Send(frames) == \E ok \in SUBSET DOMAIN frames : Transmit(frames, ok)

(* A read, or the speed query that precedes it, finds the link down and    *)
(* closes the socket; the frames that follow are all refused.              *)
LoseLink(frames) ==
  /\ socket_open
  /\ socket_open' = FALSE
  /\ drive' = DriveAfter(frames, {})

(* Mutant: a zero is taken for "nothing to send". *)
PublishedWithoutZero(t) ==
  IF EnableCan /\ motion_commands_enabled /\ t = "move"
  THEN <<"speed">> ELSE <<>>

(* Mutant: the gate is not consulted. *)
PublishedUngated(t) ==
  IF EnableCan /\ t # "unencodable"
  THEN <<IF t = "zero" THEN "halt" ELSE "speed">> ELSE <<>>

(* publish_motor_rpm: the frame that leaves the gate for target t, if any. *)
PublishedFrames(t) ==
  IF EnableCan /\ motion_commands_enabled /\ t # "unencodable"
  THEN <<IF t = "zero" THEN "halt" ELSE "speed">>
  ELSE <<>>

(* Mutant: the gate is closed first, so no emergency stop goes out. *)
StopFramesTestOnly == IF test_active THEN PublishedFrames("zero") ELSE <<>>

(* latch_safety_stop: finish_motion_test publishes a zero while the gate   *)
(* is still open, then one emergency stop goes out if the gate was open.   *)
StopFrames ==
  (IF test_active THEN PublishedFrames("zero") ELSE <<>>)
    \o (IF motion_commands_enabled THEN <<"halt">> ELSE <<>>)

(* abort_motion_test: nothing unless a test is active. *)
AbortFrames == IF test_active THEN StopFrames ELSE <<>>

(* What finish_motion_test leaves, whoever calls it. *)
FinishMotionTest ==
  /\ test_active' = FALSE
  /\ watchdog_stopped' = (IF test_active THEN FALSE ELSE watchdog_stopped)
  /\ target' = (IF test_active THEN "zero" ELSE target)

(* Mutant: the test is not finished. *)
CloseGateKeepsTest ==
  /\ motion_commands_enabled' = FALSE
  /\ command_received' = FALSE
  /\ UNCHANGED <<test_active, watchdog_stopped, target>>

(* Mutant: the stop is sent but the gate stays open. *)
CloseGateForgotten ==
  /\ UNCHANGED motion_commands_enabled
  /\ command_received' = FALSE
  /\ FinishMotionTest

(* What latch_safety_stop leaves, the frames apart. *)
CloseGate ==
  /\ motion_commands_enabled' = FALSE
  /\ command_received' = FALSE
  /\ FinishMotionTest

LatchSafetyStop == Send(StopFrames) /\ CloseGate

AbortMotionTest ==
  IF test_active THEN LatchSafetyStop
  ELSE UNCHANGED <<socket_open, drive, motion_commands_enabled, command,
                   test_active>>

-----------------------------------------------------------------------------
(* Construction and destruction. *)

(* The values a fresh node gives its members. The time points of the fault *)
(* reset and of the reopening start at the epoch, long ago.                *)
Fresh ==
  /\ can_link_lost = FALSE
  /\ motion_commands_enabled = FALSE
  /\ fault_latched = FALSE
  /\ feedback_timeout_latched = FALSE
  /\ reported_fault_masks = [m \in Motors |-> 0]
  /\ command_received = FALSE
  /\ watchdog_stopped = FALSE
  /\ target = "zero"
  /\ test_active = FALSE
  /\ encoder_initialized = FALSE
  /\ command_age = 0
  /\ feedback_age = 0
  /\ reset_age = FaultIgnoreWindow
  /\ reopen_age = ReopenInterval
  /\ command_is_current = FALSE

(* The constructor throws unless the socket opens; its firmware query may  *)
(* find the link down again and close it.                                  *)
Init ==
  /\ up = TRUE
  /\ socket_open \in (IF EnableCan THEN BOOLEAN ELSE {FALSE})
  /\ Fresh
  /\ drive = "halted"

(* The destructor: abort the test, then zero and stop over an open socket. *)
(* The members are gone; they are shown as the next node will find them.   *)
Shutdown ==
  /\ up
  /\ up' = FALSE
  /\ LET frames == AbortFrames
                     \o (IF socket_open THEN <<"halt", "halt">> ELSE <<>>)
     IN  \E ok \in SUBSET DOMAIN frames :
           /\ ~socket_open => ok = {}
           /\ drive' = DriveAfter(frames, ok)
  /\ socket_open' = FALSE
  /\ can_link_lost' = FALSE
  /\ motion_commands_enabled' = FALSE
  /\ fault_latched' = FALSE
  /\ feedback_timeout_latched' = FALSE
  /\ reported_fault_masks' = [m \in Motors |-> 0]
  /\ command_received' = FALSE
  /\ watchdog_stopped' = FALSE
  /\ target' = "zero"
  /\ test_active' = FALSE
  /\ encoder_initialized' = FALSE
  /\ command_age' = 0
  /\ feedback_age' = 0
  /\ reset_age' = FaultIgnoreWindow
  /\ reopen_age' = ReopenInterval
  /\ command_is_current' = FALSE

(* The node is started again; the drive is as the last one left it. *)
Restart ==
  /\ ~up
  /\ up' = TRUE
  /\ socket_open' \in (IF EnableCan THEN BOOLEAN ELSE {FALSE})
  /\ can_link_lost' = FALSE
  /\ UNCHANGED <<motion_commands_enabled, latches, command, test_active,
                 encoder_initialized, clocks, drive, command_is_current>>

-----------------------------------------------------------------------------
(* The operator's events. An event that only reports a refusal changes     *)
(* nothing here and has no action.                                         *)

(* enable_motors while a test is active interrupts the test instead. *)
EnableInterruptsTest ==
  /\ up /\ test_active
  /\ AbortMotionTest
  /\ UNCHANGED <<up, can_link_lost, latches, encoder_initialized, clocks,
                 command_is_current>>

(* Mutant: the latches are not checked. *)
EnableGuardUnlatched == up /\ ~test_active /\ EnableCan

EnableGuard ==
  /\ up /\ ~test_active
  /\ EnableCan
  /\ ~(fault_latched \/ feedback_timeout_latched)

(* Mutant: the stored cmd_vel survives the enable. *)
KeepCommand == watchdog_stopped' = FALSE /\ UNCHANGED command_received

ForgetCommand == watchdog_stopped' = FALSE /\ command_received' = FALSE

(* The three stages and the initial zero speed are all accepted. *)
EnableSucceeds ==
  /\ EnableGuard
  /\ Transmit(<<"control", "control", "control", "halt">>, 1 .. 4)
  /\ feedback_age' = 0
  /\ ForgetCommand
  /\ motion_commands_enabled' = TRUE
  /\ command_is_current' = FALSE
  /\ UNCHANGED <<up, can_link_lost, latches, target, test_active,
                 encoder_initialized, command_age, reset_age, reopen_age>>

(* Some frame of the sequence, shown as the first, is refused, and an      *)
(* emergency stop is attempted. A 0x20F5 frame that precedes the sequence  *)
(* matters only by closing the socket, as a refused stage also may.        *)
EnableFails ==
  /\ EnableGuard
  /\ \E ok \in SUBSET {2} : Transmit(<<"control", "halt">>, ok)
  /\ motion_commands_enabled' = FALSE
  /\ UNCHANGED <<up, can_link_lost, latches, command, test_active,
                 encoder_initialized, clocks, command_is_current>>

EnableMotors == EnableInterruptsTest \/ EnableSucceeds \/ EnableFails

StopMotors ==
  /\ up
  /\ Send(Append(AbortFrames, "halt"))
  /\ CloseGate
  /\ UNCHANGED <<up, can_link_lost, latches, encoder_initialized, clocks,
                 command_is_current>>

(* Mutant: the reported masks outlive the latch they belong to. *)
ClearLatchesOnly ==
  /\ fault_latched' = FALSE
  /\ feedback_timeout_latched' = FALSE
  /\ UNCHANGED reported_fault_masks

ClearLatches ==
  /\ fault_latched' = FALSE
  /\ feedback_timeout_latched' = FALSE
  /\ reported_fault_masks' = [m \in Motors |-> 0]

(* The latches are cleared only if the reset frame was accepted. *)
ResetFaults ==
  /\ up
  /\ LET frames == Append(AbortFrames, "control")
     IN  \E ok \in SUBSET DOMAIN frames :
           /\ Transmit(frames, ok)
           /\ IF Len(frames) \in ok
              THEN /\ ClearLatches
                   /\ reset_age' = 0
                   /\ feedback_age' = 0
              ELSE UNCHANGED <<latches, reset_age, feedback_age>>
  /\ CloseGate
  /\ UNCHANGED <<up, can_link_lost, encoder_initialized, command_age,
                 reopen_age, command_is_current>>

(* "engage" sends kEmergencyStop; the release sends kEnableOperation. *)
SetEmergencyStop(engage) ==
  /\ up
  /\ Send(Append(AbortFrames, IF engage THEN "halt" ELSE "control"))
  /\ CloseGate
  /\ UNCHANGED <<up, can_link_lost, latches, encoder_initialized, clocks,
                 command_is_current>>

(* A finite cmd_vel. It takes over from a test without closing the gate. *)
CommandCallback(t) ==
  /\ up
  /\ Send(IF test_active THEN PublishedFrames("zero") ELSE <<>>)
  /\ test_active' = FALSE
  /\ target' = t
  /\ command_age' = 0
  /\ command_received' = TRUE
  /\ watchdog_stopped' = FALSE
  /\ command_is_current' = TRUE
  /\ UNCHANGED <<up, can_link_lost, motion_commands_enabled, latches,
                 encoder_initialized, feedback_age, reset_age, reopen_age>>

(* motion_test_command with a kind. The recency of the wheel speeds, the   *)
(* standstill and the creation of the log are left to the environment.     *)
MotionTestStart ==
  /\ up /\ ~test_active
  /\ EnableCan /\ motion_commands_enabled
  /\ ~fault_latched /\ ~feedback_timeout_latched
  /\ encoder_initialized
  /\ ~(command_received /\ command_age <= CommandTimeout)
  /\ command_received' = FALSE
  /\ target' = "zero"
  /\ \/ /\ Transmit(<<"halt">>, {1})
        /\ test_active' = TRUE
        /\ UNCHANGED <<motion_commands_enabled, watchdog_stopped>>
     \/ \* The zero is refused: publish_motor_rpm aborts the test at once.
        /\ \E ok \in SUBSET {2, 3} : Transmit(<<"halt", "halt", "halt">>, ok)
        /\ test_active' = FALSE
        /\ motion_commands_enabled' = FALSE
        /\ watchdog_stopped' = FALSE
  /\ UNCHANGED <<up, can_link_lost, latches, encoder_initialized, clocks,
                 command_is_current>>

(* motion_test_command with "cancel". *)
MotionTestCancel ==
  /\ up /\ test_active
  /\ AbortMotionTest
  /\ UNCHANGED <<up, can_link_lost, latches, encoder_initialized, clocks,
                 command_is_current>>

-----------------------------------------------------------------------------
(* control_callback, the 50 ms timer, by the branch it takes. *)

(* Mutant: one tick late. *)
FeedbackTimedOutLate ==
  /\ EnableCan /\ motion_commands_enabled
  /\ feedback_age > FeedbackTimeout + 1

FeedbackTimedOut ==
  EnableCan /\ motion_commands_enabled /\ feedback_age > FeedbackTimeout

CommandIsFresh == command_received /\ command_age <= CommandTimeout

(* check_feedback_timeout latches; with the gate closed the watchdog branch *)
(* that follows sends nothing.                                              *)
ControlLatchesTimeout ==
  /\ up /\ FeedbackTimedOut
  /\ feedback_timeout_latched' = TRUE
  /\ Send(StopFrames)
  /\ motion_commands_enabled' = FALSE
  /\ command_received' = FALSE
  /\ test_active' = FALSE
  /\ target' = (IF test_active THEN "zero" ELSE target)
  /\ watchdog_stopped' = TRUE
  /\ UNCHANGED <<up, can_link_lost, fault_latched, reported_fault_masks,
                 encoder_initialized, clocks, command_is_current>>

(* update_motion_test: the test goes on with the speeds t. *)
MotionTestRuns(t) ==
  /\ motion_commands_enabled
  /\ Transmit(PublishedFrames(t), DOMAIN PublishedFrames(t))
  /\ target' = t
  /\ UNCHANGED <<motion_commands_enabled, command_received, watchdog_stopped,
                 test_active>>

(* The speeds t are refused, or their row cannot be written to the log. *)
MotionTestFails(t) ==
  /\ motion_commands_enabled
  /\ Send(PublishedFrames(t) \o StopFrames)
  /\ CloseGate

(* MotionTest::update aborts by itself, or the gate is found closed. *)
MotionTestAborts == AbortMotionTest

(* A completed test keeps the gate open. *)
MotionTestCompletes ==
  /\ motion_commands_enabled
  /\ Send(PublishedFrames("zero"))
  /\ command_received' = FALSE
  /\ FinishMotionTest
  /\ UNCHANGED motion_commands_enabled

ControlUpdatesTest ==
  /\ up /\ ~FeedbackTimedOut /\ test_active
  /\ \/ \E t \in Targets : MotionTestRuns(t) \/ MotionTestFails(t)
     \/ MotionTestAborts
     \/ MotionTestCompletes
  /\ UNCHANGED <<up, can_link_lost, latches, encoder_initialized, clocks,
                 command_is_current>>

(* The cmd_vel watchdog requests zero once, whether or not it is sent. *)
ControlWatchdog ==
  /\ up /\ ~FeedbackTimedOut /\ ~test_active
  /\ ~CommandIsFresh
  /\ ~watchdog_stopped
  /\ Send(PublishedFrames("zero"))
  /\ watchdog_stopped' = TRUE
  /\ UNCHANGED <<up, can_link_lost, motion_commands_enabled, latches,
                 command_received, target, test_active, encoder_initialized,
                 clocks, command_is_current>>

ControlPublishes ==
  /\ up /\ ~FeedbackTimedOut /\ ~test_active
  /\ CommandIsFresh
  /\ Send(PublishedFrames(target))
  /\ UNCHANGED <<up, can_link_lost, motion_commands_enabled, latches, command,
                 test_active, encoder_initialized, clocks,
                 command_is_current>>

(* Mutant: check_feedback_timeout is not called. *)
ControlWithoutTimeout == \/ ControlUpdatesTest
                         \/ ControlWatchdog
                         \/ ControlPublishes

ControlCallback == \/ ControlLatchesTimeout
                   \/ ControlUpdatesTest
                   \/ ControlWatchdog
                   \/ ControlPublishes

-----------------------------------------------------------------------------
(* receive_can_frames, the 50 ms poll, by what it finds. A poll without    *)
(* data, or with a frame that is rejected or only answers a request,       *)
(* changes nothing here. An open socket is asked for the wheel speeds      *)
(* first; a refusal that leaves the socket open changes nothing either.    *)

(* The socket is closed and is not reopened in this poll: it is too early, *)
(* or open() fails.                                                        *)
PollSocketClosed ==
  /\ up /\ EnableCan /\ ~socket_open
  /\ can_link_lost' = TRUE
  /\ IF can_link_lost
     THEN UNCHANGED <<socket_open, drive, motion_commands_enabled, command,
                      test_active>>
     ELSE LatchSafetyStop
  /\ reopen_age' = (IF reopen_age < ReopenInterval THEN reopen_age ELSE 0)
  /\ UNCHANGED <<up, latches, encoder_initialized, command_age, feedback_age,
                 reset_age, command_is_current>>

(* The socket is reopened. The gate is closed by then, so the speed query  *)
(* and the empty receive queue of the new socket change nothing, unless    *)
(* the query closes the socket again.                                      *)
PollReopens ==
  /\ up /\ EnableCan /\ ~socket_open
  /\ reopen_age >= ReopenInterval
  /\ reopen_age' = 0
  /\ can_link_lost' = FALSE
  /\ socket_open' \in BOOLEAN
  /\ IF can_link_lost
     THEN UNCHANGED <<drive, motion_commands_enabled, command, test_active>>
     ELSE drive' = DriveAfter(StopFrames, {}) /\ CloseGate
  /\ UNCHANGED <<up, latches, encoder_initialized, command_age, feedback_age,
                 reset_age, command_is_current>>

(* The speed query closes the socket; receive() then reports an error, and *)
(* only a test is aborted. The next poll closes the gate.                  *)
PollQueryLosesLink ==
  /\ up
  /\ LoseLink(AbortFrames)
  /\ IF test_active THEN CloseGate
     ELSE UNCHANGED <<motion_commands_enabled, command, test_active>>
  /\ UNCHANGED <<up, can_link_lost, latches, encoder_initialized, clocks,
                 command_is_current>>

(* The read finds the link down. can_link_lost is left to the next poll. *)
PollReadLosesLink ==
  /\ up
  /\ LoseLink(StopFrames)
  /\ CloseGate
  /\ UNCHANGED <<up, can_link_lost, latches, encoder_initialized, clocks,
                 command_is_current>>

(* A CAN error frame latches the stop. *)
PollBusFault ==
  /\ up /\ socket_open
  /\ LatchSafetyStop
  /\ UNCHANGED <<up, can_link_lost, latches, encoder_initialized, clocks,
                 command_is_current>>

(* Any other receive error only aborts a test. *)
PollReceiveError ==
  /\ up /\ socket_open /\ test_active
  /\ AbortMotionTest
  /\ UNCHANGED <<up, can_link_lost, latches, encoder_initialized, clocks,
                 command_is_current>>

(* Wheel speeds, encoder deltas or AMR deltas. *)
PollFeedback ==
  /\ up /\ socket_open
  /\ feedback_age' = 0
  /\ UNCHANGED <<up, link, motion_commands_enabled, latches, command,
                 test_active, encoder_initialized, command_age, reset_age,
                 reopen_age, drive, command_is_current>>

(* Encoder positions: the baseline of the odometry, or an increment of it, *)
(* or an implausible jump, which rebases and aborts a test.                *)
PollEncoderPosition ==
  /\ up /\ socket_open
  /\ feedback_age' = 0
  /\ encoder_initialized' = TRUE
  /\ \/ UNCHANGED <<socket_open, drive, motion_commands_enabled, command,
                    test_active>>
     \/ encoder_initialized /\ test_active /\ AbortMotionTest
  /\ UNCHANGED <<up, can_link_lost, latches, command_age, reset_age,
                 reopen_age, command_is_current>>

(* handle_mcu_status once the monitor reports a reset of the controller or *)
(* (only asked while the gate is open) a lost host enable state.           *)
PollMcuReset ==
  /\ up /\ socket_open
  /\ encoder_initialized' = FALSE
  /\ LatchSafetyStop
  /\ UNCHANGED <<up, can_link_lost, latches, clocks, command_is_current>>

(* Mutant: masks are added up. *)
FaultMasksAdded(motor, mask) ==
  [reported_fault_masks EXCEPT ![motor] = @ + mask]

FaultMasksAfter(motor, mask) ==
  [reported_fault_masks EXCEPT ![motor] = mask]

(* A motor fault report. Right after a reset it is ignored; a repeat of a  *)
(* latched fault only refreshes the record.                                *)
PollMotorFault(motor, mask) ==
  /\ up /\ socket_open
  /\ reset_age >= FaultIgnoreWindow
  /\ fault_latched' = TRUE
  /\ reported_fault_masks' = FaultMasksAfter(motor, mask)
  /\ IF ~fault_latched \/ reported_fault_masks[motor] # mask
     THEN LatchSafetyStop
     ELSE UNCHANGED <<socket_open, drive, motion_commands_enabled, command,
                      test_active>>
  /\ UNCHANGED <<up, can_link_lost, feedback_timeout_latched,
                 encoder_initialized, clocks, command_is_current>>

ReceiveCanFrames ==
  \/ PollSocketClosed \/ PollReopens
  \/ PollQueryLosesLink \/ PollReadLosesLink
  \/ PollBusFault \/ PollReceiveError
  \/ PollFeedback \/ PollEncoderPosition \/ PollMcuReset
  \/ \E motor \in Motors, mask \in FaultMasks : PollMotorFault(motor, mask)

-----------------------------------------------------------------------------
(* Time passes. An age past its limit is no longer told apart. *)
Older(age, limit) == IF age < limit THEN age + 1 ELSE age

Tick ==
  /\ up
  /\ command_age' = Older(command_age, CommandTimeout + 1)
  /\ feedback_age' = Older(feedback_age, FeedbackTimeout + 1)
  /\ reset_age' = Older(reset_age, FaultIgnoreWindow)
  /\ reopen_age' = Older(reopen_age, ReopenInterval)
  /\ UNCHANGED <<up, link, motion_commands_enabled, latches, command,
                 test_active, encoder_initialized, drive, command_is_current>>

OperatorEvent ==
  \/ EnableMotors \/ StopMotors \/ ResetFaults
  \/ \E engage \in BOOLEAN : SetEmergencyStop(engage)
  \/ \E t \in Targets : CommandCallback(t)
  \/ MotionTestStart \/ MotionTestCancel

Next == \/ OperatorEvent
        \/ ControlCallback
        \/ ReceiveCanFrames
        \/ Tick
        \/ Shutdown
        \/ Restart

Spec == Init /\ [][Next]_vars

(* The executor runs both timers again and again while the node lives. A   *)
(* poll of an open socket may find nothing for ever, so of the polls only  *)
(* those of a closed socket are bound to do anything.                      *)
Fairness == WF_vars(ControlCallback) /\ WF_vars(PollSocketClosed \/ PollReopens)

FairSpec == Spec /\ Fairness

-----------------------------------------------------------------------------
(* Properties. *)

(* The gate is open only in a live node with a CAN bus and nothing latched: *)
(* every handler that latches also closes the gate, and enable_motors is    *)
(* refused until both latches are cleared. So the repeat of a latched fault *)
(* may skip latch_safety_stop.                                              *)
GateInvariant ==
  motion_commands_enabled =>
    up /\ EnableCan /\ ~fault_latched /\ ~feedback_timeout_latched

(* A motion test runs only behind an open gate, on an odometry baseline     *)
(* taken since the last controller reset, and with no cmd_vel pending, so   *)
(* the "motion gate closed" branch of update_motion_test never runs.        *)
TestInvariant ==
  test_active => /\ motion_commands_enabled
                 /\ encoder_initialized
                 /\ ~command_received

(* Behind an open gate the stored cmd_vel arrived after that gate was       *)
(* opened: an enable never replays a command from before it.                *)
NoReplay ==
  motion_commands_enabled /\ command_received => command_is_current

(* Once the loss of the interface was noticed the gate stays closed until   *)
(* the socket is reopened and the motors are enabled again.                 *)
LinkInvariant ==
  can_link_lost => ~socket_open /\ ~motion_commands_enabled

(* Once the cmd_vel watchdog fired behind an open gate, the drive is not    *)
(* left with a speed unless the zero was attempted and refused.             *)
WatchdogInvariant ==
  motion_commands_enabled /\ watchdog_stopped /\ ~test_active =>
    drive # "moving"

(* A mask is remembered only for a latched fault, so the first report after *)
(* a reset is never taken for a periodic repeat.                            *)
FaultMemory ==
  (\E m \in Motors : reported_fault_masks[m] # 0) => fault_latched

(* The drive is set in motion only behind a gate that is open and unlatched *)
(* with feedback in time, by a test or by a cmd_vel that is fresh and came  *)
(* after the enable.                                                        *)
MotionNeedsPermit ==
  [][drive' # "halted" /\ drive = "halted" =>
       /\ motion_commands_enabled
       /\ ~fault_latched /\ ~feedback_timeout_latched
       /\ feedback_age <= FeedbackTimeout
       /\ test_active \/ (CommandIsFresh /\ command_is_current)]_vars

(* Closing the gate attempts to halt a moving drive in the same callback.   *)
(* The exceptions are reset_faults, the release of the emergency stop, and  *)
(* the destructor when it finds the socket closed.                          *)
GateClosesHalting ==
  [][motion_commands_enabled /\ ~motion_commands_enabled'
       /\ ~ResetFaults /\ ~SetEmergencyStop(FALSE)
       /\ (up' \/ socket_open)
     => drive' # "moving"]_vars

Permit == INSTANCE MotionPermit
            WITH permit <- motion_commands_enabled,
                 latched <- fault_latched \/ feedback_timeout_latched,
                 motion <- IF drive = "halted" THEN "halted" ELSE "moving"

(* The node implements MotionPermit: motion only under a permit, no permit  *)
(* while a condition is latched, and every permit granted from standstill.  *)
ImplementsPermit == Permit!Spec

(* Feedback that stays silent past its limit closes the gate. *)
SilenceCloses ==
  FeedbackTimedOut ~> ~motion_commands_enabled \/ feedback_age = 0

(* A socket that was closed, by a read, a query or any send, closes the     *)
(* gate, although only the next poll looks at it.                           *)
LinkLossCloses == up /\ ~socket_open ~> ~motion_commands_enabled

(* When cmd_vel stops, a zero is attempted or the gate closes.              *)
SilentCommandHalts ==
  motion_commands_enabled /\ ~test_active /\ ~CommandIsFresh
    ~> \/ drive # "moving"
       \/ CommandIsFresh
       \/ ~motion_commands_enabled

(* publish_diagnostics calls a closed gate "safely gated".                  *)
SafelyGated == ~motion_commands_enabled => drive # "moving"

=============================================================================
