----------------------- MODULE MotorControlNode_permit -----------------------
(***************************************************************************)
(* Proofs about the steps of MotorControlNode: what sets the drive in      *)
(* motion, what closing the gate sends, and that the node implements       *)
(* MotionPermit.                                                           *)
(***************************************************************************)
EXTENDS MotorControlNode_proofs

-----------------------------------------------------------------------------
(* The frames of the handlers. *)

(* Frames without a speed cannot set a halted drive in motion.             *)
Speedless(frames) == \A k \in DOMAIN frames : frames[k] # "speed"

Halting(frames) == \E k \in DOMAIN frames : frames[k] = "halt"

LEMMA SpeedlessKeepsHalted ==
  ASSUME drive = "halted", NEW frames, Speedless(frames),
         NEW ok \in SUBSET DOMAIN frames
  PROVE  DriveAfter(frames, ok) = "halted"
BY DEF DriveAfter, Speedless

(* What an appended frame leaves.                                          *)
LEMMA AppendShape ==
  ASSUME NEW s \in Seq({"halt"})
  PROVE  /\ Speedless(s)
         /\ Speedless(Append(s, "halt")) /\ Halting(Append(s, "halt"))
         /\ Speedless(Append(s, "control"))
BY DEF Speedless, Halting

LEMMA ConcatShape ==
  ASSUME NEW a \in Seq({"halt", "speed"}), NEW b \in Seq({"halt"})
  PROVE  /\ Halting(b) => Halting(a \o b)
         /\ Speedless(a) => Speedless(a \o b)
<1>1. ASSUME Halting(b) PROVE Halting(a \o b)
  <2>1. PICK k \in DOMAIN b : b[k] = "halt"
    BY <1>1 DEF Halting
  <2>2. Len(a) + k \in DOMAIN (a \o b) /\ (a \o b)[Len(a) + k] = "halt"
    BY <2>1
  <2> QED
    BY <2>2 DEF Halting
<1>2. ASSUME Speedless(a) PROVE Speedless(a \o b)
  BY <1>2 DEF Speedless
<1> QED
  BY <1>1, <1>2

LEMMA PublishedShape ==
  ASSUME NEW t
  PROVE  /\ PublishedFrames(t) \in Seq({"halt", "speed"})
         /\ ~motion_commands_enabled => PublishedFrames(t) = <<>>
         /\ PublishedFrames("zero") \in Seq({"halt"})
<1>1. /\ <<"halt">> \in Seq({"halt"}) /\ <<>> \in Seq({"halt"})
      /\ <<"halt">> \in Seq({"halt", "speed"})
      /\ <<"speed">> \in Seq({"halt", "speed"})
      /\ <<>> \in Seq({"halt", "speed"})
  OBVIOUS
<1>2. PublishedFrames(t) \in {<<>>, <<"halt">>, <<"speed">>}
  BY DEF PublishedFrames
<1>3. PublishedFrames("zero") \in {<<>>, <<"halt">>}
  BY DEF PublishedFrames
<1> QED
  BY <1>1, <1>2, <1>3 DEF PublishedFrames

LEMMA HaltOnlyShape ==
  ASSUME NEW a \in Seq({"halt"}), NEW b \in Seq({"halt"})
  PROVE  /\ a \o b \in Seq({"halt"})
         /\ a \in Seq({"halt", "speed"})
OBVIOUS

(* latch_safety_stop sends only halting frames, and at least one if the     *)
(* gate was open.                                                           *)
LEMMA StopFramesShape ==
  /\ StopFrames \in Seq({"halt"})
  /\ AbortFrames \in Seq({"halt"})
  /\ motion_commands_enabled => Halting(StopFrames)
<1> DEFINE zero == IF test_active THEN PublishedFrames("zero") ELSE <<>>
           stop == IF motion_commands_enabled THEN <<"halt">> ELSE <<>>
<1>1. <<>> \in Seq({"halt"}) /\ <<"halt">> \in Seq({"halt"})
  OBVIOUS
<1>2. zero \in Seq({"halt"})
  BY <1>1, PublishedShape
<1>3. stop \in Seq({"halt"})
  BY <1>1
<1>4. motion_commands_enabled => Halting(stop)
  BY DEF Halting
<1>5. StopFrames = zero \o stop
  BY DEF StopFrames
<1> HIDE DEF zero, stop
<1>6. /\ StopFrames \in Seq({"halt"})
      /\ motion_commands_enabled => Halting(StopFrames)
  BY <1>2, <1>3, <1>4, <1>5, HaltOnlyShape, ConcatShape
<1> QED
  BY <1>1, <1>6 DEF AbortFrames

-----------------------------------------------------------------------------
(* The five kinds of step that MotionPermit knows. *)

latched == fault_latched \/ feedback_timeout_latched

LatchesKept == UNCHANGED <<fault_latched, feedback_timeout_latched>>

NoStart == drive = "halted" => drive' = "halted"

MotionPermitted ==
  /\ motion_commands_enabled
  /\ ~fault_latched /\ ~feedback_timeout_latched
  /\ feedback_age <= FeedbackTimeout
  /\ test_active \/ (CommandIsFresh /\ command_is_current)

HaltStep == /\ NoStart /\ LatchesKept
            /\ motion_commands_enabled' \in {motion_commands_enabled, FALSE}
GrantStep == /\ ~latched /\ LatchesKept
             /\ motion_commands_enabled' = TRUE /\ drive' = "halted"
LatchStep == NoStart /\ motion_commands_enabled' = FALSE /\ latched'
ResetStep == NoStart /\ motion_commands_enabled' = FALSE /\ ~latched'
MoveStep == /\ MotionPermitted /\ LatchesKept /\ drive' # "halted"
            /\ motion_commands_enabled' \in BOOLEAN

PermitStep == HaltStep \/ GrantStep \/ LatchStep \/ ResetStep \/ MoveStep

LEMMA SpeedlessSend ==
  ASSUME NEW frames, Speedless(frames), Send(frames)
  PROVE  NoStart
BY SpeedlessKeepsHalted DEF Send, Transmit, NoStart

LEMMA HaltsSend ==
  ASSUME NEW frames \in Seq({"halt"}), Send(frames)
  PROVE  NoStart
BY AppendShape, SpeedlessSend

LEMMA RefusedFrames ==
  ASSUME NEW frames, drive' = DriveAfter(frames, {})
  PROVE  NoStart
BY DEF DriveAfter, NoStart

(* Every path through latch_safety_stop that keeps the latches.            *)
LEMMA LatchIsHalt ==
  ASSUME LatchSafetyStop
  PROVE  NoStart /\ motion_commands_enabled' = FALSE
BY StopFramesShape, HaltsSend DEF LatchSafetyStop, CloseGate

LEMMA AbortIsHalt ==
  ASSUME AbortMotionTest
  PROVE  /\ NoStart
         /\ motion_commands_enabled' \in {motion_commands_enabled, FALSE}
<1>1. CASE test_active
  BY <1>1, LatchIsHalt DEF AbortMotionTest
<1>2. CASE ~test_active
  BY <1>2 DEF AbortMotionTest, NoStart
<1> QED
  BY <1>1, <1>2

(* While a test is active and the feedback is in time, motion is permitted. *)
LEMMA TestPermits ==
  ASSUME IInv, test_active, ~FeedbackTimedOut
  PROVE  MotionPermitted
<1>1. motion_commands_enabled
  BY DEF IInv, TestInvariant
<1>2. EnableCan /\ ~fault_latched /\ ~feedback_timeout_latched
  BY <1>1 DEF IInv, GateInvariant
<1>3. feedback_age <= FeedbackTimeout
  BY <1>1, <1>2, NodeAssumption DEF FeedbackTimedOut, IInv, TypeOK
<1> QED
  BY <1>1, <1>2, <1>3 DEF MotionPermitted

LEMMA EnableKind == IInv /\ EnableMotors => PermitStep
<1> SUFFICES ASSUME IInv, EnableMotors PROVE PermitStep
  OBVIOUS
<1>1. CASE EnableInterruptsTest
  BY <1>1, AbortIsHalt
  DEF EnableInterruptsTest, latches, LatchesKept, HaltStep, PermitStep
<1>2. CASE EnableSucceeds
  <2> DEFINE frames == <<"control", "control", "control", "halt">>
  <2>1. 4 \in 1 .. 4 /\ frames[4] = "halt"
    OBVIOUS
  <2>2. Transmit(frames, 1 .. 4)
    BY <1>2 DEF EnableSucceeds
  <2>3. drive' = "halted"
    BY <2>1, <2>2 DEF Transmit, DriveAfter
  <2> QED
    BY <1>2, <2>3
    DEF EnableSucceeds, EnableGuard, latches, latched, LatchesKept, GrantStep,
        PermitStep
<1>3. CASE EnableFails
  <2>1. Speedless(<<"control", "halt">>)
    BY DEF Speedless
  <2>2. Send(<<"control", "halt">>)
    BY <1>3 DEF EnableFails, Send, Transmit
  <2>3. NoStart
    BY <2>1, <2>2, SpeedlessSend
  <2> QED
    BY <1>3, <2>3 DEF EnableFails, latches, LatchesKept, HaltStep, PermitStep
<1> QED
  BY <1>1, <1>2, <1>3 DEF EnableMotors

LEMMA StopMotorsKind == StopMotors => PermitStep
<1> SUFFICES ASSUME StopMotors PROVE PermitStep
  OBVIOUS
<1>1. NoStart
  BY StopFramesShape, AppendShape, SpeedlessSend DEF StopMotors
<1> QED
  BY <1>1
  DEF StopMotors, CloseGate, latches, LatchesKept, HaltStep, PermitStep

LEMMA EmergencyStopKind ==
  ASSUME NEW engage, SetEmergencyStop(engage)
  PROVE  PermitStep
<1> DEFINE last == IF engage THEN "halt" ELSE "control"
<1>1. Speedless(Append(AbortFrames, last))
  BY StopFramesShape, AppendShape
<1>2. Send(Append(AbortFrames, last))
  BY DEF SetEmergencyStop
<1>3. NoStart
  BY <1>1, <1>2, SpeedlessSend
<1> QED
  BY <1>3
  DEF SetEmergencyStop, CloseGate, latches, LatchesKept, HaltStep, PermitStep

LEMMA ResetFaultsKind == ResetFaults => PermitStep
<1> SUFFICES ASSUME ResetFaults PROVE PermitStep
  OBVIOUS
<1> DEFINE frames == Append(AbortFrames, "control")
<1>1. PICK ok \in SUBSET DOMAIN frames :
        /\ Transmit(frames, ok)
        /\ \/ fault_latched' = FALSE /\ feedback_timeout_latched' = FALSE
           \/ UNCHANGED latches
  BY DEF ResetFaults, ClearLatches
<1>2. Speedless(frames)
  BY StopFramesShape, AppendShape
<1>3. NoStart
  BY <1>1, <1>2, SpeedlessSend DEF Send
<1>4. motion_commands_enabled' = FALSE
  BY DEF ResetFaults, ClearLatches, CloseGate
<1> QED
  BY <1>1, <1>3, <1>4
  DEF latches, latched, LatchesKept, HaltStep, ResetStep, PermitStep

LEMMA CommandCallbackKind ==
  ASSUME NEW t, CommandCallback(t)
  PROVE  PermitStep
<1> DEFINE frames == IF test_active THEN PublishedFrames("zero") ELSE <<>>
<1>1. frames \in Seq({"halt"})
  BY PublishedShape
<1>2. Send(frames)
  BY DEF CommandCallback
<1>3. NoStart
  BY <1>1, <1>2, HaltsSend
<1> QED
  BY <1>3 DEF CommandCallback, latches, LatchesKept, HaltStep, PermitStep

LEMMA MotionTestStartKind == MotionTestStart => PermitStep
<1> SUFFICES ASSUME MotionTestStart PROVE PermitStep
  OBVIOUS
<1>1. /\ LatchesKept
      /\ motion_commands_enabled' \in {motion_commands_enabled, FALSE}
  BY DEF MotionTestStart, latches, LatchesKept
<1>2. \/ Send(<<"halt">>)
      \/ Send(<<"halt", "halt", "halt">>)
  BY DEF MotionTestStart, Send, Transmit
<1>3. Speedless(<<"halt">>) /\ Speedless(<<"halt", "halt", "halt">>)
  BY DEF Speedless
<1>4. NoStart
  BY <1>2, <1>3, SpeedlessSend
<1> QED
  BY <1>1, <1>4 DEF HaltStep, PermitStep

LEMMA MotionTestCancelKind == MotionTestCancel => PermitStep
BY AbortIsHalt DEF MotionTestCancel, latches, LatchesKept, HaltStep, PermitStep

LEMMA ControlKind == IInv /\ ControlCallback => PermitStep
<1> SUFFICES ASSUME IInv, ControlCallback PROVE PermitStep
  OBVIOUS
<1>0. motion_commands_enabled \in BOOLEAN
  BY DEF IInv, TypeOK
<1>1. CASE ControlLatchesTimeout
  <2>1. NoStart
    BY <1>1, StopFramesShape, HaltsSend DEF ControlLatchesTimeout
  <2> QED
    BY <1>1, <2>1 DEF ControlLatchesTimeout, latched, LatchStep, PermitStep
<1>2. CASE ControlUpdatesTest
  <2>1. MotionPermitted /\ LatchesKept
    BY <1>2, TestPermits DEF ControlUpdatesTest, latches, LatchesKept
  <2>2. motion_commands_enabled' \in {motion_commands_enabled, FALSE}
    BY <1>2, AbortIsHalt
    DEF ControlUpdatesTest, MotionTestRuns, MotionTestFails, CloseGate,
        MotionTestAborts, MotionTestCompletes
  <2>3. CASE drive' = "halted"
    BY <2>1, <2>2, <2>3 DEF NoStart, HaltStep, PermitStep
  <2>4. CASE drive' # "halted"
    BY <1>0, <2>1, <2>2, <2>4 DEF MoveStep, PermitStep
  <2> QED
    BY <2>3, <2>4
<1>3. CASE ControlWatchdog
  <2>1. NoStart
    BY <1>3, PublishedShape, HaltsSend DEF ControlWatchdog
  <2> QED
    BY <1>3, <2>1
    DEF ControlWatchdog, latches, LatchesKept, HaltStep, PermitStep
<1>4. CASE ControlPublishes
  <2>1. /\ ~FeedbackTimedOut /\ CommandIsFresh
        /\ Send(PublishedFrames(target))
        /\ LatchesKept
        /\ motion_commands_enabled' = motion_commands_enabled
    BY <1>4 DEF ControlPublishes, latches, LatchesKept
  <2>2. CASE motion_commands_enabled
    <3>1. EnableCan /\ ~fault_latched /\ ~feedback_timeout_latched
      BY <2>2 DEF IInv, GateInvariant
    <3>2. command_is_current
      BY <2>1, <2>2 DEF IInv, NoReplay, CommandIsFresh
    <3>3. feedback_age <= FeedbackTimeout
      BY <2>1, <2>2, <3>1, NodeAssumption DEF FeedbackTimedOut, IInv, TypeOK
    <3>4. MotionPermitted
      BY <2>1, <2>2, <3>1, <3>2, <3>3 DEF MotionPermitted
    <3>5. CASE drive' = "halted"
      BY <2>1, <3>5 DEF NoStart, HaltStep, PermitStep
    <3>6. CASE drive' # "halted"
      BY <1>0, <2>1, <3>4, <3>6 DEF MoveStep, PermitStep
    <3> QED
      BY <3>5, <3>6
  <2>3. CASE ~motion_commands_enabled
    <3>1. PublishedFrames(target) \in Seq({"halt"})
      BY <2>3, PublishedShape
    <3>2. NoStart
      BY <2>1, <3>1, HaltsSend
    <3> QED
      BY <2>1, <3>2 DEF HaltStep, PermitStep
  <2> QED
    BY <2>2, <2>3
<1> QED
  BY <1>1, <1>2, <1>3, <1>4 DEF ControlCallback

(* The repeat of a latched fault, which skips latch_safety_stop, is a latch *)
(* step all the same: the gate is closed already.                          *)
LEMMA PollFaultKind ==
  ASSUME IInv, NEW motor \in Motors, NEW mask \in FaultMasks,
         PollMotorFault(motor, mask)
  PROVE  PermitStep
<1>1. fault_latched' = TRUE
  BY DEF PollMotorFault
<1>2. CASE ~fault_latched \/ reported_fault_masks[motor] # mask
  <2>1. LatchSafetyStop
    BY <1>2 DEF PollMotorFault
  <2> QED
    BY <1>1, <2>1, LatchIsHalt DEF latched, LatchStep, PermitStep
<1>3. CASE fault_latched /\ reported_fault_masks[motor] = mask
  <2>1. UNCHANGED <<drive, motion_commands_enabled>>
    BY <1>3 DEF PollMotorFault
  <2>2. motion_commands_enabled = FALSE
    BY <1>3 DEF IInv, TypeOK, GateInvariant
  <2> QED
    BY <1>1, <2>1, <2>2 DEF NoStart, latched, LatchStep, PermitStep
<1> QED
  BY <1>2, <1>3

LEMMA ReceiveKind == IInv /\ ReceiveCanFrames => PermitStep
<1> SUFFICES ASSUME IInv, ReceiveCanFrames PROVE PermitStep
  OBVIOUS
<1>1. ASSUME NEW motor \in Motors, NEW mask \in FaultMasks,
             PollMotorFault(motor, mask)
      PROVE  PermitStep
  BY <1>1, PollFaultKind
<1>2. CASE PollSocketClosed
  BY <1>2, LatchIsHalt
  DEF PollSocketClosed, latches, LatchesKept, NoStart, HaltStep, PermitStep
<1>3. CASE PollReopens
  BY <1>3, RefusedFrames
  DEF PollReopens, CloseGate, latches, LatchesKept, NoStart, HaltStep,
      PermitStep
<1>4. CASE PollQueryLosesLink
  BY <1>4, RefusedFrames
  DEF PollQueryLosesLink, LoseLink, CloseGate, latches, LatchesKept, HaltStep,
      PermitStep
<1>5. CASE PollReadLosesLink
  BY <1>5, RefusedFrames
  DEF PollReadLosesLink, LoseLink, CloseGate, latches, LatchesKept, HaltStep,
      PermitStep
<1>6. CASE PollBusFault
  BY <1>6, LatchIsHalt
  DEF PollBusFault, latches, LatchesKept, HaltStep, PermitStep
<1>7. CASE PollReceiveError
  BY <1>7, AbortIsHalt
  DEF PollReceiveError, latches, LatchesKept, HaltStep, PermitStep
<1>8. CASE PollFeedback
  BY <1>8 DEF PollFeedback, latches, LatchesKept, NoStart, HaltStep, PermitStep
<1>9. CASE PollEncoderPosition
  BY <1>9, AbortIsHalt
  DEF PollEncoderPosition, latches, LatchesKept, NoStart, HaltStep, PermitStep
<1>10. CASE PollMcuReset
  BY <1>10, LatchIsHalt
  DEF PollMcuReset, latches, LatchesKept, HaltStep, PermitStep
<1> QED
  BY <1>1, <1>2, <1>3, <1>4, <1>5, <1>6, <1>7, <1>8, <1>9, <1>10
  DEF ReceiveCanFrames

LEMMA ShutdownKind == Shutdown => PermitStep
<1> SUFFICES ASSUME Shutdown PROVE PermitStep
  OBVIOUS
<1> DEFINE last == IF socket_open THEN <<"halt", "halt">> ELSE <<>>
           frames == AbortFrames \o last
<1>1. last \in Seq({"halt"})
  <2>1. <<>> \in Seq({"halt"}) /\ <<"halt", "halt">> \in Seq({"halt"})
    OBVIOUS
  <2> QED
    BY <2>1
<1>2. frames \in Seq({"halt"})
  BY <1>1, StopFramesShape, HaltOnlyShape
<1>3. PICK ok \in SUBSET DOMAIN frames : drive' = DriveAfter(frames, ok)
  BY DEF Shutdown
<1>4. NoStart
  BY <1>2, <1>3, AppendShape, SpeedlessKeepsHalted DEF NoStart
<1> QED
  BY <1>4 DEF Shutdown, latched, ResetStep, PermitStep

(* Every step of the node is one of the five kinds.                        *)
LEMMA NextKind == IInv /\ [Next]_vars => PermitStep
<1> SUFFICES ASSUME IInv, [Next]_vars PROVE PermitStep
  OBVIOUS
<1>1. CASE OperatorEvent
  BY <1>1, EnableKind, StopMotorsKind, ResetFaultsKind, EmergencyStopKind,
     CommandCallbackKind, MotionTestStartKind, MotionTestCancelKind
  DEF OperatorEvent
<1>2. CASE Tick
  BY <1>2 DEF Tick, latches, LatchesKept, NoStart, HaltStep, PermitStep
<1>3. CASE Restart
  BY <1>3 DEF Restart, latches, LatchesKept, NoStart, HaltStep, PermitStep
<1>4. CASE UNCHANGED vars
  BY <1>4 DEF vars, latches, LatchesKept, NoStart, HaltStep, PermitStep
<1> QED
  BY <1>1, <1>2, <1>3, <1>4, ControlKind, ReceiveKind, ShutdownKind DEF Next

-----------------------------------------------------------------------------
(* The theorems. *)

(* A halted drive is set in motion only behind an open, unlatched gate with *)
(* feedback in time, by a test or by a fresh cmd_vel given since the enable. *)
THEOREM MotionSafety == Spec => MotionNeedsPermit
<1>1. IInv /\ [Next]_vars =>
        (drive' # "halted" /\ drive = "halted" =>
           /\ motion_commands_enabled
           /\ ~fault_latched /\ ~feedback_timeout_latched
           /\ feedback_age <= FeedbackTimeout
           /\ test_active \/ (CommandIsFresh /\ command_is_current))
  BY NextKind
  DEF PermitStep, HaltStep, GrantStep, LatchStep, ResetStep, MoveStep, NoStart,
      MotionPermitted
<1> QED
  BY <1>1, Invariance, PTL DEF Spec, MotionNeedsPermit

(* The node implements the abstract permit.                                *)
THEOREM PermitRefinement == Spec => ImplementsPermit
<1>1. Init => Permit!Init
  BY DEF Init, Fresh, Permit!Init
<1>2. IInv /\ [Next]_vars => [Permit!Next]_(Permit!permitVars)
  <2> SUFFICES ASSUME IInv, [Next]_vars PROVE Permit!Next
    OBVIOUS
  <2>0. TypeOK
    BY DEF IInv
  <2>1. CASE HaltStep
    BY <2>1 DEF HaltStep, NoStart, LatchesKept, Permit!Next, Permit!Halt
  <2>2. CASE GrantStep
    BY <2>2 DEF GrantStep, latched, LatchesKept, Permit!Next, Permit!Grant
  <2>3. CASE LatchStep
    <3>1. (fault_latched \/ feedback_timeout_latched)' = TRUE
      BY <2>3 DEF LatchStep, latched
    <3> QED
      BY <2>3, <3>1 DEF LatchStep, NoStart, Permit!Next, Permit!Latch
  <2>4. CASE ResetStep
    <3>1. (fault_latched \/ feedback_timeout_latched)' = FALSE
      BY <2>4 DEF ResetStep, latched
    <3> QED
      BY <2>4, <3>1 DEF ResetStep, NoStart, Permit!Next, Permit!Reset
  <2>5. CASE MoveStep
    BY <2>5
    DEF MoveStep, MotionPermitted, LatchesKept, Permit!Next, Permit!Move
  <2> QED
    BY <2>1, <2>2, <2>3, <2>4, <2>5, NextKind DEF PermitStep
<1> QED
  BY <1>1, <1>2, Invariance, PTL DEF Spec, ImplementsPermit, Permit!Spec

=============================================================================
