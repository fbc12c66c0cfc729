----------------------- MODULE MotorControlNode_halting -----------------------
(***************************************************************************)
(* Proof that the callback which closes the gate also attempts to halt a   *)
(* moving drive, with the exceptions GateClosesHalting names, and that a   *)
(* remembered fault mask belongs to a latched fault.                       *)
(***************************************************************************)
EXTENDS MotorControlNode_permit

GateCloses == motion_commands_enabled /\ ~motion_commands_enabled'

NotMoving == drive # "moving"

NotLeftMoving == GateCloses => NotMoving'

(* A halting frame, accepted or refused, leaves no drive plainly moving.   *)
LEMMA HaltingSend ==
  ASSUME NEW frames, Halting(frames), Send(frames)
  PROVE  NotMoving'
BY HaltAttempted DEF Halting, Send, Transmit, NotMoving

LEMMA LatchHalts ==
  ASSUME LatchSafetyStop
  PROVE  NotLeftMoving
BY StopFramesShape, HaltingSend DEF LatchSafetyStop, NotLeftMoving, GateCloses

LEMMA AbortHalts ==
  ASSUME AbortMotionTest
  PROVE  NotLeftMoving
BY LatchHalts DEF AbortMotionTest, NotLeftMoving, GateCloses

(* A closed socket refuses every frame of the stop.                        *)
LEMMA RefusedHalts ==
  ASSUME drive' = DriveAfter(StopFrames, {})
  PROVE  NotLeftMoving
BY StopFramesShape, HaltAttempted
DEF Halting, NotMoving, NotLeftMoving, GateCloses

LEMMA OperatorHalts ==
  ASSUME OperatorEvent, ~ResetFaults, ~SetEmergencyStop(FALSE)
  PROVE  NotLeftMoving
<1>1. CASE EnableInterruptsTest
  BY <1>1, AbortHalts DEF EnableInterruptsTest
<1>2. CASE EnableSucceeds
  BY <1>2 DEF EnableSucceeds, NotLeftMoving, GateCloses
<1>3. CASE EnableFails
  <2>1. Halting(<<"control", "halt">>)
    <3>1. 2 \in DOMAIN <<"control", "halt">>
      OBVIOUS
    <3> QED
      BY <3>1 DEF Halting
  <2>2. Send(<<"control", "halt">>)
    BY <1>3 DEF EnableFails, Send, Transmit
  <2> QED
    BY <2>1, <2>2, HaltingSend DEF NotLeftMoving
<1>4. CASE StopMotors
  BY <1>4, StopFramesShape, AppendShape, HaltingSend
  DEF StopMotors, NotLeftMoving
<1>5. CASE SetEmergencyStop(TRUE)
  <2>1. Send(Append(AbortFrames, "halt"))
    BY <1>5 DEF SetEmergencyStop
  <2> QED
    BY <2>1, StopFramesShape, AppendShape, HaltingSend DEF NotLeftMoving
<1>6. ASSUME NEW t \in Targets, CommandCallback(t) PROVE NotLeftMoving
  BY <1>6 DEF CommandCallback, NotLeftMoving, GateCloses
<1>7. CASE MotionTestStart
  <2>1. CASE UNCHANGED motion_commands_enabled
    BY <2>1 DEF NotLeftMoving, GateCloses
  <2>2. CASE Send(<<"halt", "halt", "halt">>)
    <3>1. Halting(<<"halt", "halt", "halt">>)
      <4>1. 1 \in DOMAIN <<"halt", "halt", "halt">>
        OBVIOUS
      <4> QED
        BY <4>1 DEF Halting
    <3> QED
      BY <2>2, <3>1, HaltingSend DEF NotLeftMoving
  <2> QED
    BY <1>7, <2>1, <2>2 DEF MotionTestStart, Send, Transmit
<1>8. CASE MotionTestCancel
  BY <1>8, AbortHalts DEF MotionTestCancel
<1>9. SetEmergencyStop(TRUE) \/ SetEmergencyStop(FALSE)
        <=> \E engage \in BOOLEAN : SetEmergencyStop(engage)
  OBVIOUS
<1> QED
  BY <1>1, <1>2, <1>3, <1>4, <1>5, <1>6, <1>7, <1>8, <1>9
  DEF OperatorEvent, EnableMotors

LEMMA ControlHalts ==
  ASSUME ControlCallback
  PROVE  NotLeftMoving
<1>1. CASE ControlLatchesTimeout
  BY <1>1, StopFramesShape, HaltingSend
  DEF ControlLatchesTimeout, NotLeftMoving, GateCloses
<1>2. CASE ControlUpdatesTest
  <2>1. ASSUME NEW t \in Targets, MotionTestRuns(t) PROVE NotLeftMoving
    BY <2>1 DEF MotionTestRuns, NotLeftMoving, GateCloses
  <2>2. ASSUME NEW t \in Targets, MotionTestFails(t) PROVE NotLeftMoving
    <3>1. Halting(PublishedFrames(t) \o StopFrames)
      BY <2>2, PublishedShape, StopFramesShape, ConcatShape
      DEF MotionTestFails
    <3> QED
      BY <2>2, <3>1, HaltingSend DEF MotionTestFails, NotLeftMoving
  <2>3. CASE MotionTestAborts
    BY <2>3, AbortHalts DEF MotionTestAborts
  <2>4. CASE MotionTestCompletes
    BY <2>4 DEF MotionTestCompletes, NotLeftMoving, GateCloses
  <2> QED
    BY <1>2, <2>1, <2>2, <2>3, <2>4 DEF ControlUpdatesTest
<1>3. CASE ControlWatchdog
  BY <1>3 DEF ControlWatchdog, NotLeftMoving, GateCloses
<1>4. CASE ControlPublishes
  BY <1>4 DEF ControlPublishes, NotLeftMoving, GateCloses
<1> QED
  BY <1>1, <1>2, <1>3, <1>4 DEF ControlCallback

LEMMA ReceiveHalts ==
  ASSUME ReceiveCanFrames
  PROVE  NotLeftMoving
<1>1. CASE PollSocketClosed
  BY <1>1, LatchHalts DEF PollSocketClosed, NotLeftMoving, GateCloses
<1>2. CASE PollReopens
  BY <1>2, RefusedHalts DEF PollReopens, NotLeftMoving, GateCloses
<1>3. CASE PollQueryLosesLink
  BY <1>3, RefusedHalts
  DEF PollQueryLosesLink, LoseLink, AbortFrames, NotLeftMoving, GateCloses
<1>4. CASE PollReadLosesLink
  BY <1>4, RefusedHalts DEF PollReadLosesLink, LoseLink
<1>5. CASE PollBusFault
  BY <1>5, LatchHalts DEF PollBusFault
<1>6. CASE PollReceiveError
  BY <1>6, AbortHalts DEF PollReceiveError
<1>7. CASE PollFeedback
  BY <1>7 DEF PollFeedback, NotLeftMoving, GateCloses
<1>8. CASE PollEncoderPosition
  BY <1>8, AbortHalts DEF PollEncoderPosition, NotLeftMoving, GateCloses
<1>9. CASE PollMcuReset
  BY <1>9, LatchHalts DEF PollMcuReset
<1>10. ASSUME NEW motor \in Motors, NEW mask \in FaultMasks,
              PollMotorFault(motor, mask)
       PROVE  NotLeftMoving
  BY <1>10, LatchHalts DEF PollMotorFault, NotLeftMoving, GateCloses
<1> QED
  BY <1>1, <1>2, <1>3, <1>4, <1>5, <1>6, <1>7, <1>8, <1>9, <1>10
  DEF ReceiveCanFrames

(* The destructor halts as long as it finds the socket open.               *)
LEMMA ShutdownHalts ==
  ASSUME Shutdown, socket_open
  PROVE  NotLeftMoving
<1> DEFINE last == <<"halt", "halt">>
<1>1. last \in Seq({"halt"}) /\ 1 \in DOMAIN last /\ last[1] = "halt"
  OBVIOUS
<1>2. Halting(last)
  BY <1>1 DEF Halting
<1> HIDE DEF last
<1>3. Halting(AbortFrames \o last)
  BY <1>1, <1>2, StopFramesShape, HaltOnlyShape, ConcatShape
<1>4. \E ok \in SUBSET DOMAIN (AbortFrames \o last) :
        drive' = DriveAfter(AbortFrames \o last, ok)
  BY DEF Shutdown, last
<1> QED
  BY <1>3, <1>4, HaltAttempted DEF Halting, NotMoving, NotLeftMoving

(* Closing the gate attempts to halt a moving drive in the same callback,   *)
(* reset_faults, the release of the emergency stop and a destructor without *)
(* a socket excepted.                                                       *)
THEOREM HaltingSafety == Spec => GateClosesHalting
<1>1. [Next]_vars =>
        (motion_commands_enabled /\ ~motion_commands_enabled'
           /\ ~ResetFaults /\ ~SetEmergencyStop(FALSE)
           /\ (up' \/ socket_open)
         => drive' # "moving")
  <2> SUFFICES ASSUME [Next]_vars, GateCloses, ~ResetFaults,
                      ~SetEmergencyStop(FALSE), up' \/ socket_open
               PROVE  NotLeftMoving
    BY DEF NotMoving, NotLeftMoving, GateCloses
  <2>1. CASE Shutdown
    <3>1. socket_open
      BY <2>1 DEF Shutdown
    <3> QED
      BY <2>1, <3>1, ShutdownHalts
  <2>2. CASE Tick
    BY <2>2 DEF Tick, GateCloses
  <2>3. CASE Restart
    BY <2>3 DEF Restart, GateCloses
  <2>4. CASE UNCHANGED vars
    BY <2>4 DEF vars, GateCloses
  <2> QED
    BY <2>1, <2>2, <2>3, <2>4, OperatorHalts, ControlHalts, ReceiveHalts
    DEF Next
<1> QED
  BY <1>1, PTL DEF Spec, GateClosesHalting

(* A mask is remembered only for a latched fault.                         *)
THEOREM FaultMemorySafety == Spec => []FaultMemory
<1>1. Init => FaultMemory
  BY DEF Init, Fresh, FaultMemory
<1>2. TypeOK /\ FaultMemory /\ [Next]_vars => FaultMemory'
  <2> SUFFICES ASSUME TypeOK, FaultMemory, [Next]_vars PROVE FaultMemory'
    OBVIOUS
  <2>1. CASE UNCHANGED latches
    BY <2>1 DEF latches, FaultMemory
  <2>2. CASE fault_latched'
    BY <2>2 DEF FaultMemory
  <2>3. CASE reported_fault_masks' = [m \in Motors |-> 0]
    BY <2>3 DEF FaultMemory
  <2>4. UNCHANGED <<fault_latched, reported_fault_masks>> => FaultMemory'
    BY DEF FaultMemory
  <2>5. CASE OperatorEvent
    BY <2>5, <2>1, <2>3
    DEF OperatorEvent, EnableMotors, EnableInterruptsTest, EnableSucceeds,
        EnableFails, StopMotors, ResetFaults, ClearLatches, SetEmergencyStop,
        CommandCallback, MotionTestStart, MotionTestCancel
  <2>6. CASE ControlCallback
    BY <2>6, <2>1, <2>4
    DEF ControlCallback, ControlLatchesTimeout, ControlUpdatesTest,
        ControlWatchdog, ControlPublishes
  <2>7. CASE ReceiveCanFrames
    BY <2>7, <2>1, <2>2
    DEF ReceiveCanFrames, PollSocketClosed, PollReopens, PollQueryLosesLink,
        PollReadLosesLink, PollBusFault, PollReceiveError, PollFeedback,
        PollEncoderPosition, PollMcuReset, PollMotorFault
  <2>8. CASE Tick \/ Restart
    BY <2>8, <2>1 DEF Tick, Restart
  <2>9. CASE Shutdown
    BY <2>9, <2>3 DEF Shutdown
  <2>10. CASE UNCHANGED vars
    BY <2>10, <2>1 DEF vars
  <2> QED
    BY <2>5, <2>6, <2>7, <2>8, <2>9, <2>10 DEF Next
<1> QED
  BY <1>1, <1>2, TypeCorrect, PTL DEF Spec

=============================================================================
