----------------------- MODULE MotorControlNode_proofs -----------------------
(***************************************************************************)
(* Proofs about MotorControlNode, for every value of its constants.        *)
(***************************************************************************)
EXTENDS MotorControlNode, TLAPS

(* The watchdog fires only on a command that is absent or too old, and only *)
(* a new command, which resets it, makes the command fresh again. This is   *)
(* what keeps ControlPublishes from undoing the zero of the watchdog.       *)
WatchdogIsStale ==
  watchdog_stopped /\ command_received => command_age > CommandTimeout

(* The inductive invariant. *)
IInv == /\ TypeOK
        /\ GateInvariant
        /\ TestInvariant
        /\ NoReplay
        /\ LinkInvariant
        /\ WatchdogInvariant
        /\ WatchdogIsStale
        /\ FaultMemory

-----------------------------------------------------------------------------
(* What transmission leaves. *)

LEMMA DriveType ==
  ASSUME drive \in DriveStates, NEW frames, NEW ok
  PROVE  DriveAfter(frames, ok) \in DriveStates
BY DEF DriveAfter, DriveStates

(* A halting frame was attempted: the drive is not left simply moving. *)
LEMMA HaltAttempted ==
  ASSUME NEW frames, NEW ok,
         \E k \in DOMAIN frames : frames[k] = "halt"
  PROVE  DriveAfter(frames, ok) # "moving"
BY DEF DriveAfter

LEMMA TransmitEffect ==
  ASSUME drive \in DriveStates, NEW frames, NEW ok, Transmit(frames, ok)
  PROVE  /\ socket_open' \in BOOLEAN
         /\ drive' \in DriveStates
         /\ ~socket_open => ~socket_open'
BY DriveType DEF Transmit

LEMMA SendEffect ==
  ASSUME drive \in DriveStates, NEW frames, Send(frames)
  PROVE  /\ socket_open' \in BOOLEAN
         /\ drive' \in DriveStates
         /\ ~socket_open => ~socket_open'
BY TransmitEffect DEF Send

LEMMA CloseGateEffect ==
  ASSUME TypeOK, CloseGate
  PROVE  /\ motion_commands_enabled' = FALSE
         /\ command_received' = FALSE
         /\ test_active' = FALSE
         /\ watchdog_stopped' \in BOOLEAN
         /\ target' \in Targets
BY DEF TypeOK, CloseGate, FinishMotionTest, Targets

(* An age that is reset is in its range. *)
LEMMA ResetAges ==
  /\ 0 \in 0 .. CommandTimeout + 1
  /\ 0 \in 0 .. FeedbackTimeout + 1
  /\ 0 \in 0 .. FaultIgnoreWindow
  /\ 0 \in 0 .. ReopenInterval
  /\ FaultIgnoreWindow \in 0 .. FaultIgnoreWindow
  /\ ReopenInterval \in 0 .. ReopenInterval
BY NodeAssumption

(* latch_safety_stop leaves a closed gate, no test and no command. *)
LEMMA LatchEffect ==
  ASSUME TypeOK, LatchSafetyStop
  PROVE  /\ socket_open' \in BOOLEAN
         /\ drive' \in DriveStates
         /\ ~socket_open => ~socket_open'
         /\ motion_commands_enabled' = FALSE
         /\ command_received' = FALSE
         /\ test_active' = FALSE
         /\ watchdog_stopped' \in BOOLEAN
         /\ target' \in Targets
<1>1. drive \in DriveStates
  BY DEF TypeOK
<1>2. CloseGate /\ Send(StopFrames)
  BY DEF LatchSafetyStop
<1> QED
  BY <1>1, <1>2, SendEffect, CloseGateEffect

-----------------------------------------------------------------------------
THEOREM InitIInv == Init => IInv
<1> SUFFICES ASSUME Init PROVE IInv
  OBVIOUS
<1> USE DEF Init, Fresh
<1>1. /\ reset_age \in 0 .. FaultIgnoreWindow
      /\ reopen_age \in 0 .. ReopenInterval
      /\ command_age \in 0 .. CommandTimeout + 1
      /\ feedback_age \in 0 .. FeedbackTimeout + 1
  BY ResetAges
<1>2. socket_open \in BOOLEAN
  BY NodeAssumption
<1>3. reported_fault_masks \in [Motors -> FaultMasks \cup {0}]
  OBVIOUS
<1>4. TypeOK
  BY <1>1, <1>2, <1>3 DEF TypeOK, Targets, DriveStates
<1>5. FaultMemory
  BY DEF FaultMemory
<1> QED
  BY <1>4, <1>5
  DEF IInv, GateInvariant, TestInvariant, NoReplay, LinkInvariant,
      WatchdogInvariant, WatchdogIsStale

(* A callback that closes the gate, clears the command and the test, and    *)
(* leaves the rest well typed preserves the invariant.                      *)
LEMMA ClosedGateStep ==
  ASSUME IInv,
         TypeOK',
         motion_commands_enabled' = FALSE,
         command_received' = FALSE,
         test_active' = FALSE,
         can_link_lost' => ~socket_open',
         FaultMemory'
  PROVE  IInv'
BY DEF IInv, GateInvariant, TestInvariant, NoReplay, LinkInvariant,
       WatchdogInvariant, WatchdogIsStale

LEMMA LinkStaysDown ==
  ASSUME IInv, can_link_lost' = can_link_lost,
         ~socket_open => ~socket_open'
  PROVE  can_link_lost' => ~socket_open'
BY DEF IInv, LinkInvariant

LEMMA FaultMemoryKept ==
  ASSUME IInv, UNCHANGED <<fault_latched, reported_fault_masks>>
  PROVE  FaultMemory'
BY DEF IInv, FaultMemory

(* A handler that closes the gate and aborts a test, and leaves the latches *)
(* and the clocks alone.                                                    *)
LEMMA StopStep ==
  ASSUME IInv,
         socket_open' \in BOOLEAN,
         drive' \in DriveStates,
         ~socket_open => ~socket_open',
         CloseGate,
         UNCHANGED <<up, can_link_lost, latches, encoder_initialized, clocks,
                     command_is_current>>
  PROVE  IInv'
<1>1. TypeOK
  BY DEF IInv
<1>2. /\ motion_commands_enabled' = FALSE
      /\ command_received' = FALSE
      /\ test_active' = FALSE
      /\ watchdog_stopped' \in BOOLEAN
      /\ target' \in Targets
  BY <1>1, CloseGateEffect
<1>3. TypeOK'
  BY <1>1, <1>2 DEF TypeOK, latches, clocks
<1>4. can_link_lost' => ~socket_open'
  BY LinkStaysDown
<1>5. FaultMemory'
  BY FaultMemoryKept DEF latches
<1> QED
  BY <1>2, <1>3, <1>4, <1>5, ClosedGateStep

(* abort_motion_test while a test is active, with nothing else changed. *)
LEMMA AbortStep ==
  ASSUME IInv,
         test_active,
         AbortMotionTest,
         UNCHANGED <<up, can_link_lost, latches, encoder_initialized, clocks,
                     command_is_current>>
  PROVE  IInv'
<1>1. TypeOK
  BY DEF IInv
<1>2. LatchSafetyStop
  BY DEF AbortMotionTest
<1>3. CloseGate
  BY <1>2 DEF LatchSafetyStop
<1> QED
  BY <1>1, <1>2, <1>3, LatchEffect, StopStep

-----------------------------------------------------------------------------
(* The operator's events. *)

LEMMA EnableStep == IInv /\ EnableMotors => IInv'
<1> SUFFICES ASSUME IInv, EnableMotors PROVE IInv'
  OBVIOUS
<1>0. TypeOK /\ drive \in DriveStates
  BY DEF IInv, TypeOK
<1>1. CASE EnableInterruptsTest
  BY <1>1, AbortStep DEF EnableInterruptsTest
<1>2. CASE EnableSucceeds
  <2> DEFINE frames == <<"control", "control", "control", "halt">>
  <2>1. /\ EnableGuard /\ Transmit(frames, 1 .. 4)
        /\ feedback_age' = 0
        /\ command_received' = FALSE
        /\ watchdog_stopped' = FALSE
        /\ motion_commands_enabled' = TRUE
        /\ command_is_current' = FALSE
        /\ UNCHANGED <<up, can_link_lost, latches, target, test_active,
                       encoder_initialized, command_age, reset_age,
                       reopen_age>>
    BY <1>2 DEF EnableSucceeds, ForgetCommand
  <2>2. socket_open' \in BOOLEAN /\ drive' \in DriveStates
    BY <1>0, <2>1, TransmitEffect
  <2>3. socket_open
    <3>1. 1 .. 4 # {}
      OBVIOUS
    <3> QED
      BY <2>1, <3>1 DEF Transmit
  <2>4. TypeOK'
    BY <1>0, <2>1, <2>2, ResetAges DEF TypeOK, latches
  <2>5. ~can_link_lost'
    BY <2>1, <2>3 DEF IInv, LinkInvariant
  <2>6. GateInvariant' /\ TestInvariant'
    BY <2>1 DEF EnableGuard, GateInvariant, TestInvariant, latches
  <2>7. FaultMemory'
    BY <2>1, FaultMemoryKept DEF latches
  <2> QED
    BY <2>1, <2>4, <2>5, <2>6, <2>7
    DEF IInv, NoReplay, LinkInvariant, WatchdogInvariant, WatchdogIsStale
<1>3. CASE EnableFails
  <2>1. PICK ok \in SUBSET {2} : Transmit(<<"control", "halt">>, ok)
    BY <1>3 DEF EnableFails
  <2>2. /\ EnableGuard
        /\ motion_commands_enabled' = FALSE
        /\ UNCHANGED <<up, can_link_lost, latches, command, test_active,
                       encoder_initialized, clocks, command_is_current>>
    BY <1>3 DEF EnableFails
  <2>3. /\ socket_open' \in BOOLEAN /\ drive' \in DriveStates
        /\ ~socket_open => ~socket_open'
    BY <1>0, <2>1, TransmitEffect
  <2>4. TypeOK'
    BY <1>0, <2>2, <2>3 DEF TypeOK, latches, command, clocks
  <2>5. can_link_lost' => ~socket_open'
    BY <2>2, <2>3, LinkStaysDown
  <2>6. FaultMemory'
    BY <2>2, FaultMemoryKept DEF latches
  <2> QED
    BY <2>2, <2>4, <2>5, <2>6
    DEF IInv, EnableGuard, command, clocks, GateInvariant, TestInvariant,
        NoReplay, LinkInvariant, WatchdogInvariant, WatchdogIsStale
<1> QED
  BY <1>1, <1>2, <1>3 DEF EnableMotors

LEMMA StopMotorsStep == IInv /\ StopMotors => IInv'
<1> SUFFICES ASSUME IInv, StopMotors PROVE IInv'
  OBVIOUS
<1>1. drive \in DriveStates
  BY DEF IInv, TypeOK
<1>2. Send(Append(AbortFrames, "halt"))
  BY DEF StopMotors
<1> QED
  BY <1>1, <1>2, SendEffect, StopStep DEF StopMotors

LEMMA EmergencyStopStep ==
  ASSUME IInv, NEW engage \in BOOLEAN, SetEmergencyStop(engage)
  PROVE  IInv'
<1>1. drive \in DriveStates
  BY DEF IInv, TypeOK
<1>2. Send(Append(AbortFrames, IF engage THEN "halt" ELSE "control"))
  BY DEF SetEmergencyStop
<1> QED
  BY <1>1, <1>2, SendEffect, StopStep DEF SetEmergencyStop

LEMMA ResetFaultsStep == IInv /\ ResetFaults => IInv'
<1> SUFFICES ASSUME IInv, ResetFaults PROVE IInv'
  OBVIOUS
<1> DEFINE frames == Append(AbortFrames, "control")
<1>0. TypeOK /\ drive \in DriveStates
  BY DEF IInv, TypeOK
<1>1. PICK ok \in SUBSET DOMAIN frames :
        /\ Transmit(frames, ok)
        /\ IF Len(frames) \in ok
           THEN /\ fault_latched' = FALSE
                /\ feedback_timeout_latched' = FALSE
                /\ reported_fault_masks' = [m \in Motors |-> 0]
                /\ reset_age' = 0
                /\ feedback_age' = 0
           ELSE UNCHANGED <<latches, reset_age, feedback_age>>
  BY DEF ResetFaults, ClearLatches
<1>2. /\ CloseGate
      /\ UNCHANGED <<up, can_link_lost, encoder_initialized, command_age,
                     reopen_age, command_is_current>>
  BY DEF ResetFaults, ClearLatches
<1>3. /\ socket_open' \in BOOLEAN /\ drive' \in DriveStates
      /\ ~socket_open => ~socket_open'
  BY <1>0, <1>1, TransmitEffect
<1>4. /\ motion_commands_enabled' = FALSE
      /\ command_received' = FALSE
      /\ test_active' = FALSE
      /\ watchdog_stopped' \in BOOLEAN
      /\ target' \in Targets
  BY <1>0, <1>2, CloseGateEffect
<1>5. can_link_lost' => ~socket_open'
  BY <1>2, <1>3, LinkStaysDown
<1>6. CASE Len(frames) \in ok
  <2>1. /\ fault_latched' = FALSE
        /\ feedback_timeout_latched' = FALSE
        /\ reported_fault_masks' = [m \in Motors |-> 0]
        /\ reset_age' = 0
        /\ feedback_age' = 0
    BY <1>1, <1>6
  <2>2. reported_fault_masks' \in [Motors -> FaultMasks \cup {0}]
    BY <2>1
  <2>3. TypeOK'
    BY <1>0, <1>2, <1>3, <1>4, <2>1, <2>2, ResetAges DEF TypeOK
  <2>4. FaultMemory'
    BY <2>1 DEF FaultMemory
  <2> QED
    BY <1>4, <1>5, <2>3, <2>4, ClosedGateStep
<1>7. CASE Len(frames) \notin ok
  BY <1>1, <1>2, <1>3, <1>7, StopStep DEF clocks
<1> QED
  BY <1>6, <1>7

LEMMA CommandCallbackStep ==
  ASSUME IInv, NEW t \in Targets, CommandCallback(t)
  PROVE  IInv'
<1>0. TypeOK /\ drive \in DriveStates
  BY DEF IInv, TypeOK
<1> DEFINE frames == IF test_active THEN PublishedFrames("zero") ELSE <<>>
<1>1. /\ Send(frames)
      /\ test_active' = FALSE
      /\ target' = t
      /\ command_age' = 0
      /\ command_received' = TRUE
      /\ watchdog_stopped' = FALSE
      /\ command_is_current' = TRUE
      /\ UNCHANGED <<up, can_link_lost, motion_commands_enabled, latches,
                     encoder_initialized, feedback_age, reset_age,
                     reopen_age>>
  BY DEF CommandCallback
<1> HIDE DEF frames
<1>2. /\ socket_open' \in BOOLEAN /\ drive' \in DriveStates
      /\ ~socket_open => ~socket_open'
  BY <1>0, <1>1, SendEffect
<1>3. TypeOK'
  BY <1>0, <1>1, <1>2, ResetAges DEF TypeOK, latches
<1>4. LinkInvariant'
  BY <1>1, <1>2 DEF IInv, LinkInvariant
<1>5. FaultMemory'
  BY <1>1, FaultMemoryKept DEF latches
<1> QED
  BY <1>1, <1>3, <1>4, <1>5
  DEF IInv, latches, GateInvariant, TestInvariant, NoReplay,
      WatchdogInvariant, WatchdogIsStale

LEMMA MotionTestStartStep == IInv /\ MotionTestStart => IInv'
<1> SUFFICES ASSUME IInv, MotionTestStart PROVE IInv'
  OBVIOUS
<1>0. TypeOK /\ drive \in DriveStates
  BY DEF IInv, TypeOK
<1>1. /\ motion_commands_enabled /\ encoder_initialized
      /\ command_received' = FALSE
      /\ target' = "zero"
      /\ UNCHANGED <<up, can_link_lost, latches, encoder_initialized, clocks,
                     command_is_current>>
  BY DEF MotionTestStart
<1>2. FaultMemory'
  BY <1>1, FaultMemoryKept DEF latches
<1>3. CASE /\ Transmit(<<"halt">>, {1})
           /\ test_active' = TRUE
           /\ UNCHANGED <<motion_commands_enabled, watchdog_stopped>>
  <2>1. /\ socket_open' \in BOOLEAN /\ drive' \in DriveStates
        /\ ~socket_open => ~socket_open'
    BY <1>0, <1>3, TransmitEffect
  <2>2. TypeOK'
    BY <1>0, <1>1, <1>3, <2>1 DEF TypeOK, latches, clocks, Targets
  <2> QED
    BY <1>1, <1>2, <1>3, <2>1, <2>2
    DEF IInv, latches, clocks, GateInvariant, TestInvariant, NoReplay,
        LinkInvariant, WatchdogInvariant, WatchdogIsStale
<1>4. CASE /\ \E ok \in SUBSET {2, 3} :
                Transmit(<<"halt", "halt", "halt">>, ok)
           /\ test_active' = FALSE
           /\ motion_commands_enabled' = FALSE
           /\ watchdog_stopped' = FALSE
  <2>1. PICK ok \in SUBSET {2, 3} : Transmit(<<"halt", "halt", "halt">>, ok)
    BY <1>4
  <2>2. /\ socket_open' \in BOOLEAN /\ drive' \in DriveStates
        /\ ~socket_open => ~socket_open'
    BY <1>0, <2>1, TransmitEffect
  <2>3. TypeOK'
    BY <1>0, <1>1, <1>4, <2>2 DEF TypeOK, latches, clocks, Targets
  <2>4. can_link_lost' => ~socket_open'
    BY <1>1, <2>2, LinkStaysDown
  <2> QED
    BY <1>1, <1>2, <1>4, <2>3, <2>4, ClosedGateStep
<1> QED
  BY <1>3, <1>4 DEF MotionTestStart

LEMMA MotionTestCancelStep == IInv /\ MotionTestCancel => IInv'
BY AbortStep DEF MotionTestCancel

-----------------------------------------------------------------------------
(* The control timer. *)

LEMMA LatchesTimeoutStep == IInv /\ ControlLatchesTimeout => IInv'
<1> SUFFICES ASSUME IInv, ControlLatchesTimeout PROVE IInv'
  OBVIOUS
<1>0. TypeOK /\ drive \in DriveStates
  BY DEF IInv, TypeOK
<1>1. /\ feedback_timeout_latched' = TRUE
      /\ Send(StopFrames)
      /\ motion_commands_enabled' = FALSE
      /\ command_received' = FALSE
      /\ test_active' = FALSE
      /\ target' = (IF test_active THEN "zero" ELSE target)
      /\ watchdog_stopped' = TRUE
      /\ UNCHANGED <<up, can_link_lost, fault_latched, reported_fault_masks,
                     encoder_initialized, clocks, command_is_current>>
  BY DEF ControlLatchesTimeout
<1>2. /\ socket_open' \in BOOLEAN /\ drive' \in DriveStates
      /\ ~socket_open => ~socket_open'
  BY <1>0, <1>1, SendEffect
<1>3. target' \in Targets
  BY <1>0, <1>1 DEF TypeOK, Targets
<1>4. TypeOK'
  BY <1>0, <1>1, <1>2, <1>3 DEF TypeOK, clocks
<1>5. can_link_lost' => ~socket_open'
  BY <1>1, <1>2, LinkStaysDown
<1>6. FaultMemory'
  BY <1>1, FaultMemoryKept
<1> QED
  BY <1>1, <1>4, <1>5, <1>6, ClosedGateStep

LEMMA UpdatesTestStep == IInv /\ ControlUpdatesTest => IInv'
<1> SUFFICES ASSUME IInv, ControlUpdatesTest PROVE IInv'
  OBVIOUS
<1>0. TypeOK /\ drive \in DriveStates
  BY DEF IInv, TypeOK
<1>1. /\ test_active
      /\ UNCHANGED <<up, can_link_lost, latches, encoder_initialized, clocks,
                     command_is_current>>
  BY DEF ControlUpdatesTest
<1>2. FaultMemory'
  BY <1>1, FaultMemoryKept DEF latches
<1>3. ASSUME NEW t \in Targets, MotionTestRuns(t) PROVE IInv'
  <2>1. /\ Transmit(PublishedFrames(t), DOMAIN PublishedFrames(t))
        /\ target' = t
        /\ UNCHANGED <<motion_commands_enabled, command_received,
                       watchdog_stopped, test_active>>
    BY <1>3 DEF MotionTestRuns
  <2>2. /\ socket_open' \in BOOLEAN /\ drive' \in DriveStates
        /\ ~socket_open => ~socket_open'
    BY <1>0, <2>1, TransmitEffect
  <2>3. TypeOK'
    BY <1>0, <1>1, <2>1, <2>2 DEF TypeOK, latches, clocks
  <2> QED
    BY <1>1, <1>2, <2>1, <2>2, <2>3
    DEF IInv, latches, clocks, GateInvariant, TestInvariant, NoReplay,
        LinkInvariant, WatchdogInvariant, WatchdogIsStale
<1>4. ASSUME NEW t \in Targets, MotionTestFails(t) PROVE IInv'
  <2>1. Send(PublishedFrames(t) \o StopFrames) /\ CloseGate
    BY <1>4 DEF MotionTestFails
  <2> QED
    BY <1>0, <1>1, <2>1, SendEffect, StopStep
<1>5. CASE MotionTestAborts
  BY <1>1, <1>5, AbortStep DEF MotionTestAborts
<1>6. CASE MotionTestCompletes
  <2>1. /\ Send(PublishedFrames("zero"))
        /\ command_received' = FALSE
        /\ test_active' = FALSE
        /\ watchdog_stopped' = FALSE
        /\ target' = "zero"
        /\ UNCHANGED motion_commands_enabled
    BY <1>1, <1>6 DEF MotionTestCompletes, FinishMotionTest
  <2>2. /\ socket_open' \in BOOLEAN /\ drive' \in DriveStates
        /\ ~socket_open => ~socket_open'
    BY <1>0, <2>1, SendEffect
  <2>3. TypeOK'
    BY <1>0, <1>1, <2>1, <2>2 DEF TypeOK, latches, clocks, Targets
  <2> QED
    BY <1>1, <1>2, <2>1, <2>2, <2>3
    DEF IInv, latches, clocks, GateInvariant, TestInvariant, NoReplay,
        LinkInvariant, WatchdogInvariant, WatchdogIsStale
<1> QED
  BY <1>3, <1>4, <1>5, <1>6 DEF ControlUpdatesTest

(* Behind an open gate the watchdog attempts a zero, so that it never      *)
(* leaves the drive moving.                                                *)
LEMMA ZeroAttempted ==
  ASSUME EnableCan, motion_commands_enabled, Send(PublishedFrames("zero"))
  PROVE  drive' # "moving"
<1>1. PublishedFrames("zero") = <<"halt">>
  BY DEF PublishedFrames
<1>2. PICK ok \in SUBSET DOMAIN <<"halt">> : Transmit(<<"halt">>, ok)
  BY <1>1 DEF Send
<1>3. \E k \in DOMAIN <<"halt">> : <<"halt">>[k] = "halt"
  OBVIOUS
<1> QED
  BY <1>2, <1>3, HaltAttempted DEF Transmit

LEMMA WatchdogStep == IInv /\ ControlWatchdog => IInv'
<1> SUFFICES ASSUME IInv, ControlWatchdog PROVE IInv'
  OBVIOUS
<1>0. TypeOK /\ drive \in DriveStates
  BY DEF IInv, TypeOK
<1>1. /\ ~test_active
      /\ ~CommandIsFresh
      /\ Send(PublishedFrames("zero"))
      /\ watchdog_stopped' = TRUE
      /\ UNCHANGED <<up, can_link_lost, motion_commands_enabled, latches,
                     command_received, target, test_active,
                     encoder_initialized, clocks, command_is_current>>
  BY DEF ControlWatchdog
<1>2. /\ socket_open' \in BOOLEAN /\ drive' \in DriveStates
      /\ ~socket_open => ~socket_open'
  BY <1>0, <1>1, SendEffect
<1>3. TypeOK'
  BY <1>0, <1>1, <1>2 DEF TypeOK, latches, clocks
<1>4. WatchdogInvariant'
  BY <1>1, ZeroAttempted DEF IInv, GateInvariant, WatchdogInvariant
<1>5. WatchdogIsStale'
  BY <1>0, <1>1, NodeAssumption
  DEF TypeOK, WatchdogIsStale, CommandIsFresh, clocks
<1>6. FaultMemory'
  BY <1>1, FaultMemoryKept DEF latches
<1> QED
  BY <1>1, <1>2, <1>3, <1>4, <1>5, <1>6
  DEF IInv, latches, GateInvariant, TestInvariant, NoReplay, LinkInvariant

LEMMA PublishesStep == IInv /\ ControlPublishes => IInv'
<1> SUFFICES ASSUME IInv, ControlPublishes PROVE IInv'
  OBVIOUS
<1>0. TypeOK /\ drive \in DriveStates
  BY DEF IInv, TypeOK
<1>1. /\ ~test_active
      /\ CommandIsFresh
      /\ Send(PublishedFrames(target))
      /\ UNCHANGED <<up, can_link_lost, motion_commands_enabled, latches,
                     command, test_active, encoder_initialized, clocks,
                     command_is_current>>
  BY DEF ControlPublishes
<1>2. /\ socket_open' \in BOOLEAN /\ drive' \in DriveStates
      /\ ~socket_open => ~socket_open'
  BY <1>0, <1>1, SendEffect
<1>3. TypeOK'
  BY <1>0, <1>1, <1>2 DEF TypeOK, latches, command, clocks
<1>4. ~watchdog_stopped'
  BY <1>0, <1>1, NodeAssumption
  DEF IInv, TypeOK, WatchdogIsStale, CommandIsFresh, command
<1>5. FaultMemory'
  BY <1>1, FaultMemoryKept DEF latches
<1> QED
  BY <1>1, <1>2, <1>3, <1>4, <1>5
  DEF IInv, latches, command, clocks, GateInvariant, TestInvariant, NoReplay,
      LinkInvariant, WatchdogInvariant, WatchdogIsStale

-----------------------------------------------------------------------------
(* The receive poll. *)

(* An empty list of frames leaves the drive alone. *)
LEMMA NothingAttempted == DriveAfter(<<>>, {}) = drive
<1>1. DOMAIN <<>> = {}
  OBVIOUS
<1> QED
  BY <1>1 DEF DriveAfter

LEMMA PollSocketClosedStep == IInv /\ PollSocketClosed => IInv'
<1> SUFFICES ASSUME IInv, PollSocketClosed PROVE IInv'
  OBVIOUS
<1>0. TypeOK /\ drive \in DriveStates
  BY DEF IInv, TypeOK
<1>1. /\ ~socket_open
      /\ can_link_lost' = TRUE
      /\ reopen_age' = (IF reopen_age < ReopenInterval THEN reopen_age ELSE 0)
      /\ UNCHANGED <<up, latches, encoder_initialized, command_age,
                     feedback_age, reset_age, command_is_current>>
  BY DEF PollSocketClosed
<1>2. reopen_age' \in 0 .. ReopenInterval
  BY <1>0, <1>1, ResetAges DEF TypeOK
<1>3. FaultMemory'
  BY <1>1, FaultMemoryKept DEF latches
<1>4. CASE can_link_lost
  <2>1. UNCHANGED <<socket_open, drive, motion_commands_enabled, command,
                    test_active>>
    BY <1>4 DEF PollSocketClosed
  <2>2. TypeOK'
    BY <1>0, <1>1, <1>2, <2>1 DEF TypeOK, latches, command
  <2> QED
    BY <1>1, <1>3, <1>4, <2>1, <2>2
    DEF IInv, command, GateInvariant, TestInvariant, NoReplay, LinkInvariant,
        WatchdogInvariant, WatchdogIsStale
<1>5. CASE ~can_link_lost
  <2>1. LatchSafetyStop
    BY <1>5 DEF PollSocketClosed
  <2>2. /\ socket_open' \in BOOLEAN
        /\ drive' \in DriveStates
        /\ ~socket_open'
        /\ motion_commands_enabled' = FALSE
        /\ command_received' = FALSE
        /\ test_active' = FALSE
        /\ watchdog_stopped' \in BOOLEAN
        /\ target' \in Targets
    BY <1>0, <1>1, <2>1, LatchEffect
  <2>3. TypeOK'
    BY <1>0, <1>1, <1>2, <2>2 DEF TypeOK, latches
  <2> QED
    BY <1>3, <2>2, <2>3, ClosedGateStep
<1> QED
  BY <1>4, <1>5

LEMMA PollReopensStep == IInv /\ PollReopens => IInv'
<1> SUFFICES ASSUME IInv, PollReopens PROVE IInv'
  OBVIOUS
<1>0. TypeOK /\ drive \in DriveStates
  BY DEF IInv, TypeOK
<1>1. /\ reopen_age' = 0
      /\ can_link_lost' = FALSE
      /\ socket_open' \in BOOLEAN
      /\ UNCHANGED <<up, latches, encoder_initialized, command_age,
                     feedback_age, reset_age, command_is_current>>
  BY DEF PollReopens
<1>2. FaultMemory'
  BY <1>1, FaultMemoryKept DEF latches
<1>3. CASE can_link_lost
  <2>1. UNCHANGED <<drive, motion_commands_enabled, command, test_active>>
    BY <1>3 DEF PollReopens
  <2>2. TypeOK'
    BY <1>0, <1>1, <2>1, ResetAges DEF TypeOK, latches, command
  <2> QED
    BY <1>1, <1>2, <1>3, <2>1, <2>2
    DEF IInv, command, GateInvariant, TestInvariant, NoReplay, LinkInvariant,
        WatchdogInvariant, WatchdogIsStale
<1>4. CASE ~can_link_lost
  <2>1. drive' = DriveAfter(StopFrames, {}) /\ CloseGate
    BY <1>4 DEF PollReopens
  <2>2. drive' \in DriveStates
    BY <1>0, <2>1, DriveType
  <2>3. /\ motion_commands_enabled' = FALSE
        /\ command_received' = FALSE
        /\ test_active' = FALSE
        /\ watchdog_stopped' \in BOOLEAN
        /\ target' \in Targets
    BY <1>0, <2>1, CloseGateEffect
  <2>4. TypeOK'
    BY <1>0, <1>1, <2>2, <2>3, ResetAges DEF TypeOK, latches
  <2> QED
    BY <1>1, <1>2, <2>3, <2>4, ClosedGateStep
<1> QED
  BY <1>3, <1>4

LEMMA PollQueryLosesLinkStep == IInv /\ PollQueryLosesLink => IInv'
<1> SUFFICES ASSUME IInv, PollQueryLosesLink PROVE IInv'
  OBVIOUS
<1>0. TypeOK /\ drive \in DriveStates
  BY DEF IInv, TypeOK
<1>1. /\ socket_open' = FALSE
      /\ drive' = DriveAfter(AbortFrames, {})
      /\ UNCHANGED <<up, can_link_lost, latches, encoder_initialized, clocks,
                     command_is_current>>
  BY DEF PollQueryLosesLink, LoseLink
<1>2. drive' \in DriveStates
  BY <1>0, <1>1, DriveType
<1>3. CASE test_active
  BY <1>1, <1>2, <1>3, StopStep DEF PollQueryLosesLink
<1>4. CASE ~test_active
  <2>1. UNCHANGED <<motion_commands_enabled, command, test_active>>
    BY <1>4 DEF PollQueryLosesLink
  <2>2. drive' = drive
    BY <1>1, <1>4, NothingAttempted DEF AbortFrames
  <2>3. TypeOK'
    BY <1>0, <1>1, <2>1, <2>2 DEF TypeOK, latches, command, clocks
  <2>4. FaultMemory'
    BY <1>1, FaultMemoryKept DEF latches
  <2> QED
    BY <1>1, <2>1, <2>2, <2>3, <2>4
    DEF IInv, latches, command, clocks, GateInvariant, TestInvariant,
        NoReplay, LinkInvariant, WatchdogInvariant, WatchdogIsStale
<1> QED
  BY <1>3, <1>4

LEMMA PollReadLosesLinkStep == IInv /\ PollReadLosesLink => IInv'
<1> SUFFICES ASSUME IInv, PollReadLosesLink PROVE IInv'
  OBVIOUS
<1>1. /\ socket_open' = FALSE
      /\ drive' = DriveAfter(StopFrames, {})
  BY DEF PollReadLosesLink, LoseLink
<1>2. drive' \in DriveStates
  BY <1>1, DriveType DEF IInv, TypeOK
<1> QED
  BY <1>1, <1>2, StopStep DEF PollReadLosesLink

LEMMA PollBusFaultStep == IInv /\ PollBusFault => IInv'
<1> SUFFICES ASSUME IInv, PollBusFault PROVE IInv'
  OBVIOUS
<1>1. TypeOK /\ LatchSafetyStop /\ CloseGate
  BY DEF IInv, PollBusFault, LatchSafetyStop
<1> QED
  BY <1>1, LatchEffect, StopStep DEF PollBusFault

LEMMA PollReceiveErrorStep == IInv /\ PollReceiveError => IInv'
BY AbortStep DEF PollReceiveError

LEMMA PollFeedbackStep == IInv /\ PollFeedback => IInv'
<1> SUFFICES ASSUME IInv, PollFeedback PROVE IInv'
  OBVIOUS
<1>1. /\ feedback_age' = 0
      /\ UNCHANGED <<up, link, motion_commands_enabled, latches, command,
                     test_active, encoder_initialized, command_age, reset_age,
                     reopen_age, drive, command_is_current>>
  BY DEF PollFeedback
<1>2. TypeOK'
  BY <1>1, ResetAges DEF IInv, TypeOK, link, latches, command
<1>3. FaultMemory'
  BY <1>1, FaultMemoryKept DEF latches
<1> QED
  BY <1>1, <1>2, <1>3
  DEF IInv, link, latches, command, GateInvariant, TestInvariant, NoReplay,
      LinkInvariant, WatchdogInvariant, WatchdogIsStale

LEMMA PollEncoderPositionStep == IInv /\ PollEncoderPosition => IInv'
<1> SUFFICES ASSUME IInv, PollEncoderPosition PROVE IInv'
  OBVIOUS
<1>0. TypeOK
  BY DEF IInv
<1>1. /\ feedback_age' = 0
      /\ encoder_initialized' = TRUE
      /\ UNCHANGED <<up, can_link_lost, latches, command_age, reset_age,
                     reopen_age, command_is_current>>
  BY DEF PollEncoderPosition
<1>2. FaultMemory'
  BY <1>1, FaultMemoryKept DEF latches
<1>3. CASE UNCHANGED <<socket_open, drive, motion_commands_enabled, command,
                       test_active>>
  <2>1. TypeOK'
    BY <1>0, <1>1, <1>3, ResetAges DEF TypeOK, latches, command
  <2> QED
    BY <1>1, <1>2, <1>3, <2>1
    DEF IInv, latches, command, GateInvariant, TestInvariant, NoReplay,
        LinkInvariant, WatchdogInvariant, WatchdogIsStale
<1>4. CASE encoder_initialized /\ test_active /\ AbortMotionTest
  <2>1. LatchSafetyStop
    BY <1>4 DEF AbortMotionTest
  <2>2. /\ socket_open' \in BOOLEAN
        /\ drive' \in DriveStates
        /\ ~socket_open => ~socket_open'
        /\ motion_commands_enabled' = FALSE
        /\ command_received' = FALSE
        /\ test_active' = FALSE
        /\ watchdog_stopped' \in BOOLEAN
        /\ target' \in Targets
    BY <1>0, <2>1, LatchEffect
  <2>3. TypeOK'
    BY <1>0, <1>1, <2>2, ResetAges DEF TypeOK, latches
  <2>4. can_link_lost' => ~socket_open'
    BY <1>1, <2>2, LinkStaysDown
  <2> QED
    BY <1>2, <2>2, <2>3, <2>4, ClosedGateStep
<1> QED
  BY <1>3, <1>4 DEF PollEncoderPosition

LEMMA PollMcuResetStep == IInv /\ PollMcuReset => IInv'
<1> SUFFICES ASSUME IInv, PollMcuReset PROVE IInv'
  OBVIOUS
<1>0. TypeOK
  BY DEF IInv
<1>1. /\ encoder_initialized' = FALSE
      /\ LatchSafetyStop
      /\ UNCHANGED <<up, can_link_lost, latches, clocks, command_is_current>>
  BY DEF PollMcuReset
<1>2. /\ socket_open' \in BOOLEAN
      /\ drive' \in DriveStates
      /\ ~socket_open => ~socket_open'
      /\ motion_commands_enabled' = FALSE
      /\ command_received' = FALSE
      /\ test_active' = FALSE
      /\ watchdog_stopped' \in BOOLEAN
      /\ target' \in Targets
  BY <1>0, <1>1, LatchEffect
<1>3. TypeOK'
  BY <1>0, <1>1, <1>2 DEF TypeOK, latches, clocks
<1>4. can_link_lost' => ~socket_open'
  BY <1>1, <1>2, LinkStaysDown
<1>5. FaultMemory'
  BY <1>1, FaultMemoryKept DEF latches
<1> QED
  BY <1>2, <1>3, <1>4, <1>5, ClosedGateStep

(* The repeat of a latched fault skips latch_safety_stop; GateInvariant     *)
(* says that the gate is closed already.                                    *)
LEMMA PollMotorFaultStep ==
  ASSUME IInv, NEW motor \in Motors, NEW mask \in FaultMasks,
         PollMotorFault(motor, mask)
  PROVE  IInv'
<1>0. TypeOK
  BY DEF IInv
<1>1. /\ fault_latched' = TRUE
      /\ reported_fault_masks' = [reported_fault_masks EXCEPT ![motor] = mask]
      /\ UNCHANGED <<up, can_link_lost, feedback_timeout_latched,
                     encoder_initialized, clocks, command_is_current>>
  BY DEF PollMotorFault, FaultMasksAfter
<1>2. reported_fault_masks' \in [Motors -> FaultMasks \cup {0}]
  BY <1>0, <1>1 DEF TypeOK
<1>3. FaultMemory'
  BY <1>1 DEF FaultMemory
<1>4. CASE ~fault_latched \/ reported_fault_masks[motor] # mask
  <2>1. LatchSafetyStop
    BY <1>4 DEF PollMotorFault, FaultMasksAfter
  <2>2. /\ socket_open' \in BOOLEAN
        /\ drive' \in DriveStates
        /\ ~socket_open => ~socket_open'
        /\ motion_commands_enabled' = FALSE
        /\ command_received' = FALSE
        /\ test_active' = FALSE
        /\ watchdog_stopped' \in BOOLEAN
        /\ target' \in Targets
    BY <1>0, <2>1, LatchEffect
  <2>3. TypeOK'
    BY <1>0, <1>1, <1>2, <2>2 DEF TypeOK, clocks
  <2>4. can_link_lost' => ~socket_open'
    BY <1>1, <2>2, LinkStaysDown
  <2> QED
    BY <1>3, <2>2, <2>3, <2>4, ClosedGateStep
<1>5. CASE fault_latched /\ reported_fault_masks[motor] = mask
  <2>1. UNCHANGED <<socket_open, drive, motion_commands_enabled, command,
                    test_active>>
    BY <1>5 DEF PollMotorFault, FaultMasksAfter
  <2>2. ~motion_commands_enabled
    BY <1>5 DEF IInv, GateInvariant
  <2>3. TypeOK'
    BY <1>0, <1>1, <1>2, <2>1 DEF TypeOK, command, clocks
  <2> QED
    BY <1>1, <1>3, <2>1, <2>2, <2>3
    DEF IInv, command, clocks, GateInvariant, TestInvariant, NoReplay,
        LinkInvariant, WatchdogInvariant, WatchdogIsStale
<1> QED
  BY <1>4, <1>5

-----------------------------------------------------------------------------
(* Time, the destructor and the constructor. *)

LEMMA OlderAge ==
  ASSUME NEW limit \in Nat, NEW age \in 0 .. limit
  PROVE  Older(age, limit) \in 0 .. limit /\ Older(age, limit) >= age
BY DEF Older

LEMMA TickStep == IInv /\ Tick => IInv'
<1> SUFFICES ASSUME IInv, Tick PROVE IInv'
  OBVIOUS
<1>0. TypeOK
  BY DEF IInv
<1>1. /\ command_age' = Older(command_age, CommandTimeout + 1)
      /\ feedback_age' = Older(feedback_age, FeedbackTimeout + 1)
      /\ reset_age' = Older(reset_age, FaultIgnoreWindow)
      /\ reopen_age' = Older(reopen_age, ReopenInterval)
      /\ UNCHANGED <<up, link, motion_commands_enabled, latches, command,
                     test_active, encoder_initialized, drive,
                     command_is_current>>
  BY DEF Tick
<1>2. /\ command_age' \in 0 .. CommandTimeout + 1
      /\ command_age' >= command_age
  BY <1>0, <1>1, OlderAge, NodeAssumption DEF TypeOK
<1>3. feedback_age' \in 0 .. FeedbackTimeout + 1
  BY <1>0, <1>1, OlderAge, NodeAssumption DEF TypeOK
<1>4. /\ reset_age' \in 0 .. FaultIgnoreWindow
      /\ reopen_age' \in 0 .. ReopenInterval
  BY <1>0, <1>1, OlderAge, NodeAssumption DEF TypeOK
<1>5. TypeOK'
  BY <1>0, <1>1, <1>2, <1>3, <1>4 DEF TypeOK, link, latches, command
<1>6. WatchdogIsStale'
  BY <1>0, <1>1, <1>2, NodeAssumption
  DEF IInv, TypeOK, WatchdogIsStale, command
<1>7. FaultMemory'
  BY <1>1, FaultMemoryKept DEF latches
<1> QED
  BY <1>1, <1>5, <1>6, <1>7
  DEF IInv, link, latches, command, GateInvariant, TestInvariant, NoReplay,
      LinkInvariant, WatchdogInvariant

LEMMA ShutdownStep == IInv /\ Shutdown => IInv'
<1> SUFFICES ASSUME IInv, Shutdown PROVE IInv'
  OBVIOUS
<1> DEFINE frames == AbortFrames
                       \o (IF socket_open THEN <<"halt", "halt">> ELSE <<>>)
<1>1. PICK ok \in SUBSET DOMAIN frames : drive' = DriveAfter(frames, ok)
  BY DEF Shutdown
<1>2. drive' \in DriveStates
  BY <1>1, DriveType DEF IInv, TypeOK
<1>3. reported_fault_masks' = [m \in Motors |-> 0]
  BY DEF Shutdown
<1>4. reported_fault_masks' \in [Motors -> FaultMasks \cup {0}]
  BY <1>3
<1>5. TypeOK'
  BY <1>2, <1>4, ResetAges DEF Shutdown, TypeOK, Targets
<1>6. FaultMemory'
  BY <1>3 DEF FaultMemory
<1> QED
  BY <1>5, <1>6, ClosedGateStep DEF Shutdown

LEMMA RestartStep == IInv /\ Restart => IInv'
<1> SUFFICES ASSUME IInv, Restart PROVE IInv'
  OBVIOUS
<1>1. /\ ~up
      /\ up' = TRUE
      /\ socket_open' \in BOOLEAN
      /\ can_link_lost' = FALSE
      /\ UNCHANGED <<motion_commands_enabled, latches, command, test_active,
                     encoder_initialized, clocks, drive, command_is_current>>
  BY DEF Restart
<1>2. TypeOK'
  BY <1>1 DEF IInv, TypeOK, latches, command, clocks
<1>3. FaultMemory'
  BY <1>1, FaultMemoryKept DEF latches
<1> QED
  BY <1>1, <1>2, <1>3
  DEF IInv, latches, command, clocks, GateInvariant, TestInvariant, NoReplay,
      LinkInvariant, WatchdogInvariant, WatchdogIsStale

-----------------------------------------------------------------------------
(* The invariant. *)

LEMMA OperatorStep == IInv /\ OperatorEvent => IInv'
BY EnableStep, StopMotorsStep, ResetFaultsStep, EmergencyStopStep,
   CommandCallbackStep, MotionTestStartStep, MotionTestCancelStep
DEF OperatorEvent

LEMMA ControlStep == IInv /\ ControlCallback => IInv'
BY LatchesTimeoutStep, UpdatesTestStep, WatchdogStep, PublishesStep
DEF ControlCallback

LEMMA ReceiveStep == IInv /\ ReceiveCanFrames => IInv'
BY PollSocketClosedStep, PollReopensStep, PollQueryLosesLinkStep,
   PollReadLosesLinkStep, PollBusFaultStep, PollReceiveErrorStep,
   PollFeedbackStep, PollEncoderPositionStep, PollMcuResetStep,
   PollMotorFaultStep
DEF ReceiveCanFrames

LEMMA StutterStep == IInv /\ UNCHANGED vars => IInv'
<1> SUFFICES ASSUME IInv, UNCHANGED vars PROVE IInv'
  OBVIOUS
<1>1. FaultMemory'
  BY FaultMemoryKept DEF vars, latches
<1>2. TypeOK'
  BY DEF IInv, TypeOK, vars, link, latches, command, clocks
<1> QED
  BY <1>1, <1>2
  DEF IInv, vars, link, latches, command, clocks, GateInvariant,
      TestInvariant, NoReplay, LinkInvariant, WatchdogInvariant,
      WatchdogIsStale

(* Every callback, and the passing of time, preserves the invariant. *)
THEOREM NextIInv == IInv /\ [Next]_vars => IInv'
BY OperatorStep, ControlStep, ReceiveStep, TickStep, ShutdownStep,
   RestartStep, StutterStep
DEF Next

THEOREM Invariance == Spec => []IInv
<1>1. Init => IInv
  BY InitIInv
<1>2. IInv /\ [Next]_vars => IInv'
  BY NextIInv
<1> QED
  BY <1>1, <1>2, PTL DEF Spec

(* The members and the history variables always have their types. *)
THEOREM TypeCorrect == Spec => []TypeOK
<1>1. IInv => TypeOK
  BY DEF IInv
<1> QED
  BY <1>1, Invariance, PTL

(* The gate is never open in a node with a latched condition: no order of   *)
(* faults, timeouts, resets and enables gets past the latches.              *)
THEOREM GateSafety == Spec => []GateInvariant
<1>1. IInv => GateInvariant
  BY DEF IInv
<1> QED
  BY <1>1, Invariance, PTL

(* A motion test runs only behind an open gate and on a valid baseline.     *)
THEOREM TestSafety == Spec => []TestInvariant
<1>1. IInv => TestInvariant
  BY DEF IInv
<1> QED
  BY <1>1, Invariance, PTL

(* A cmd_vel from before the last enable is never obeyed after it.          *)
THEOREM ReplaySafety == Spec => []NoReplay
<1>1. IInv => NoReplay
  BY DEF IInv
<1> QED
  BY <1>1, Invariance, PTL

(* A lost interface keeps the gate closed until it is reopened.             *)
THEOREM LinkSafety == Spec => []LinkInvariant
<1>1. IInv => LinkInvariant
  BY DEF IInv
<1> QED
  BY <1>1, Invariance, PTL

(* The watchdog leaves the drive moving only if its zero was refused.       *)
THEOREM WatchdogSafety == Spec => []WatchdogInvariant
<1>1. IInv => WatchdogInvariant
  BY DEF IInv
<1> QED
  BY <1>1, Invariance, PTL

=============================================================================
