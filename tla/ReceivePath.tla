----------------------------- MODULE ReceivePath -----------------------------
(***************************************************************************)
(* From the bus to the gate: the receive buffer and the filters of the     *)
(* CAN socket, SocketCanTransport, the poll of receive_can_frames that     *)
(* reads at most kMaximumFramesPerPoll frames, the decoding of a frame,    *)
(* and what a late or lost frame means for the checks that close the gate. *)
(*                                                                         *)
(* A tick is the period of the poll and of the control timer. Callbacks    *)
(* do not interleave, but frames arrive while a poll reads, so a poll is   *)
(* one step for its beginning and one for each read. The executor may be   *)
(* late: other callbacks, or the machine, hold it up for a while.          *)
(*                                                                         *)
(* The fault report carries one mask; masks, motion tests, the status      *)
(* report and what the drive does are modelled elsewhere. A read fails     *)
(* only as the link does.                                                  *)
(***************************************************************************)
EXTENDS Integers, Sequences

CONSTANTS
  Traffic,               \* the frames on the bus, the faults' repeats apart
  kMaximumFramesPerPoll,
  QueueLimit,            \* frames the receive buffer of the socket holds
  FeedbackTimeout,       \* feedback_timeout_, in ticks
  FaultIgnoreWindow,     \* kFaultResetIgnoreWindow, in ticks
  ReopenInterval,        \* kReopenInterval, in ticks
  FaultRepeat,           \* ticks between the repeats of a latched fault
  MaxTraffic,            \* bound: frames of Traffic in a tick
  MaxStall,              \* bound: ticks a timer comes late
  MaxStalls              \* bound: ticks in which a timer comes late

(* CAN frames by what tells them apart. "full": eight data bytes. *)
ReportIds == {"reply", "encoder", "fault", "status", "amr"}

Frames == [id : ReportIds \cup {"other"},
           format : {"standard", "extended", "remote", "error"},
           full : BOOLEAN,
           payload : {"ack", "abort", "speeds", "deltas", "positions",
                      "status", "mask", "unknown", "malformed"}]

ASSUME ReceiveAssumption ==
  /\ Traffic \subseteq Frames
  /\ kMaximumFramesPerPoll \in Nat \ {0}
  /\ QueueLimit \in Nat \ {0}
  /\ FeedbackTimeout \in Nat /\ FaultIgnoreWindow \in Nat \ {0}
  /\ ReopenInterval \in Nat /\ FaultRepeat \in Nat \ {0}
  /\ MaxTraffic \in Nat /\ MaxStall \in Nat /\ MaxStalls \in Nat

(* A poll reads all that a tick can bring, the fault report included, and  *)
(* the buffer holds what arrives while the timers are late, in the tick    *)
(* whose poll is due and in the one that is passing.                       *)
ASSUME BandwidthAssumption ==
  /\ MaxTraffic + 1 <= kMaximumFramesPerPoll
  /\ (MaxTraffic + 1) * (MaxStalls + 2) <= QueueLimit

VARIABLES
  interface_up,
  link_error,    \* the socket has yet to report that the interface went down
  queue,         \* the receive buffer; "age": how long ago it was sent
  faulted,       \* the controller repeats a latched fault
  repeat_wait,   \* ticks since it last did
  traffic,       \* frames sent in this tick
  socket_open,   \* socket_fd_ >= 0
  can_link_lost,
  reopen_age,    \* now - last_can_reopen_attempt_
  budget,        \* reads left to the poll that is running; 0: none is
  poll_wait,     \* ticks since the last poll
  control_wait,  \* ticks since the last control callback
  stalls,
  motion_commands_enabled,
  fault_latched,
  feedback_timeout_latched,
  feedback_age,  \* now - last_feedback_time_
  reset_age,     \* now - last_fault_reset_time_
  evidence_age,  \* history: time since the last feedback that was read was
                 \* sent, or since the gate was opened
  exposed_age,   \* history: how long the gate has been open on a fault
  lost_age       \* history: how long it has been since the interface went
                 \* down under an open gate, or Unset

bus == <<interface_up, faulted, repeat_wait, traffic>>
socket == <<socket_open, link_error, queue>>
reopening == <<can_link_lost, reopen_age>>
scheduler == <<poll_wait, control_wait, stalls>>
latches == <<fault_latched, feedback_timeout_latched>>
clocks == <<feedback_age, reset_age, evidence_age>>
watched == <<exposed_age, lost_age>>
vars == <<bus, socket, reopening, budget, scheduler, motion_commands_enabled,
          latches, clocks, watched>>

Unset == -1
Least(a, b) == IF a <= b THEN a ELSE b

-----------------------------------------------------------------------------
(* The bounds the properties claim. A frame waits for the next poll, and   *)
(* for as long as the timers have been late: a backlog they left is not    *)
(* made up for while the bus is busy.                                      *)
Delay == 1 + MaxStalls

EvidenceBound == FeedbackTimeout + 1 + Delay
ExposureBound == FaultIgnoreWindow + FaultRepeat + Delay
LossBound == 1 + Delay

TypeOK ==
  /\ interface_up \in BOOLEAN /\ link_error \in BOOLEAN
  /\ queue \in Seq([frame : Frames, age : Nat])
  /\ Len(queue) <= QueueLimit
  /\ ~socket_open => queue = <<>> /\ ~link_error
  /\ faulted \in BOOLEAN /\ repeat_wait \in 0 .. FaultRepeat
  /\ traffic \in 0 .. MaxTraffic
  /\ socket_open \in BOOLEAN /\ can_link_lost \in BOOLEAN
  /\ reopen_age \in 0 .. ReopenInterval
  /\ budget \in 0 .. kMaximumFramesPerPoll
  /\ poll_wait \in 0 .. MaxStall + 1 /\ control_wait \in 0 .. MaxStall + 1
  /\ stalls \in 0 .. MaxStalls
  /\ motion_commands_enabled \in BOOLEAN
  /\ fault_latched \in BOOLEAN /\ feedback_timeout_latched \in BOOLEAN
  /\ feedback_age \in 0 .. FeedbackTimeout + 1
  /\ reset_age \in 0 .. FaultIgnoreWindow
  /\ evidence_age \in 0 .. EvidenceBound + 1
  /\ exposed_age \in 0 .. ExposureBound + 1
  /\ lost_age \in Unset .. LossBound + 1

-----------------------------------------------------------------------------
(* The bus and the kernel. *)

(* The filters of open(): the five identifiers in standard data frames, and *)
(* error frames.                                                            *)
Passes(f) ==
  f.format = "error" \/ (f.id \in ReportIds /\ f.format = "standard")

FaultReport == [id |-> "fault", format |-> "standard", full |-> TRUE,
                payload |-> "mask"]

(* A frame that finds the buffer full is dropped. *)
Enqueue(f) ==
  queue' = (IF socket_open /\ Passes(f) /\ Len(queue) < QueueLimit
            THEN Append(queue, [frame |-> f, age |-> 0]) ELSE queue)

FrameArrives(f) ==
  /\ interface_up
  /\ traffic < MaxTraffic
  /\ traffic' = traffic + 1
  /\ Enqueue(f)
  /\ UNCHANGED <<interface_up, faulted, repeat_wait, socket_open, link_error,
                 reopening, budget, scheduler, motion_commands_enabled,
                 latches, clocks>>

ControllerFaults ==
  /\ ~faulted
  /\ faulted' = TRUE
  /\ repeat_wait' = 0
  /\ UNCHANGED <<interface_up, traffic, socket, reopening, budget, scheduler,
                 motion_commands_enabled, latches, clocks>>

ControllerRecovers ==
  /\ faulted
  /\ faulted' = FALSE
  /\ repeat_wait' = 0
  /\ UNCHANGED <<interface_up, traffic, socket, reopening, budget, scheduler,
                 motion_commands_enabled, latches, clocks>>

ControllerRepeatsFault ==
  /\ faulted /\ repeat_wait > 0
  /\ repeat_wait' = 0
  /\ IF interface_up THEN Enqueue(FaultReport) ELSE UNCHANGED queue
  /\ UNCHANGED <<interface_up, faulted, traffic, socket_open, link_error,
                 reopening, budget, scheduler, motion_commands_enabled,
                 latches, clocks>>

InterfaceDown ==
  /\ interface_up
  /\ interface_up' = FALSE
  /\ link_error' = socket_open
  /\ UNCHANGED <<faulted, repeat_wait, traffic, socket_open, queue, reopening,
                 budget, scheduler, motion_commands_enabled, latches, clocks>>

InterfaceUp ==
  /\ ~interface_up
  /\ interface_up' = TRUE
  /\ UNCHANGED <<faulted, repeat_wait, traffic, socket, reopening, budget,
                 scheduler, motion_commands_enabled, latches, clocks>>

-----------------------------------------------------------------------------
(* SocketCanTransport: send_command and close_locked. *)

SendSucceeds == socket_open /\ interface_up /\ ~link_error

(* Mutant: what the closed socket had received is read from the next one. *)
SocketKeepsQueue(sends, q) ==
  /\ socket_open' = (IF sends THEN SendSucceeds ELSE socket_open)
  /\ link_error' = (link_error /\ ~sends)
  /\ queue' = q

(* The socket with "q" left to read, once a frame was sent if "sends". A    *)
(* write that finds the link down closes the socket.                        *)
SocketAfter(sends, q) ==
  /\ socket_open' = (IF sends THEN SendSucceeds ELSE socket_open)
  /\ link_error' = (link_error /\ ~sends)
  /\ queue' = (IF socket_open' THEN q ELSE <<>>)

(* The emergency stop goes out if the gate was open. *)
LatchSafetyStop(q) ==
  /\ SocketAfter(motion_commands_enabled, q)
  /\ motion_commands_enabled' = FALSE

-----------------------------------------------------------------------------
(* The operator's events and the control timer. *)

Idle == budget = 0

(* enable_motors: the sequence is sent at once, or the gate is closed. *)
EnableMotors ==
  /\ Idle
  /\ ~fault_latched /\ ~feedback_timeout_latched
  /\ SocketAfter(TRUE, queue)
  /\ motion_commands_enabled' = SendSucceeds
  /\ feedback_age' = (IF SendSucceeds THEN 0 ELSE feedback_age)
  /\ evidence_age' = 0
  /\ UNCHANGED <<bus, reopening, budget, scheduler, latches, reset_age>>

ResetFaults ==
  /\ Idle
  /\ SocketAfter(TRUE, queue)
  /\ motion_commands_enabled' = FALSE
  /\ IF SendSucceeds
     THEN /\ fault_latched' = FALSE /\ feedback_timeout_latched' = FALSE
          /\ reset_age' = 0 /\ feedback_age' = 0
     ELSE UNCHANGED <<latches, reset_age, feedback_age>>
  /\ UNCHANGED <<bus, reopening, budget, scheduler, evidence_age>>

FeedbackTimedOut ==
  motion_commands_enabled /\ feedback_age > FeedbackTimeout

(* control_callback. Its speed frame is sent or not, as cmd_vel has it. *)
ControlCallback ==
  /\ Idle /\ control_wait > 0
  /\ control_wait' = 0
  /\ IF FeedbackTimedOut
     THEN /\ feedback_timeout_latched' = TRUE
          /\ LatchSafetyStop(queue)
     ELSE /\ \E sends \in {FALSE, motion_commands_enabled} :
               SocketAfter(sends, queue)
          /\ UNCHANGED <<feedback_timeout_latched, motion_commands_enabled>>
  /\ UNCHANGED <<bus, reopening, budget, poll_wait, stalls, fault_latched,
                 clocks>>

-----------------------------------------------------------------------------
(* receive_can_frames *)

(* Mutant: off by one. *)
OneReadLess == kMaximumFramesPerPoll - 1

ReadsInPoll == kMaximumFramesPerPoll

PollBegins == Idle /\ poll_wait > 0 /\ poll_wait' = 0

(* It is too early to reopen the socket, or the interface is gone. *)
PollFindsSocketClosed ==
  /\ PollBegins
  /\ ~socket_open
  /\ can_link_lost' = TRUE
  /\ motion_commands_enabled' = (can_link_lost /\ motion_commands_enabled)
  /\ reopen_age' = (IF reopen_age < ReopenInterval THEN reopen_age ELSE 0)
  /\ UNCHANGED <<bus, socket, budget, control_wait, stalls, latches, clocks>>

(* The interface may be bound while it is down; the query then closes the  *)
(* socket again.                                                           *)
PollReopens ==
  /\ PollBegins
  /\ ~socket_open /\ reopen_age = ReopenInterval
  /\ can_link_lost' = FALSE
  /\ motion_commands_enabled' = (can_link_lost /\ motion_commands_enabled)
  /\ reopen_age' = 0
  /\ socket_open' = interface_up
  /\ budget' = ReadsInPoll
  /\ UNCHANGED <<bus, link_error, queue, control_wait, stalls, latches, clocks>>

(* Mutant: the query counts as feedback. *)
QueryRefreshes == feedback_age' = 0

(* "Sending a query must not refresh feedback timestamps" *)
QueryIsNoFeedback == UNCHANGED feedback_age

PollQueries ==
  /\ PollBegins
  /\ socket_open
  /\ SocketAfter(TRUE, queue)
  /\ QueryIsNoFeedback
  /\ budget' = ReadsInPoll
  /\ UNCHANGED <<bus, reopening, control_wait, stalls, motion_commands_enabled,
                 latches, reset_age, evidence_age>>

Reading == budget > 0 /\ socket_open /\ ~link_error /\ queue # <<>>
Read == Head(queue).frame

(* There is nothing to read, the query closed the socket, or the frame has  *)
(* a format that the filters should have kept out (the last two: kError).   *)
EndsPoll ==
  \/ ~socket_open
  \/ ~link_error /\ queue = <<>>
  \/ Reading /\ Read.format \in {"extended", "remote"}

ReadEndsPoll ==
  /\ budget > 0
  /\ EndsPoll
  /\ SocketAfter(FALSE, IF Reading THEN Tail(queue) ELSE queue)
  /\ budget' = 0
  /\ UNCHANGED <<bus, reopening, scheduler, motion_commands_enabled, latches,
                 clocks>>

(* Mutant: the stop is left to the poll that finds the socket closed, and  *)
(* so is the closing of it.                                                *)
LinkDownIgnored ==
  UNCHANGED <<socket_open, motion_commands_enabled>> /\ link_error' = FALSE
    /\ UNCHANGED queue

(* receive closes the socket, so no emergency stop goes out. *)
LinkDown ==
  /\ socket_open' = FALSE
  /\ link_error' = FALSE
  /\ queue' = <<>>
  /\ motion_commands_enabled' = FALSE

ReadLinkDown ==
  /\ budget > 0 /\ socket_open /\ link_error
  /\ LinkDown
  /\ budget' = 0
  /\ UNCHANGED <<bus, reopening, scheduler, latches, clocks>>

IsData == Read.format = "standard"

ReadBusFault ==
  /\ Reading
  /\ Read.format = "error"
  /\ LatchSafetyStop(Tail(queue))
  /\ budget' = budget - 1
  /\ UNCHANGED <<bus, reopening, scheduler, latches, clocks>>

(* MotorCanProtocol::decode: what the frame says, if anything. Of the      *)
(* 0x1F7 telemetry only the encoder message is of interest.                *)
Decode(f) ==
  IF f.id \notin ReportIds \/ ~f.full \/ f.payload = "malformed"
  THEN "rejected"
  ELSE IF f.payload = "unknown"
  THEN (IF f.id = "amr" THEN "ignored" ELSE "rejected")
  ELSE f.payload

FeedbackPayloads == {"speeds", "deltas", "positions"}

ReadFeedback ==
  /\ Reading /\ IsData
  /\ Decode(Read) \in FeedbackPayloads
  /\ feedback_age' = 0
  /\ evidence_age' = Least(evidence_age, Head(queue).age)
  /\ SocketAfter(FALSE, Tail(queue))
  /\ budget' = budget - 1
  /\ UNCHANGED <<bus, reopening, scheduler, motion_commands_enabled, latches,
                 reset_age>>

(* The repeat of a latched fault changes nothing. *)
IsNewReport == ~fault_latched

ReadFault ==
  /\ Reading /\ IsData
  /\ Decode(Read) = "mask"
  /\ reset_age >= FaultIgnoreWindow
  /\ fault_latched' = TRUE
  /\ IF IsNewReport THEN LatchSafetyStop(Tail(queue))
     ELSE SocketAfter(FALSE, Tail(queue)) /\ UNCHANGED motion_commands_enabled
  /\ budget' = budget - 1
  /\ UNCHANGED <<bus, reopening, scheduler, feedback_timeout_latched, clocks>>

(* A fault right after a reset, a frame that is rejected or ignored, and   *)
(* the reports that other modules are about.                               *)
ReadOther ==
  /\ Reading /\ IsData
  /\ Decode(Read) \notin FeedbackPayloads
  /\ Decode(Read) = "mask" => reset_age < FaultIgnoreWindow
  /\ SocketAfter(FALSE, Tail(queue))
  /\ budget' = budget - 1
  /\ UNCHANGED <<bus, reopening, scheduler, motion_commands_enabled, latches,
                 clocks>>

-----------------------------------------------------------------------------
(* Time passes between callbacks, and not before the timers that are due   *)
(* have run, unless they come late.                                        *)
Older(age, limit) == IF age < limit THEN age + 1 ELSE age

Late == poll_wait > 0 \/ control_wait > 0

Tick ==
  /\ Idle
  /\ poll_wait <= MaxStall /\ control_wait <= MaxStall
  /\ Late => stalls < MaxStalls
  /\ stalls' = (IF Late THEN stalls + 1 ELSE stalls)
  /\ poll_wait' = poll_wait + 1
  /\ control_wait' = control_wait + 1
  /\ faulted => repeat_wait < FaultRepeat
  /\ repeat_wait' = (IF faulted THEN repeat_wait + 1 ELSE 0)
  /\ traffic' = 0
  /\ queue' = [i \in DOMAIN queue |-> [queue[i] EXCEPT !.age = @ + 1]]
  /\ reopen_age' = Older(reopen_age, ReopenInterval)
  /\ feedback_age' = Older(feedback_age, FeedbackTimeout + 1)
  /\ reset_age' = Older(reset_age, FaultIgnoreWindow)
  /\ evidence_age' = (IF motion_commands_enabled
                      THEN Older(evidence_age, EvidenceBound + 1) ELSE 0)
  /\ UNCHANGED <<interface_up, faulted, socket_open, link_error, can_link_lost,
                 budget, motion_commands_enabled, latches>>

(* The history of an open gate, "passed" ticks later. *)
Watch(passed) ==
  /\ exposed_age' = (IF motion_commands_enabled' /\ faulted'
                     THEN Least(exposed_age + passed, ExposureBound + 1)
                     ELSE 0)
  /\ lost_age' = (IF ~motion_commands_enabled' THEN Unset
                  ELSE IF lost_age # Unset
                  THEN Least(lost_age + passed, LossBound + 1)
                  ELSE IF link_error' THEN 0 ELSE Unset)

(* The constructor opened the socket and sent the firmware query. *)
Init ==
  /\ interface_up = TRUE /\ link_error = FALSE
  /\ queue = <<>>
  /\ faulted \in BOOLEAN /\ repeat_wait = 0
  /\ traffic = 0
  /\ socket_open = TRUE /\ can_link_lost = FALSE
  /\ reopen_age = ReopenInterval
  /\ budget = 0
  /\ poll_wait = 0 /\ control_wait = 0 /\ stalls = 0
  /\ motion_commands_enabled = FALSE
  /\ fault_latched = FALSE /\ feedback_timeout_latched = FALSE
  /\ feedback_age = 0
  /\ reset_age = FaultIgnoreWindow
  /\ evidence_age = 0 /\ exposed_age = 0 /\ lost_age = Unset

Callback ==
  \/ EnableMotors \/ ResetFaults \/ ControlCallback
  \/ PollFindsSocketClosed \/ PollReopens \/ PollQueries
  \/ ReadEndsPoll \/ ReadLinkDown \/ ReadBusFault
  \/ ReadFeedback \/ ReadFault \/ ReadOther

Environment ==
  \/ \E f \in Traffic : FrameArrives(f)
  \/ ControllerFaults \/ ControllerRecovers \/ ControllerRepeatsFault
  \/ InterfaceDown \/ InterfaceUp

Next == \/ (Callback \/ Environment) /\ Watch(0)
        \/ Tick /\ Watch(1)

Spec == Init /\ [][Next]_vars

-----------------------------------------------------------------------------
(* Properties. *)

(* The age of the feedback that keeps the gate open is bounded, although   *)
(* it is stamped when it is read and may have waited in the buffer.        *)
GateRestsOnRecentFeedback ==
  motion_commands_enabled => evidence_age <= EvidenceBound

(* A fault the controller goes on reporting closes the gate in bounded     *)
(* time, in spite of the window after a reset in which it is ignored, the  *)
(* limit of a poll, and an enable within the window.                       *)
FaultIsNoticedInTime == exposed_age <= ExposureBound

(* An interface that goes down, even if it comes back at once, closes the  *)
(* gate within two polls, whichever call is the first to find out.         *)
LossIsNoticedInTime == lost_age <= LossBound
=============================================================================
