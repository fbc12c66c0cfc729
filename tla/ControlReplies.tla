--------------------------- MODULE ControlReplies ---------------------------
(***************************************************************************)
(* The replies side of MotorControlNode: the 0x20F5 handshake that switches *)
(* write acknowledgements on, the tracker that the handshake enables, and  *)
(* the calls each callback makes on both. The motor controller (outside    *)
(* this repository) answers the writes in order over a channel that may    *)
(* lose replies but neither duplicates nor reorders them, as               *)
(* control_reply_tracker.hpp requires.                                     *)
(*                                                                         *)
(* Of the node's safety state only the gate is kept, since it decides      *)
(* whether latch_safety_stop interrupts the tracker.                       *)
(***************************************************************************)
EXTENDS ControlReplyTracker, Sequences

CONSTANT MaxInFlight   \* bound on the writes and replies in flight

ASSUME RepliesAssumption == MaxInFlight \in Nat \ {0}

VARIABLES
  tracker,           \* control_replies_
  ack_handshake_state,
  handshake_age,     \* time since ack_handshake_state_ became pending
  gate,              \* motion_commands_enabled_
  acks_on,           \* the controller acknowledges control writes
  writes,            \* frames accepted by the socket, not yet handled
  replies,           \* replies sent by the controller, not yet received
  miscounted,        \* history: a reply to an earlier command was counted
                     \*   for the last one
  clean_start        \* history: no control write or reply was in flight
                     \*   when the tracker was enabled

controller == <<acks_on, writes, replies>>
history == <<miscounted, clean_start>>
vars == <<tracker, ack_handshake_state, handshake_age, gate, controller,
          history>>

HandshakeStates == {"not_requested", "pending", "enabled", "rejected",
                    "unsupported", "transmission_failed"}

(* "current": the frame belongs to the last command the operator gave. *)
Write == [object : {"ack_mode", "control"}, current : BOOLEAN]
Reply == [object : {"ack_mode", "control"}, aborted : BOOLEAN,
          current : BOOLEAN]

TypeOK ==
  /\ tracker \in Tracker
  /\ ack_handshake_state \in HandshakeStates
  /\ handshake_age \in 0 .. ReplyTimeout
  /\ gate \in BOOLEAN
  /\ acks_on \in BOOLEAN
  /\ writes \in Seq(Write)
  /\ replies \in Seq(Reply)
  /\ Len(writes) + Len(replies) <= MaxInFlight
  /\ miscounted \in BOOLEAN
  /\ clean_start \in BOOLEAN

-----------------------------------------------------------------------------
AckMode == [object |-> "ack_mode", current |-> TRUE]
Control == [object |-> "control", current |-> TRUE]

(* The frames of a channel once another command is given. *)
Outdated(channel) ==
  [i \in DOMAIN channel |-> [channel[i] EXCEPT !.current = FALSE]]

(* n control writes for a new command follow the frames before; "internal"  *)
(* writes, made for no command, are outdated from the start.                *)
NControls(n) == [i \in 1 .. n |-> Control]
Internal == Outdated(<<Control>>)

NewCommand(frames) ==
  /\ writes' = Outdated(writes) \o frames
  /\ replies' = Outdated(replies)
  /\ miscounted' = FALSE
  /\ Len(writes') + Len(replies') <= MaxInFlight

(* start_ack_handshake, with the 0x20F5 write accepted or not. *)
HandshakeStarted(accepted) ==
  /\ ack_handshake_state' = (IF accepted THEN "pending"
                                         ELSE "transmission_failed")
  /\ handshake_age' = (IF accepted THEN 0 ELSE handshake_age)

(* What check_reply_timeouts makes of the handshake. *)
HandshakeChecked ==
  IF ack_handshake_state = "pending" /\ handshake_age >= ReplyTimeout
  THEN "unsupported" ELSE ack_handshake_state

(* Construction with expect_control_ack, which starts the first handshake. *)
Init ==
  /\ tracker = DisabledTracker
  /\ gate = FALSE
  /\ acks_on = FALSE
  /\ replies = <<>>
  /\ miscounted = FALSE
  /\ clean_start = FALSE
  /\ handshake_age = 0
  /\ \/ ack_handshake_state = "pending" /\ writes = <<AckMode>>
     \/ ack_handshake_state = "transmission_failed" /\ writes = <<>>

-----------------------------------------------------------------------------
(* The operator's events. *)

(* latch_safety_stop behind an open gate, as every handler that aborts a    *)
(* test or latches a condition runs it; the emergency stop may be refused.  *)
(* Only some of those handlers check the reply deadlines.                   *)
InternalStop ==
  /\ gate
  /\ gate' = FALSE
  /\ tracker' = Interrupt(tracker)
  /\ ack_handshake_state' \in {ack_handshake_state, HandshakeChecked}
  /\ writes' \in {writes, writes \o Internal}
  /\ Len(writes') + Len(replies) <= MaxInFlight
  /\ UNCHANGED <<handshake_age, acks_on, replies, history>>

(* enable_motors is refused by a latched condition, or interrupts a test.   *)
(* Like every operator event it ends in report_control_result, whose        *)
(* publish_diagnostics checks the reply deadlines.                          *)
EnableRefused ==
  /\ ack_handshake_state' = HandshakeChecked
  /\ gate' = FALSE
  /\ \/ /\ ~gate
        /\ tracker' = TransmissionFailed(tracker)
        /\ UNCHANGED writes
     \/ /\ gate
        /\ tracker' = TransmissionFailed(Interrupt(tracker))
        /\ writes' \in {writes, writes \o Internal}
        /\ Len(writes') + Len(replies) <= MaxInFlight
  /\ UNCHANGED <<handshake_age, acks_on, replies, history>>

(* The 0x20F5 write that precedes the enable sequence, repeated blindly     *)
(* once the handshake succeeded.                                            *)
ReArm(accepted) ==
  IF ack_handshake_state = "enabled"
  THEN UNCHANGED <<ack_handshake_state, handshake_age>>
  ELSE HandshakeStarted(accepted)

AckModeWrites(accepted) == IF accepted THEN <<AckMode>> ELSE <<>>

(* All three stages are accepted, and so is the initial zero speed.         *)
EnableSucceeds ==
  /\ \E accepted \in BOOLEAN :
       /\ ReArm(accepted)
       /\ NewCommand(AckModeWrites(accepted) \o NControls(3))
  /\ tracker' = Begin(tracker, 3)
  /\ gate' = TRUE
  /\ UNCHANGED <<acks_on, clean_start>>

(* Only "sent" stages are accepted, or all three but not the zero speed; an *)
(* emergency stop is attempted.                                             *)
EnableFails ==
  /\ \E accepted \in BOOLEAN, sent \in 0 .. 3, stop \in {<<>>, Internal} :
       /\ ReArm(accepted)
       /\ NewCommand(AckModeWrites(accepted) \o NControls(sent) \o stop)
  /\ tracker' = TransmissionFailed(Begin(tracker, 3))
  /\ gate' = FALSE
  /\ UNCHANGED <<acks_on, clean_start>>

(* stop_motors, reset_faults and emergency_stop: one control write each. A  *)
(* test that was active is aborted first.                                   *)
SingleCommand ==
  /\ \E aborts \in {FALSE, gate}, sent \in BOOLEAN :
       LET before == IF aborts THEN Interrupt(tracker) ELSE tracker
           begun == Begin(before, 1)
       IN  /\ tracker' = (IF sent THEN begun ELSE TransmissionFailed(begun))
           /\ \E stop \in IF aborts THEN {<<>>, Internal} ELSE {<<>>} :
                NewCommand(stop \o NControls(IF sent THEN 1 ELSE 0))
  /\ gate' = FALSE
  /\ ack_handshake_state' = HandshakeChecked
  /\ UNCHANGED <<handshake_age, acks_on, clean_start>>

(* The destructor stops the drive, over a socket that is open, and a new    *)
(* node starts its handshake. Replies the old socket had queued are lost;   *)
(* the others reach the new node.                                           *)
NodeRestarts ==
  /\ tracker' = DisabledTracker
  /\ gate' = FALSE
  /\ \E accepted \in BOOLEAN, stop \in {<<>>, Internal} :
       /\ HandshakeStarted(accepted)
       /\ writes' = Outdated(writes) \o stop \o AckModeWrites(accepted)
  /\ replies' \in {<<>>, Outdated(replies)}
  /\ Len(writes') + Len(replies') <= MaxInFlight
  /\ miscounted' = FALSE
  /\ clean_start' = FALSE
  /\ UNCHANGED acks_on

-----------------------------------------------------------------------------
(* check_reply_timeouts, from both timers and before every frame. *)

CheckReplyTimeouts ==
  /\ tracker' = Expire(tracker)
  /\ ack_handshake_state' = HandshakeChecked
  /\ UNCHANGED <<handshake_age, gate, controller, history>>

(* receive_can_frames takes the next reply, after checking the deadlines.   *)
Receive ==
  /\ replies # <<>>
  /\ LET reply == Head(replies)
         shakes == reply.object = "ack_mode" /\ HandshakeChecked = "pending"
         checked == IF shakes /\ ~reply.aborted
                    THEN SetEnabled(Expire(tracker), TRUE)
                    ELSE Expire(tracker)
     IN  /\ ack_handshake_state' =
              (IF ~shakes THEN HandshakeChecked
               ELSE IF reply.aborted THEN "rejected" ELSE "enabled")
         /\ tracker' = Observe(checked, reply.object, reply.aborted)
         /\ miscounted' = (miscounted \/ (/\ Counts(checked, reply.object)
                                          /\ ~reply.current))
         /\ clean_start' =
              (IF shakes /\ ~reply.aborted
               THEN \A frame \in {writes[i] : i \in DOMAIN writes}
                              \cup {replies[i] : i \in DOMAIN replies} :
                      frame.object # "control"
               ELSE clean_start)
  /\ replies' = Tail(replies)
  /\ UNCHANGED <<handshake_age, gate, acks_on, writes>>

-----------------------------------------------------------------------------
(* The controller and the bus. *)

(* It handles the next write: 0x20F5 may be accepted, rejected or, by       *)
(* legacy firmware, ignored; a control word is answered once acks are on.   *)
ControllerHandles ==
  /\ writes # <<>>
  /\ writes' = Tail(writes)
  /\ LET write == Head(writes)
         Answer(aborted) == [object |-> write.object, aborted |-> aborted,
                             current |-> write.current]
     IN  \/ /\ write.object = "ack_mode"
            /\ \/ acks_on' = TRUE /\ replies' = Append(replies, Answer(FALSE))
               \/ ~acks_on /\ replies' = Append(replies, Answer(TRUE))
                  /\ UNCHANGED acks_on
               \/ ~acks_on /\ UNCHANGED <<acks_on, replies>>
         \/ /\ write.object = "control"
            /\ acks_on
            /\ \E aborted \in BOOLEAN :
                 replies' = Append(replies, Answer(aborted))
            /\ UNCHANGED acks_on
         \/ /\ write.object = "control"
            /\ ~acks_on
            /\ UNCHANGED <<acks_on, replies>>
  /\ UNCHANGED <<tracker, ack_handshake_state, handshake_age, gate, history>>

(* It resets: acknowledgements are off again and pending writes are lost. *)
ControllerResets ==
  /\ acks_on
  /\ acks_on' = FALSE
  /\ writes' = <<>>
  /\ UNCHANGED <<tracker, ack_handshake_state, handshake_age, gate, replies,
                 history>>

LoseReply ==
  /\ replies # <<>>
  /\ replies' = Tail(replies)
  /\ UNCHANGED <<tracker, ack_handshake_state, handshake_age, gate, acks_on,
                 writes, history>>

Tick ==
  /\ tracker' = Aged(tracker)
  /\ handshake_age' = (IF /\ ack_handshake_state = "pending"
                          /\ handshake_age < ReplyTimeout
                       THEN handshake_age + 1 ELSE handshake_age)
  /\ UNCHANGED <<ack_handshake_state, gate, controller, history>>

Next == \/ InternalStop \/ EnableRefused \/ EnableSucceeds \/ EnableFails
        \/ SingleCommand \/ NodeRestarts
        \/ CheckReplyTimeouts \/ Receive
        \/ ControllerHandles \/ ControllerResets \/ LoseReply
        \/ Tick

Spec == Init /\ [][Next]_vars

(* Both timers check the deadlines again and again, and time passes. *)
FairSpec == Spec /\ WF_vars(CheckReplyTimeouts) /\ WF_vars(Tick)

-----------------------------------------------------------------------------
(* Properties. *)

(* A tracker that cannot assign replies neither waits for one nor reports   *)
(* one: no command is confirmed from an uncertain position.                 *)
UncertaintyIsShown ==
  tracker.uncertain => tracker.state \notin {"idle", "pending", "acknowledged"}

(* remaining_ never wraps: replies are pending only while some are missing, *)
(* and an acknowledged command misses none.                                 *)
RemainingInvariant ==
  /\ tracker.state = "pending" => tracker.remaining > 0
  /\ tracker.state = "acknowledged" => tracker.remaining = 0

(* If no control write was under way when the handshake enabled the         *)
(* tracker, no command is ever acknowledged by the reply to another one,    *)
(* whatever is lost, interrupted or times out.                              *)
AcknowledgedByOwnReplies ==
  clean_start /\ tracker.state = "acknowledged" => ~miscounted

(* Uncertainty lasts until the node restarts, whatever replies come. *)
AmbiguityIsFinal ==
  [][tracker.uncertain => tracker'.uncertain \/ NodeRestarts]_vars

(* No command stays pending for ever: it is acknowledged, rejected, timed   *)
(* out or superseded.                                                       *)
PendingResolves == tracker.state = "pending" ~> tracker.state # "pending"

(* README and control_reply_tracker.hpp: a late reply cannot confirm a      *)
(* later command.                                                           *)
LateReplyConfirmsNothing == tracker.state = "acknowledged" => ~miscounted

=============================================================================
