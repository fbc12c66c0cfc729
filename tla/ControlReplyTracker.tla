------------------------- MODULE ControlReplyTracker -------------------------
(***************************************************************************)
(* ControlReplyTracker, the diagnostic that matches write acknowledgements *)
(* of object 0x6040:00 with the operator's commands. Each method of the    *)
(* class is an operator from a tracker to the tracker it leaves. The       *)
(* deadline is kept as the age of the last begin(), which matters only     *)
(* while a reply is pending.                                               *)
(***************************************************************************)
EXTENDS Naturals

CONSTANT ReplyTimeout   \* reply_timeout_ms, in ticks

ASSUME TrackerAssumption == ReplyTimeout \in Nat \ {0}

MaxExpected == 3   \* an enable event expects the most replies

ReplyStates == {"unavailable", "idle", "pending", "ambiguous", "acknowledged",
                "rejected", "timed_out", "transmission_failed"}

Tracker == [enabled : BOOLEAN, state : ReplyStates, uncertain : BOOLEAN,
            remaining : 0 .. MaxExpected, age : 0 .. ReplyTimeout]

(* The node constructs it disabled. *)
DisabledTracker == [enabled |-> FALSE, state |-> "unavailable",
                    uncertain |-> FALSE, remaining |-> 0, age |-> 0]

SetEnabled(t, enabled) ==
  [t EXCEPT !.enabled = enabled, !.uncertain = FALSE, !.remaining = 0,
            !.state = IF enabled THEN "idle" ELSE "unavailable"]

(* Mutant: a command of which some replies came never times out. *)
ExpireUnanswered(t) ==
  IF /\ t.state = "pending" /\ t.age >= ReplyTimeout
     /\ t.remaining \in {1, MaxExpected}
  THEN [t EXCEPT !.state = "timed_out", !.uncertain = TRUE]
  ELSE t

Expire(t) ==
  IF t.state = "pending" /\ t.age >= ReplyTimeout
  THEN [t EXCEPT !.state = "timed_out", !.uncertain = TRUE]
  ELSE t

(* Mutant: the replies still missing are added to the expected ones. *)
BeginAdds(t, expected) ==
  IF t.enabled
  THEN [Expire(t) EXCEPT !.remaining = @ + expected, !.age = 0,
          !.state = IF Expire(t).uncertain THEN "ambiguous" ELSE "pending"]
  ELSE t

(* Mutant: a command is pending whatever came before it. *)
BeginOptimistic(t, expected) ==
  IF t.enabled
  THEN [Expire(t) EXCEPT !.remaining = expected, !.age = 0,
          !.state = "pending"]
  ELSE t

(* Mutant: superseding a pending command is not noticed. *)
BeginSupersedes(t, expected) ==
  IF t.enabled
  THEN [Expire(t) EXCEPT !.remaining = expected, !.age = 0,
          !.state = IF Expire(t).uncertain THEN "ambiguous" ELSE "pending"]
  ELSE t

Begin(t, expected) ==
  LET e == Expire(t)
      uncertain == e.uncertain \/ e.state = "pending"
  IN  IF t.enabled
      THEN [e EXCEPT !.uncertain = uncertain,
                     !.remaining = expected,
                     !.age = 0,
                     !.state = IF uncertain THEN "ambiguous" ELSE "pending"]
      ELSE t

(* A reply is counted only for the control word, while one is pending. *)
Counts(t, object) == object = "control" /\ Expire(t).state = "pending"

(* Mutant: an acknowledgement too many is awaited. *)
ObserveLate(t, object, aborted) ==
  LET e == Expire(t)
  IN  IF ~Counts(t, object) THEN e
      ELSE IF aborted THEN [e EXCEPT !.state = "rejected"]
      ELSE [e EXCEPT !.remaining = @ - 1,
                     !.state = IF e.remaining = 0 THEN "acknowledged"
                                                  ELSE "pending"]

(* observe(): one call for a reply to object "object". remaining_ is an     *)
(* unsigned counter; it is not zero while a reply is pending.               *)
Observe(t, object, aborted) ==
  LET e == Expire(t)
  IN  IF ~Counts(t, object) THEN e
      ELSE IF aborted
      THEN [e EXCEPT !.state = "rejected", !.uncertain = e.remaining > 1]
      ELSE [e EXCEPT !.remaining = @ - 1,
                     !.state = IF e.remaining = 1 THEN "acknowledged"
                                                  ELSE "pending"]

(* Mutant: uncertain_ is assigned where it should be accumulated. *)
TransmissionFailedAssigns(t) ==
  IF t.enabled
  THEN [t EXCEPT !.uncertain = t.state = "pending",
                 !.state = "transmission_failed"]
  ELSE t

TransmissionFailed(t) ==
  IF t.enabled
  THEN [t EXCEPT !.uncertain = @ \/ t.state = "pending",
                 !.state = "transmission_failed"]
  ELSE t

Interrupt(t) ==
  IF t.enabled THEN [t EXCEPT !.uncertain = TRUE, !.state = "ambiguous"] ELSE t

(* Time passes while a reply is pending. *)
Aged(t) ==
  IF t.state = "pending" /\ t.age < ReplyTimeout THEN [t EXCEPT !.age = @ + 1]
  ELSE t

=============================================================================
