---------------------------- MODULE MotionPermit ----------------------------
(***************************************************************************)
(* What the node promises about motion, whatever its timers, tests and     *)
(* link do: the drive is set in motion only under a permit, a permit is    *)
(* granted only while nothing is latched and always from a halted drive,   *)
(* and latching takes the permit away in the same step.                    *)
(***************************************************************************)

VARIABLES permit, latched, motion

permitVars == <<permit, latched, motion>>

Init == permit = FALSE /\ latched = FALSE /\ motion = "halted"

(* enable_motors; it halts the drive even when a permit is already held. *)
Grant ==
  /\ ~latched
  /\ permit' = TRUE
  /\ motion' = "halted"
  /\ UNCHANGED latched

(* A speed is sent; the same step may already take the permit back. *)
Move ==
  /\ permit /\ ~latched
  /\ motion' = "moving"
  /\ permit' \in BOOLEAN
  /\ UNCHANGED latched

(* A zero or a stop is sent, or the permit is withdrawn, or both. *)
Halt ==
  /\ permit' \in {permit, FALSE}
  /\ motion' \in {motion, "halted"}
  /\ UNCHANGED latched

Latch ==
  /\ permit' = FALSE
  /\ latched' = TRUE
  /\ motion' \in {motion, "halted"}

(* The operator resets the latches; that grants nothing. *)
Reset ==
  /\ permit' = FALSE
  /\ latched' = FALSE
  /\ motion' \in {motion, "halted"}

Next == Grant \/ Move \/ Halt \/ Latch \/ Reset

Spec == Init /\ [][Next]_permitVars

=============================================================================
