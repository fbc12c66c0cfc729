---------------------------- MODULE TestSequence ----------------------------
(***************************************************************************)
(* What a motion test promises, whatever its pattern: it performs its      *)
(* segments in order, each from rest to rest, moves only during a segment, *)
(* and ends completed after the last of them or aborted at rest. This      *)
(* describes README.md, "Completion, interruption and recording".          *)
(***************************************************************************)
EXTENDS Naturals

CONSTANT SegmentCounts   \* the lengths a sequence may have

VARIABLES
  stage,     \* "idle", "rest", "segment", "completed" or "aborted"
  segment,   \* the segment performed last, 0 before the first
  count,     \* the segments of this test
  moving     \* a speed other than zero is commanded

vars == <<stage, segment, count, moving>>

Active == stage \in {"rest", "segment"}

Init ==
  /\ stage = "idle"
  /\ segment = 0
  /\ count \in SegmentCounts
  /\ moving = FALSE

Begin ==
  /\ ~Active
  /\ stage' = "rest"
  /\ segment' = 0
  /\ count' \in SegmentCounts
  /\ UNCHANGED moving

BeginSegment ==
  /\ stage = "rest" /\ segment < count
  /\ stage' = "segment"
  /\ segment' = segment + 1
  /\ UNCHANGED <<count, moving>>

Move ==
  /\ stage = "segment"
  /\ moving' \in BOOLEAN
  /\ UNCHANGED <<stage, segment, count>>

EndSegment ==
  /\ stage = "segment"
  /\ stage' = "rest"
  /\ moving' = FALSE
  /\ UNCHANGED <<segment, count>>

Complete ==
  /\ stage = "rest" /\ segment = count
  /\ stage' = "completed"
  /\ UNCHANGED <<segment, count, moving>>

Abort ==
  /\ Active
  /\ stage' = "aborted"
  /\ moving' = FALSE
  /\ UNCHANGED <<segment, count>>

Next == Begin \/ BeginSegment \/ Move \/ EndSegment \/ Complete \/ Abort

Spec == Init /\ [][Next]_vars
=============================================================================
