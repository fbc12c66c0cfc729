--------------------------- MODULE MC_ReceivePath ---------------------------
(* ReceivePath for TLC: polls of two frames on a bus that can bring as many *)
(* in a tick, so that a poll that comes late leaves a backlog.              *)
EXTENDS ReceivePath

Data(id, payload) ==
  [id |-> id, format |-> "standard", full |-> TRUE, payload |-> payload]

\* Feedback, the same cut short, and the report of a bus fault. A frame that
\* the filters keep out is as good as none.
MCTraffic ==
  {Data("reply", "speeds"),
   [Data("reply", "speeds") EXCEPT !.full = FALSE],
   [Data("other", "unknown") EXCEPT !.format = "error"]}
=============================================================================
