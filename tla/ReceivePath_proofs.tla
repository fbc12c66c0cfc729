-------------------------- MODULE ReceivePath_proofs --------------------------
(***************************************************************************)
(* Proofs about ReceivePath, for every traffic on the bus, every size of   *)
(* the receive buffer and of a poll, every timeout, and any number of late *)
(* timers that the bounds name.                                            *)
(***************************************************************************)
EXTENDS ReceivePath, SequenceTheorems, TLAPS

Received == [frame : Frames, age : Nat]

-----------------------------------------------------------------------------
(* TypeOK, by the parts that an action disturbs together. *)

TypedBus ==
  /\ interface_up \in BOOLEAN /\ faulted \in BOOLEAN
  /\ repeat_wait \in 0 .. FaultRepeat
  /\ traffic \in 0 .. MaxTraffic

TypedQueue ==
  /\ socket_open \in BOOLEAN /\ link_error \in BOOLEAN
  /\ queue \in Seq(Received) /\ Len(queue) <= QueueLimit
  /\ ~socket_open => queue = <<>> /\ ~link_error

TypedPoll ==
  /\ can_link_lost \in BOOLEAN
  /\ reopen_age \in 0 .. ReopenInterval
  /\ budget \in 0 .. kMaximumFramesPerPoll
  /\ poll_wait \in 0 .. MaxStall + 1 /\ control_wait \in 0 .. MaxStall + 1
  /\ stalls \in 0 .. MaxStalls

TypedGate ==
  /\ motion_commands_enabled \in BOOLEAN
  /\ fault_latched \in BOOLEAN /\ feedback_timeout_latched \in BOOLEAN
  /\ feedback_age \in 0 .. FeedbackTimeout + 1
  /\ reset_age \in 0 .. FaultIgnoreWindow
  /\ evidence_age \in 0 .. EvidenceBound + 1

TypedHistory ==
  /\ exposed_age \in 0 .. ExposureBound + 1
  /\ lost_age \in Unset .. LossBound + 1

LEMMA TypeParts ==
  TypeOK <=> TypedBus /\ TypedQueue /\ TypedPoll /\ TypedGate /\ TypedHistory
BY DEF TypeOK, TypedBus, TypedQueue, TypedPoll, TypedGate, TypedHistory, Received

LEMMA TypePartsNext ==
  ASSUME TypedBus', TypedQueue', TypedPoll', TypedGate', TypedHistory'
  PROVE  TypeOK'
BY DEF TypeOK, TypedBus, TypedQueue, TypedPoll, TypedGate, TypedHistory,
       Received, Delay, EvidenceBound, ExposureBound, LossBound, Unset

LEMMA Bounds ==
  /\ Delay \in Nat /\ Delay = 1 + MaxStalls
  /\ EvidenceBound \in Nat /\ ExposureBound \in Nat
  /\ LossBound \in Nat /\ LossBound = 2 + MaxStalls
  /\ QueueLimit \in Nat /\ QueueLimit > 0
  /\ kMaximumFramesPerPoll \in Nat /\ kMaximumFramesPerPoll > 0
  /\ FeedbackTimeout \in Nat /\ FaultIgnoreWindow \in Nat
  /\ ReopenInterval \in Nat /\ FaultRepeat \in Nat /\ FaultRepeat > 0
  /\ MaxTraffic \in Nat /\ MaxStall \in Nat /\ MaxStalls \in Nat
BY ReceiveAssumption DEF Delay, EvidenceBound, ExposureBound, LossBound

LEMMA Cleared == 0 \in Nat /\ TRUE \in BOOLEAN /\ FALSE \in BOOLEAN
OBVIOUS

LEMMA QueueOps ==
  ASSUME NEW q \in Seq(Received)
  PROVE  /\ Len(q) \in Nat /\ DOMAIN q = 1 .. Len(q)
         /\ q # <<>> => /\ Head(q) \in Received /\ Head(q) = q[1]
                        /\ Tail(q) \in Seq(Received)
                        /\ Len(q) > 0 /\ Len(Tail(q)) = Len(q) - 1
                        /\ \A i \in 1 .. Len(q) - 1 : Tail(q)[i] = q[i + 1]
<1>1. Len(q) \in Nat /\ DOMAIN q = 1 .. Len(q)
  BY LenProperties
<1>2. ASSUME q # <<>>
      PROVE  /\ Head(q) \in Received /\ Head(q) = q[1]
             /\ Tail(q) \in Seq(Received)
             /\ Len(q) > 0 /\ Len(Tail(q)) = Len(q) - 1
             /\ \A i \in 1 .. Len(q) - 1 : Tail(q)[i] = q[i + 1]
  <2>1. Head(q) \in Received /\ Tail(q) \in Seq(Received)
        /\ Len(Tail(q)) = Len(q) - 1
        /\ \A i \in 1 .. Len(Tail(q)) : Tail(q)[i] = q[i + 1]
    BY <1>2, HeadTailProperties
  <2>2. Len(Tail(q)) \in Nat
    BY <2>1, LenProperties
  <2> QED
    BY <1>1, <2>1, <2>2
<1> QED
  BY <1>1, <1>2

LEMMA EmptyQueue ==
  /\ <<>> \in Seq(Received) /\ Len(<<>>) = 0 /\ Len(<<>>) <= QueueLimit
BY Bounds

-----------------------------------------------------------------------------
(* The socket. *)

LEMMA EnqueueTyped ==
  ASSUME TypedQueue, NEW f \in Frames, Enqueue(f), socket_open' = socket_open,
         link_error' = link_error
  PROVE  TypedQueue'
<1>1. [frame |-> f, age |-> 0] \in Received
  BY DEF Received
<1>2. CASE socket_open /\ Passes(f) /\ Len(queue) < QueueLimit
  <2>1. queue' = Append(queue, [frame |-> f, age |-> 0])
    BY <1>2 DEF Enqueue
  <2>2. queue' \in Seq(Received) /\ Len(queue') = Len(queue) + 1
    BY <1>1, <2>1, AppendProperties DEF TypedQueue
  <2>3. Len(queue) \in Nat
    BY QueueOps DEF TypedQueue
  <2> QED
    BY <1>2, <2>2, <2>3, Bounds DEF TypedQueue
<1>3. CASE ~(socket_open /\ Passes(f) /\ Len(queue) < QueueLimit)
  BY <1>3 DEF Enqueue, TypedQueue
<1> QED
  BY <1>2, <1>3

LEMMA SocketAfterTyped ==
  ASSUME TypedQueue, NEW sends \in BOOLEAN, NEW q \in Seq(Received),
         Len(q) <= QueueLimit, SocketAfter(sends, q)
  PROVE  TypedQueue'
<1>1. SendSucceeds \in BOOLEAN
  BY DEF SendSucceeds
<1>2. socket_open' \in BOOLEAN /\ link_error' \in BOOLEAN
  BY <1>1 DEF SocketAfter, TypedQueue
<1>3. queue' \in Seq(Received) /\ Len(queue') <= QueueLimit
  BY EmptyQueue DEF SocketAfter
<1>4. ~socket_open' => queue' = <<>>
  BY DEF SocketAfter
<1>5. ~socket_open' => ~link_error'
  <2>1. CASE sends
    BY <2>1 DEF SocketAfter
  <2>2. CASE ~sends
    BY <2>2 DEF SocketAfter, TypedQueue
  <2> QED
    BY <2>1, <2>2
<1> QED
  BY <1>2, <1>3, <1>4, <1>5 DEF TypedQueue

LEMMA LatchTyped ==
  ASSUME TypedQueue, TypedGate, NEW q \in Seq(Received),
         Len(q) <= QueueLimit, LatchSafetyStop(q)
  PROVE  TypedQueue' /\ motion_commands_enabled' = FALSE
<1>1. motion_commands_enabled \in BOOLEAN
  BY DEF TypedGate
<1> QED
  BY <1>1, SocketAfterTyped DEF LatchSafetyStop

LEMMA ReadQueue ==
  ASSUME TypedQueue, queue # <<>>
  PROVE  Tail(queue) \in Seq(Received) /\ Len(Tail(queue)) <= QueueLimit
BY QueueOps, Bounds DEF TypedQueue

LEMMA WatchTyped ==
  ASSUME TypedHistory, NEW passed \in Nat, Watch(passed)
  PROVE  TypedHistory'
<1>1. exposed_age' \in 0 .. ExposureBound + 1
  BY Bounds DEF TypedHistory, Watch, Least
<1>2. lost_age' \in Unset .. LossBound + 1
  BY Bounds DEF TypedHistory, Watch, Least, Unset
<1>3. ExposureBound' = ExposureBound /\ LossBound' = LossBound
  BY DEF ExposureBound, LossBound, Delay
<1> QED
  BY <1>1, <1>2, <1>3 DEF TypedHistory

(* What a read that is no error leaves of the poll. *)
LEMMA BudgetTyped ==
  ASSUME TypedPoll, budget > 0, budget' = budget - 1,
         UNCHANGED <<reopening, scheduler>>
  PROVE  TypedPoll'
BY Bounds DEF TypedPoll, reopening, scheduler

LEMMA BusUnchanged ==
  ASSUME TypedBus, UNCHANGED bus
  PROVE  TypedBus'
BY DEF TypedBus, bus

LEMMA PollUnchanged ==
  ASSUME TypedPoll, UNCHANGED <<reopening, budget, scheduler>>
  PROVE  TypedPoll'
BY DEF TypedPoll, reopening, scheduler

LEMMA GateUnchanged ==
  ASSUME TypedGate, UNCHANGED <<latches, clocks>>,
         motion_commands_enabled' \in BOOLEAN
  PROVE  TypedGate'
BY DEF TypedGate, latches, clocks

LEMMA QueueUnchanged ==
  ASSUME TypedQueue, UNCHANGED socket
  PROVE  TypedQueue'
BY DEF TypedQueue, socket

Parts == TypedBus /\ TypedQueue /\ TypedPoll /\ TypedGate

LEMMA EventsTyped ==
  ASSUME Parts, EnableMotors \/ ResetFaults \/ ControlCallback
  PROVE  Parts'
<1>1. queue \in Seq(Received) /\ Len(queue) <= QueueLimit
      /\ motion_commands_enabled \in BOOLEAN /\ SendSucceeds \in BOOLEAN
  BY DEF Parts, TypedQueue, TypedGate, SendSucceeds
<1>2. CASE EnableMotors
  <2>1. TypedBus' /\ TypedPoll'
    BY <1>2, BusUnchanged, PollUnchanged DEF Parts, EnableMotors
  <2>2. TypedQueue'
    BY <1>1, <1>2, SocketAfterTyped DEF Parts, EnableMotors
  <2>3. motion_commands_enabled' \in BOOLEAN
    BY <1>1, <1>2 DEF EnableMotors
  <2>4. TypedGate'
    BY <1>2, <2>3, Bounds DEF Parts, EnableMotors, TypedGate, latches
  <2> QED
    BY <2>1, <2>2, <2>4 DEF Parts
<1>3. CASE ResetFaults
  <2>1. TypedBus' /\ TypedPoll'
    BY <1>3, BusUnchanged, PollUnchanged DEF Parts, ResetFaults
  <2>2. TypedQueue'
    BY <1>1, <1>3, SocketAfterTyped DEF Parts, ResetFaults
  <2>3. TypedGate'
    <3>1. /\ motion_commands_enabled' \in BOOLEAN /\ fault_latched' \in BOOLEAN
          /\ feedback_timeout_latched' \in BOOLEAN
      BY <1>3, Cleared DEF Parts, ResetFaults, TypedGate, latches
    <3>2. feedback_age' \in 0 .. FeedbackTimeout + 1
          /\ reset_age' \in 0 .. FaultIgnoreWindow
      BY <1>3, Bounds DEF Parts, ResetFaults, TypedGate
    <3>3. evidence_age' = evidence_age /\ EvidenceBound' = EvidenceBound
      BY <1>3 DEF ResetFaults, EvidenceBound, Delay
    <3> QED
      BY <3>1, <3>2, <3>3 DEF Parts, TypedGate
  <2> QED
    BY <2>1, <2>2, <2>3 DEF Parts
<1>4. CASE ControlCallback
  <2>1. TypedBus'
    BY <1>4, BusUnchanged DEF Parts, ControlCallback
  <2>2. TypedPoll'
    BY <1>4, Bounds DEF Parts, ControlCallback, TypedPoll, reopening
  <2>3. CASE FeedbackTimedOut
    <3>1. /\ LatchSafetyStop(queue) /\ feedback_timeout_latched' = TRUE
          /\ UNCHANGED <<fault_latched, clocks>>
      BY <1>4, <2>3 DEF ControlCallback
    <3>2. TypedQueue' /\ motion_commands_enabled' = FALSE
      BY <1>1, <3>1, LatchTyped DEF Parts
    <3>3. TypedGate'
      BY <3>1, <3>2, Cleared DEF Parts, TypedGate, clocks
    <3> QED
      BY <2>1, <2>2, <3>2, <3>3 DEF Parts
  <2>4. CASE ~FeedbackTimedOut
    <3>1. PICK sends \in {FALSE, motion_commands_enabled} :
            SocketAfter(sends, queue)
      BY <1>4, <2>4 DEF ControlCallback
    <3>2. sends \in BOOLEAN
      BY <1>1, <3>1
    <3>3. TypedQueue'
      BY <1>1, <3>1, <3>2, SocketAfterTyped DEF Parts
    <3>4. UNCHANGED <<latches, clocks, motion_commands_enabled>>
      BY <1>4, <2>4 DEF ControlCallback, latches
    <3>5. TypedGate'
      BY <1>1, <3>4, GateUnchanged DEF Parts
    <3> QED
      BY <2>1, <2>2, <3>3, <3>5 DEF Parts
  <2> QED
    BY <2>3, <2>4
<1> QED
  BY <1>2, <1>3, <1>4

LEMMA PollTyped ==
  ASSUME Parts, PollFindsSocketClosed \/ PollReopens \/ PollQueries
  PROVE  Parts'
<1>1. queue \in Seq(Received) /\ Len(queue) <= QueueLimit
      /\ motion_commands_enabled \in BOOLEAN /\ can_link_lost \in BOOLEAN
      /\ (can_link_lost /\ motion_commands_enabled) \in BOOLEAN
  BY DEF Parts, TypedQueue, TypedGate, TypedPoll
<1>2. UNCHANGED bus
  BY DEF PollFindsSocketClosed, PollReopens, PollQueries
<1>3. TypedBus'
  BY <1>2, BusUnchanged DEF Parts
<1>4. CASE PollFindsSocketClosed
  <2>1. TypedQueue'
    BY <1>4, QueueUnchanged DEF Parts, PollFindsSocketClosed
  <2>2. TypedPoll'
    BY <1>4, Bounds, Cleared
    DEF Parts, PollFindsSocketClosed, PollBegins, TypedPoll
  <2>3. TypedGate'
    BY <1>1, <1>4, GateUnchanged DEF Parts, PollFindsSocketClosed
  <2> QED
    BY <1>3, <2>1, <2>2, <2>3 DEF Parts
<1>5. CASE PollReopens
  <2>1. TypedQueue'
    BY <1>5 DEF Parts, PollReopens, TypedQueue, TypedBus
  <2>2. TypedPoll'
    <3>1. can_link_lost' \in BOOLEAN
      BY <1>5, Cleared DEF PollReopens
    <3> QED
      BY <1>5, <3>1, Bounds
      DEF Parts, PollReopens, PollBegins, TypedPoll, ReadsInPoll
  <2>3. TypedGate'
    BY <1>1, <1>5, GateUnchanged DEF Parts, PollReopens
  <2> QED
    BY <1>3, <2>1, <2>2, <2>3 DEF Parts
<1>6. CASE PollQueries
  <2>1. TypedQueue'
    BY <1>1, <1>6, Cleared, SocketAfterTyped DEF Parts, PollQueries
  <2>2. TypedPoll'
    BY <1>6, Bounds
    DEF Parts, PollQueries, PollBegins, TypedPoll, ReadsInPoll, reopening
  <2>3. TypedGate'
    <3>1. UNCHANGED <<latches, clocks>>
          /\ motion_commands_enabled' = motion_commands_enabled
      BY <1>6 DEF PollQueries, QueryIsNoFeedback, clocks
    <3> QED
      BY <1>1, <3>1, GateUnchanged DEF Parts
  <2> QED
    BY <1>3, <2>1, <2>2, <2>3 DEF Parts
<1> QED
  BY <1>4, <1>5, <1>6

LEMMA ReadsTyped ==
  ASSUME Parts,
         ReadEndsPoll \/ ReadLinkDown \/ ReadBusFault \/ ReadFeedback
           \/ ReadFault \/ ReadOther
  PROVE  Parts'
<1>1. TypedBus'
  BY BusUnchanged
  DEF Parts, ReadEndsPoll, ReadLinkDown, ReadBusFault, ReadFeedback,
      ReadFault, ReadOther
<1>2. motion_commands_enabled \in BOOLEAN
      /\ queue \in Seq(Received) /\ Len(queue) <= QueueLimit
  BY DEF Parts, TypedGate, TypedQueue
<1>3. Reading => Tail(queue) \in Seq(Received) /\ Len(Tail(queue)) <= QueueLimit
  BY ReadQueue DEF Parts, Reading
<1>4. ASSUME Reading, budget' = budget - 1, UNCHANGED <<reopening, scheduler>>
      PROVE  TypedPoll'
  BY <1>4, BudgetTyped DEF Parts, Reading
<1>5. ASSUME budget' = 0, UNCHANGED <<reopening, scheduler>>
      PROVE  TypedPoll'
  BY <1>5, Bounds DEF Parts, TypedPoll, reopening, scheduler
<1>6. CASE ReadEndsPoll
  <2> DEFINE q == IF Reading THEN Tail(queue) ELSE queue
  <2>1. q \in Seq(Received) /\ Len(q) <= QueueLimit
    BY <1>2, <1>3
  <2>2. SocketAfter(FALSE, q)
    BY <1>6 DEF ReadEndsPoll
  <2> HIDE DEF q
  <2>3. TypedQueue'
    BY <2>1, <2>2, Cleared, SocketAfterTyped DEF Parts
  <2>4. TypedPoll' /\ TypedGate'
    BY <1>2, <1>5, <1>6, GateUnchanged DEF Parts, ReadEndsPoll
  <2> QED
    BY <1>1, <2>3, <2>4 DEF Parts
<1>7. CASE ReadLinkDown
  <2>1. TypedQueue' /\ motion_commands_enabled' = FALSE
    BY <1>7, EmptyQueue, Cleared DEF ReadLinkDown, LinkDown, TypedQueue
  <2>2. TypedPoll' /\ TypedGate'
    BY <1>5, <1>7, <2>1, Cleared, GateUnchanged DEF Parts, ReadLinkDown
  <2> QED
    BY <1>1, <2>1, <2>2 DEF Parts
<1>8. CASE ReadBusFault
  <2>1. TypedQueue' /\ motion_commands_enabled' = FALSE
    BY <1>3, <1>8, LatchTyped DEF Parts, ReadBusFault
  <2>2. TypedPoll' /\ TypedGate'
    BY <1>4, <1>8, <2>1, Cleared, GateUnchanged DEF Parts, ReadBusFault
  <2> QED
    BY <1>1, <2>1, <2>2 DEF Parts
<1>9. CASE ReadFeedback
  <2>1. TypedQueue' /\ TypedPoll'
    BY <1>3, <1>4, <1>9, Cleared, SocketAfterTyped DEF Parts, ReadFeedback
  <2>2. Head(queue).age \in Nat
    BY <1>2, <1>9, QueueOps DEF ReadFeedback, Reading, Received
  <2>3. evidence_age' \in 0 .. EvidenceBound + 1
    BY <1>9, <2>2, Bounds DEF Parts, ReadFeedback, TypedGate, Least
  <2>4. TypedGate'
    <3>1. EvidenceBound' = EvidenceBound
      BY DEF EvidenceBound, Delay
    <3> QED
      BY <1>9, <2>3, <3>1, Bounds DEF Parts, ReadFeedback, TypedGate, latches
  <2> QED
    BY <1>1, <2>1, <2>4 DEF Parts
<1>10. CASE ReadFault
  <2>1. TypedPoll'
    BY <1>4, <1>10 DEF ReadFault
  <2>2. TypedQueue' /\ motion_commands_enabled' \in BOOLEAN
    <3>1. CASE IsNewReport
      BY <1>3, <1>10, <3>1, Cleared, LatchTyped DEF Parts, ReadFault
    <3>2. CASE ~IsNewReport
      BY <1>2, <1>3, <1>10, <3>2, Cleared, SocketAfterTyped
      DEF Parts, ReadFault
    <3> QED
      BY <3>1, <3>2
  <2>3. TypedGate'
    BY <1>10, <2>2, Cleared DEF Parts, ReadFault, TypedGate, clocks
  <2> QED
    BY <1>1, <2>1, <2>2, <2>3 DEF Parts
<1>11. CASE ReadOther
  <2>1. TypedQueue' /\ TypedPoll'
    BY <1>3, <1>4, <1>11, Cleared, SocketAfterTyped DEF Parts, ReadOther
  <2>2. TypedGate'
    BY <1>2, <1>11, GateUnchanged DEF Parts, ReadOther
  <2> QED
    BY <1>1, <2>1, <2>2 DEF Parts
<1> QED
  BY <1>6, <1>7, <1>8, <1>9, <1>10, <1>11

LEMMA FaultReportType == FaultReport \in Frames
BY DEF FaultReport, Frames, ReportIds

LEMMA EnvironmentTyped ==
  ASSUME Parts, Environment
  PROVE  Parts'
<1>1. motion_commands_enabled \in BOOLEAN
  BY DEF Parts, TypedGate
<1>2. UNCHANGED <<reopening, budget, scheduler, motion_commands_enabled,
                  latches, clocks>>
  BY DEF Environment, FrameArrives, ControllerFaults, ControllerRecovers,
         ControllerRepeatsFault, InterfaceDown, InterfaceUp
<1>3. TypedPoll' /\ TypedGate'
  BY <1>1, <1>2, PollUnchanged, GateUnchanged DEF Parts
<1>4. CASE \E f \in Traffic : FrameArrives(f)
  <2>1. PICK f \in Traffic : FrameArrives(f)
    BY <1>4
  <2>2. f \in Frames
    BY <2>1, ReceiveAssumption
  <2>3. TypedQueue'
    BY <2>1, <2>2, EnqueueTyped DEF Parts, FrameArrives
  <2>4. TypedBus'
    BY <2>1, Bounds DEF Parts, FrameArrives, TypedBus
  <2> QED
    BY <1>3, <2>3, <2>4 DEF Parts
<1>5. CASE ControllerFaults \/ ControllerRecovers
  <2>1. TypedQueue'
    BY <1>5, QueueUnchanged DEF Parts, ControllerFaults, ControllerRecovers
  <2>2. TypedBus'
    <3>1. faulted' \in BOOLEAN
      BY <1>5, Cleared DEF ControllerFaults, ControllerRecovers
    <3> QED
      BY <1>5, <3>1, Bounds
      DEF Parts, ControllerFaults, ControllerRecovers, TypedBus
  <2> QED
    BY <1>3, <2>1, <2>2 DEF Parts
<1>6. CASE ControllerRepeatsFault
  <2>1. UNCHANGED <<socket_open, link_error>>
        /\ (Enqueue(FaultReport) \/ UNCHANGED queue)
    BY <1>6 DEF ControllerRepeatsFault
  <2>2. TypedQueue'
    BY <2>1, FaultReportType, EnqueueTyped, QueueUnchanged DEF Parts, socket
  <2>3. TypedBus'
    BY <1>6, Bounds DEF Parts, ControllerRepeatsFault, TypedBus
  <2> QED
    BY <1>3, <2>2, <2>3 DEF Parts
<1>7. CASE InterfaceDown
  <2>1. TypedQueue'
    BY <1>7 DEF Parts, InterfaceDown, TypedQueue
  <2>2. TypedBus'
    BY <1>7, Cleared DEF Parts, InterfaceDown, TypedBus
  <2> QED
    BY <1>3, <2>1, <2>2 DEF Parts
<1>8. CASE InterfaceUp
  <2>1. TypedQueue'
    BY <1>8, QueueUnchanged DEF Parts, InterfaceUp
  <2>2. TypedBus'
    BY <1>8, Cleared DEF Parts, InterfaceUp, TypedBus
  <2> QED
    BY <1>3, <2>1, <2>2 DEF Parts
<1> QED
  BY <1>4, <1>5, <1>6, <1>7, <1>8 DEF Environment

LEMMA AgedQueue ==
  ASSUME TypedQueue, Tick
  PROVE  /\ queue' \in Seq(Received) /\ Len(queue') = Len(queue)
         /\ \A i \in 1 .. Len(queue) : queue'[i].age = queue[i].age + 1
                                       /\ queue'[i].frame = queue[i].frame
<1>1. queue \in Seq(Received)
  BY DEF TypedQueue
<1>2. /\ Len(queue) \in Nat /\ DOMAIN queue = 1 .. Len(queue)
      /\ \A i \in 1 .. Len(queue) : queue[i] \in Received
  BY <1>1, QueueOps, ElementOfSeq
<1>3. queue' = [i \in DOMAIN queue |-> [queue[i] EXCEPT !.age = @ + 1]]
  BY DEF Tick
<1>4. \A i \in DOMAIN queue :
        /\ [queue[i] EXCEPT !.age = @ + 1] \in Received
        /\ [queue[i] EXCEPT !.age = @ + 1].age = queue[i].age + 1
        /\ [queue[i] EXCEPT !.age = @ + 1].frame = queue[i].frame
  BY <1>2 DEF Received
<1>5. queue' \in Seq(Received) /\ Len(queue') = Len(queue)
  BY <1>2, <1>3, <1>4
<1>6. \A i \in 1 .. Len(queue) : queue'[i] = [queue[i] EXCEPT !.age = @ + 1]
  BY <1>2, <1>3
<1> QED
  BY <1>2, <1>4, <1>5, <1>6

LEMMA TickTyped ==
  ASSUME Parts, Tick
  PROVE  Parts'
<1>1. TypedQueue'
  BY AgedQueue DEF Parts, Tick, TypedQueue
<1>2. TypedBus'
  BY Bounds DEF Parts, Tick, TypedBus
<1>3. TypedPoll'
  <2>1. reopen_age' \in 0 .. ReopenInterval
    BY Bounds DEF Parts, Tick, TypedPoll, Older
  <2>2. stalls' \in 0 .. MaxStalls
    BY Bounds DEF Parts, Tick, TypedPoll
  <2>3. poll_wait' \in 0 .. MaxStall + 1 /\ control_wait' \in 0 .. MaxStall + 1
    BY Bounds DEF Parts, Tick, TypedPoll
  <2> QED
    BY <2>1, <2>2, <2>3 DEF Parts, Tick, TypedPoll
<1>4. TypedGate'
  <2>1. feedback_age' \in 0 .. FeedbackTimeout + 1
    BY Bounds DEF Parts, Tick, TypedGate, Older
  <2>2. reset_age' \in 0 .. FaultIgnoreWindow
    BY Bounds DEF Parts, Tick, TypedGate, Older
  <2>3. evidence_age' \in 0 .. EvidenceBound + 1
    BY Bounds DEF Parts, Tick, TypedGate, Older
  <2>4. EvidenceBound' = EvidenceBound
    BY DEF EvidenceBound, Delay
  <2> QED
    BY <2>1, <2>2, <2>3, <2>4 DEF Parts, Tick, TypedGate, latches
<1> QED
  BY <1>1, <1>2, <1>3, <1>4 DEF Parts

LEMMA InitTyped == Init => TypeOK
<1> SUFFICES ASSUME Init PROVE TypeOK
  OBVIOUS
<1>1. TypedBus
  BY Bounds, Cleared DEF Init, TypedBus
<1>2. TypedQueue
  BY EmptyQueue, Cleared DEF Init, TypedQueue
<1>3. TypedPoll
  <2>1. can_link_lost \in BOOLEAN
    BY Cleared DEF Init
  <2> QED
    BY <2>1, Bounds DEF Init, TypedPoll
<1>4. TypedGate
  <2>1. /\ motion_commands_enabled \in BOOLEAN /\ fault_latched \in BOOLEAN
        /\ feedback_timeout_latched \in BOOLEAN
    BY Cleared DEF Init
  <2> QED
    BY <2>1, Bounds DEF Init, TypedGate
<1>5. TypedHistory
  BY Bounds DEF Init, TypedHistory, Unset
<1> QED
  BY <1>1, <1>2, <1>3, <1>4, <1>5, TypeParts

LEMMA StepTyped == TypeOK /\ [Next]_vars => TypeOK'
<1> SUFFICES ASSUME TypeOK, [Next]_vars PROVE TypeOK'
  OBVIOUS
<1>1. Parts /\ TypedHistory
  BY TypeParts DEF Parts
<1>2. ASSUME Parts', TypedHistory'
      PROVE  TypeOK'
  BY <1>2, TypePartsNext DEF Parts
<1>3. CASE Callback /\ Watch(0)
  BY <1>1, <1>2, <1>3, EventsTyped, PollTyped, ReadsTyped, WatchTyped
  DEF Callback
<1>4. CASE Environment /\ Watch(0)
  BY <1>1, <1>2, <1>4, EnvironmentTyped, WatchTyped
<1>5. CASE Tick /\ Watch(1)
  BY <1>1, <1>2, <1>5, TickTyped, WatchTyped
<1>6. CASE UNCHANGED vars
  <2>1. TypedHistory'
    BY <1>1, <1>6
    DEF TypedHistory, vars, watched, ExposureBound, LossBound, Delay
  <2>2. Parts'
    BY <1>1, <1>6, BusUnchanged, QueueUnchanged, PollUnchanged, GateUnchanged
    DEF Parts, vars, TypedGate
  <2> QED
    BY <1>2, <2>1, <2>2
<1> QED
  BY <1>3, <1>4, <1>5, <1>6 DEF Next

(* The types of the state; the receive buffer never holds more than it can, *)
(* and a closed socket has nothing left to read.                            *)
THEOREM TypeCorrect == Spec => []TypeOK
BY InitTyped, StepTyped, PTL DEF Spec

-----------------------------------------------------------------------------
(* The loss of the link. *)

(* A poll is due or running. *)
Due == IF poll_wait > 0 \/ budget > 0 THEN 1 ELSE 0

(* A loss that closes the gate late is still unread on the open socket, or  *)
(* a send closed the socket and the next poll will notice that.             *)
LossInv ==
  /\ socket_open \/ motion_commands_enabled => ~can_link_lost
  /\ ~motion_commands_enabled => lost_age = Unset
  /\ budget > 0 => poll_wait = 0
  /\ lost_age # Unset =>
       \/ socket_open /\ link_error /\ lost_age <= Due + stalls
       \/ ~socket_open /\ lost_age <= 1 + (IF poll_wait > 0 THEN 1 ELSE 0) + stalls

LEMMA StateFields ==
  ASSUME TypeOK
  PROVE  /\ interface_up \in BOOLEAN /\ faulted \in BOOLEAN
         /\ repeat_wait \in Nat /\ repeat_wait <= FaultRepeat
         /\ traffic \in Nat /\ traffic <= MaxTraffic
         /\ socket_open \in BOOLEAN /\ link_error \in BOOLEAN
         /\ queue \in Seq(Received) /\ Len(queue) <= QueueLimit
         /\ ~socket_open => queue = <<>> /\ ~link_error
         /\ can_link_lost \in BOOLEAN
         /\ budget \in Nat /\ budget <= kMaximumFramesPerPoll
         /\ poll_wait \in Nat /\ control_wait \in Nat
         /\ stalls \in Nat /\ stalls <= MaxStalls
         /\ motion_commands_enabled \in BOOLEAN
         /\ fault_latched \in BOOLEAN
         /\ feedback_age \in Nat /\ feedback_age <= FeedbackTimeout + 1
         /\ reset_age \in Nat /\ reset_age <= FaultIgnoreWindow
         /\ evidence_age \in Nat /\ exposed_age \in Nat
         /\ lost_age \in Nat \cup {Unset} /\ lost_age \in Int
BY Bounds
DEF TypeOK, Received, Unset, EvidenceBound, ExposureBound, LossBound, Delay

LEMMA DueFromNow ==
  ASSUME stalls' \in Nat
  PROVE  0 <= Due' + stalls'
<1>1. Due' = 0 \/ Due' = 1
  BY DEF Due
<1> QED
  BY <1>1

LEMMA LostBound ==
  ASSUME TypeOK, LossInv, lost_age # Unset
  PROVE  lost_age \in Nat /\ lost_age <= 2 + stalls /\ lost_age <= LossBound
<1>1. Due \in {0, 1} /\ (IF poll_wait > 0 THEN 1 ELSE 0) \in {0, 1}
  BY DEF Due
<1>2. lost_age \in Nat /\ stalls \in Nat /\ stalls <= MaxStalls
  BY StateFields
<1>3. \/ lost_age <= Due + stalls
      \/ lost_age <= 1 + (IF poll_wait > 0 THEN 1 ELSE 0) + stalls
  BY DEF LossInv
<1>4. lost_age <= 2 + stalls
  <2> DEFINE wait == IF poll_wait > 0 THEN 1 ELSE 0
  <2> HIDE DEF wait
  <2>1. wait \in {0, 1} /\ (lost_age <= Due + stalls \/ lost_age <= 1 + wait + stalls)
    BY <1>1, <1>3 DEF wait
  <2> QED
    BY <1>1, <1>2, <2>1
<1> QED
  BY <1>2, <1>4, Bounds

LEMMA InitLoss == Init => LossInv
BY DEF Init, LossInv

(* The gate's part of a callback or of an event outside the node. *)
LEMMA WatchLoss ==
  ASSUME TypeOK, TypeOK', LossInv, Watch(0), stalls' = stalls,
         socket_open' \/ motion_commands_enabled' => ~can_link_lost',
         budget' > 0 => poll_wait' = 0,
         motion_commands_enabled' /\ lost_age # Unset =>
           \/ socket_open' /\ link_error' /\ lost_age <= Due' + stalls
           \/ ~socket_open'
              /\ lost_age <= 1 + (IF poll_wait' > 0 THEN 1 ELSE 0) + stalls
  PROVE  LossInv'
<1>1. CASE ~motion_commands_enabled'
  BY <1>1 DEF Watch, LossInv, Unset
<1>2. CASE motion_commands_enabled' /\ lost_age = Unset
  <2>1. lost_age' = (IF link_error' THEN 0 ELSE Unset)
    BY <1>2 DEF Watch
  <2>2. link_error' => socket_open'
    BY DEF TypeOK
  <2>3. 0 <= Due' + stalls'
    BY StateFields, DueFromNow
  <2>4. Unset' = Unset
    BY DEF Unset
  <2> QED
    <3>1. CASE link_error'
      <4>1. lost_age' = 0 /\ lost_age' <= Due' + stalls'
        <5>1. lost_age' = 0
          BY <2>1, <3>1
        <5> QED
          BY <2>3, <5>1
      <4>2. socket_open'
        BY <2>2, <3>1
      <4> QED
        BY <1>2, <3>1, <4>1, <4>2 DEF LossInv
    <3>2. CASE ~link_error'
      <4>1. lost_age' = Unset'
        BY <2>1, <2>4, <3>2
      <4> QED
        BY <1>2, <4>1 DEF LossInv
    <3> QED
      BY <3>1, <3>2
<1>3. CASE motion_commands_enabled' /\ lost_age # Unset
  <2>1. lost_age \in Nat /\ lost_age <= LossBound
    BY <1>3, LostBound
  <2>2. lost_age' = lost_age
    BY <1>3, <2>1, Bounds DEF Watch, Least
  <2>3. Unset' = Unset
    BY DEF Unset
  <2> QED
    BY <1>3, <2>2, <2>3 DEF LossInv
<1> QED
  BY <1>1, <1>2, <1>3

LEMMA EventsLoss ==
  ASSUME TypeOK, TypeOK', LossInv, Watch(0),
         EnableMotors \/ ResetFaults \/ ControlCallback
  PROVE  LossInv'
<1>1. /\ UNCHANGED <<reopening, budget, poll_wait, stalls>> /\ budget = 0
  BY DEF EnableMotors, ResetFaults, ControlCallback, Idle, scheduler
<1>2. PICK sends \in BOOLEAN : SocketAfter(sends, queue)
  BY StateFields
  DEF EnableMotors, ResetFaults, ControlCallback, LatchSafetyStop
<1>3. socket_open' = (IF sends THEN SendSucceeds ELSE socket_open)
      /\ link_error' = (link_error /\ ~sends)
  BY <1>2 DEF SocketAfter
<1>4. motion_commands_enabled' => motion_commands_enabled \/ SendSucceeds
  BY DEF EnableMotors, ResetFaults, ControlCallback, LatchSafetyStop
<1>5. SendSucceeds => socket_open /\ ~link_error
  BY DEF SendSucceeds
<1>6. socket_open' => socket_open
  BY <1>3, <1>5
<1>7. socket_open' \/ motion_commands_enabled' => ~can_link_lost'
  BY <1>1, <1>4, <1>5, <1>6 DEF LossInv, reopening
<1>8. ASSUME lost_age # Unset
      PROVE  \/ socket_open' /\ link_error' /\ lost_age <= Due' + stalls
             \/ ~socket_open'
                /\ lost_age <= 1 + (IF poll_wait' > 0 THEN 1 ELSE 0) + stalls
  <2>1. Due' = Due
    BY <1>1 DEF Due
  <2>2. CASE socket_open /\ link_error /\ lost_age <= Due + stalls
    <3>1. CASE sends
      <4>1. ~socket_open'
        BY <1>3, <1>5, <2>2, <3>1
      <4> QED
        BY <1>1, <2>2, <4>1, StateFields DEF Due
    <3>2. CASE ~sends
      BY <1>3, <2>1, <2>2, <3>2
    <3> QED
      BY <3>1, <3>2
  <2>3. CASE ~socket_open
             /\ lost_age <= 1 + (IF poll_wait > 0 THEN 1 ELSE 0) + stalls
    BY <1>1, <1>6, <2>3
  <2> QED
    BY <1>8, <2>2, <2>3 DEF LossInv
<1> QED
  BY <1>1, <1>7, <1>8, WatchLoss DEF reopening

LEMMA PollLoss ==
  ASSUME TypeOK, TypeOK', LossInv, Watch(0),
         PollFindsSocketClosed \/ PollReopens \/ PollQueries
  PROVE  LossInv'
<1>1. /\ poll_wait > 0 /\ poll_wait' = 0 /\ stalls' = stalls /\ budget = 0
  BY DEF PollFindsSocketClosed, PollReopens, PollQueries, PollBegins, Idle
<1>2. CASE PollFindsSocketClosed \/ PollReopens
  <2>1. ~motion_commands_enabled'
    BY <1>2 DEF PollFindsSocketClosed, PollReopens, LossInv
  <2>2. socket_open' => ~can_link_lost'
    BY <1>2 DEF PollFindsSocketClosed, PollReopens, socket
  <2> QED
    BY <1>1, <2>1, <2>2, WatchLoss
<1>3. CASE PollQueries
  <2>1. /\ socket_open /\ socket_open' = SendSucceeds
        /\ UNCHANGED <<can_link_lost, motion_commands_enabled>>
    BY <1>3 DEF PollQueries, SocketAfter, reopening
  <2>2. lost_age # Unset =>
          ~socket_open' /\ lost_age <= 1 + stalls
    BY <1>1, <2>1, StateFields DEF LossInv, SendSucceeds, Due
  <2>3. socket_open' \/ motion_commands_enabled' => ~can_link_lost'
    BY <2>1 DEF LossInv, SendSucceeds
  <2>4. lost_age # Unset =>
          ~socket_open'
          /\ lost_age <= 1 + (IF poll_wait' > 0 THEN 1 ELSE 0) + stalls
    BY <1>1, <2>2, StateFields
  <2> QED
    BY <1>1, <2>3, <2>4, WatchLoss
<1> QED
  BY <1>2, <1>3

LEMMA ReadsLoss ==
  ASSUME TypeOK, TypeOK', LossInv, Watch(0),
         ReadEndsPoll \/ ReadLinkDown \/ ReadBusFault \/ ReadFeedback
           \/ ReadFault \/ ReadOther
  PROVE  LossInv'
<1>1. /\ UNCHANGED <<can_link_lost, poll_wait, stalls>>
      /\ budget > 0 /\ poll_wait = 0
  BY DEF ReadEndsPoll, ReadLinkDown, ReadBusFault, ReadFeedback,
         ReadFault, ReadOther, Reading, reopening, scheduler, LossInv
<1>2. \/ /\ motion_commands_enabled' = FALSE
         /\ socket_open' => socket_open
      \/ UNCHANGED <<motion_commands_enabled, socket_open, link_error>>
  <2>1. \A q : SocketAfter(FALSE, q) => UNCHANGED <<socket_open, link_error>>
    BY StateFields DEF SocketAfter
  <2>2. \A q : LatchSafetyStop(q) => motion_commands_enabled' = FALSE
                                     /\ (socket_open' => socket_open)
    BY DEF LatchSafetyStop, SocketAfter, SendSucceeds
  <2>3. CASE ReadLinkDown
    BY <2>3 DEF ReadLinkDown, LinkDown
  <2>4. CASE ReadBusFault
    BY <2>2, <2>4 DEF ReadBusFault
  <2>5. CASE ReadFault
    BY <2>1, <2>2, <2>5 DEF ReadFault
  <2>6. CASE ReadEndsPoll \/ ReadFeedback \/ ReadOther
    BY <2>1, <2>6 DEF ReadEndsPoll, ReadFeedback, ReadOther
  <2> QED
    BY <2>3, <2>4, <2>5, <2>6
<1>3. socket_open' \/ motion_commands_enabled' => ~can_link_lost'
  BY <1>1, <1>2 DEF LossInv
<1>4. CASE ~motion_commands_enabled'
  BY <1>1, <1>3, <1>4, WatchLoss
<1>5. CASE UNCHANGED <<motion_commands_enabled, socket_open, link_error>>
           /\ motion_commands_enabled'
  <2>1. lost_age # Unset /\ socket_open /\ link_error
          => ReadLinkDown
    BY <1>1, <1>5
    DEF ReadEndsPoll, ReadBusFault, ReadFeedback, ReadFault, ReadOther,
        Reading, EndsPoll
  <2>2. ReadLinkDown => ~motion_commands_enabled'
    BY DEF ReadLinkDown, LinkDown
  <2>3. lost_age # Unset =>
          ~socket_open' /\ lost_age <= 1 + (IF poll_wait' > 0 THEN 1 ELSE 0) + stalls
    BY <1>1, <1>5, <2>1, <2>2 DEF LossInv
  <2> QED
    BY <1>1, <1>3, <2>3, WatchLoss
<1> QED
  BY <1>2, <1>4, <1>5

LEMMA EnvironmentLoss ==
  ASSUME TypeOK, TypeOK', LossInv, Watch(0), Environment
  PROVE  LossInv'
<1>1. UNCHANGED <<socket_open, can_link_lost, budget, poll_wait, stalls,
                  motion_commands_enabled>>
  BY DEF Environment, FrameArrives, ControllerFaults, ControllerRecovers,
         ControllerRepeatsFault, InterfaceDown, InterfaceUp, socket, reopening,
         scheduler
<1>2. link_error' = link_error \/ link_error' = socket_open
  BY DEF Environment, FrameArrives, ControllerFaults, ControllerRecovers,
         ControllerRepeatsFault, InterfaceDown, InterfaceUp, socket
<1>3. socket_open /\ link_error => link_error'
  BY <1>2
<1>4. Due' = Due
  BY <1>1 DEF Due
<1> QED
  BY <1>1, <1>3, <1>4, WatchLoss DEF LossInv

LEMMA TickLoss ==
  ASSUME TypeOK, TypeOK', LossInv, Tick, Watch(1)
  PROVE  LossInv'
<1>1. /\ UNCHANGED <<socket_open, link_error, can_link_lost, budget,
                     motion_commands_enabled>>
      /\ budget = 0 /\ poll_wait' = poll_wait + 1
  BY DEF Tick, Idle
<1>2. stalls' = (IF poll_wait > 0 \/ control_wait > 0 THEN stalls + 1 ELSE stalls)
  BY DEF Tick, Late
<1>3. poll_wait \in Nat /\ stalls \in Nat /\ poll_wait' > 0
      /\ stalls <= MaxStalls
  BY <1>1, StateFields
<1>4. Due' = 1
  BY <1>3 DEF Due
<1>5. CASE ~motion_commands_enabled'
  BY <1>1, <1>5 DEF LossInv, Watch, Unset
<1>6. CASE motion_commands_enabled' /\ lost_age = Unset
  <2>1. lost_age' = (IF link_error' THEN 0 ELSE Unset)
    BY <1>6 DEF Watch
  <2>2. link_error' => socket_open'
    BY DEF TypeOK
  <2>3. 0 <= Due' + stalls'
    BY <1>2, <1>3, <1>4
  <2>4. Unset' = Unset
    BY DEF Unset
  <2> QED
    <3>1. CASE link_error'
      <4>1. lost_age' = 0 /\ lost_age' <= Due' + stalls'
        <5>1. lost_age' = 0
          BY <2>1, <3>1
        <5> QED
          BY <2>3, <5>1
      <4>2. socket_open'
        BY <2>2, <3>1
      <4> QED
        BY <1>1, <1>6, <3>1, <4>1, <4>2 DEF LossInv
    <3>2. CASE ~link_error'
      <4>1. lost_age' = Unset'
        BY <2>1, <2>4, <3>2
      <4> QED
        BY <1>1, <1>6, <4>1 DEF LossInv
    <3> QED
      BY <3>1, <3>2
<1>7. CASE motion_commands_enabled' /\ lost_age # Unset
  <2>1. lost_age \in Nat /\ lost_age <= LossBound
    BY <1>7, LostBound
  <2>2. lost_age' = lost_age + 1
    BY <1>7, <2>1, Bounds DEF Watch, Least
  <2>3. Due + 1 + stalls <= Due' + stalls'
    BY <1>1, <1>2, <1>3, <1>4 DEF Due
  <2>4. Due = (IF poll_wait > 0 THEN 1 ELSE 0) /\ Due \in Nat
    BY <1>1 DEF Due
  <2>5. Unset' = Unset
    BY DEF Unset
  <2>6. CASE socket_open /\ link_error /\ lost_age <= Due + stalls
    <3>1. lost_age' <= Due' + stalls'
      BY <1>2, <1>3, <1>4, <2>1, <2>2, <2>3, <2>4, <2>6
    <3> QED
      BY <1>1, <1>7, <2>6, <3>1 DEF LossInv
  <2>7. CASE ~socket_open /\ lost_age <= 1 + Due + stalls
    <3>1. lost_age' <= 1 + 1 + stalls'
      BY <1>2, <1>3, <1>4, <2>1, <2>2, <2>3, <2>4, <2>7
    <3> QED
      BY <1>1, <1>3, <1>7, <2>7, <3>1 DEF LossInv
  <2> QED
    BY <1>7, <2>4, <2>6, <2>7 DEF LossInv
<1> QED
  BY <1>5, <1>6, <1>7

LEMMA StepLoss == TypeOK /\ TypeOK' /\ LossInv /\ [Next]_vars => LossInv'
<1> SUFFICES ASSUME TypeOK, TypeOK', LossInv, [Next]_vars PROVE LossInv'
  OBVIOUS
<1>1. CASE UNCHANGED vars
  BY <1>1
  DEF LossInv, Due, vars, socket, reopening, scheduler, watched, Unset
<1> QED
  BY <1>1, EventsLoss, PollLoss, ReadsLoss, EnvironmentLoss, TickLoss
  DEF Next, Callback

(* An interface that goes down closes the gate within two polls and the     *)
(* ticks by which timers were late.                                         *)
THEOREM LossIsNoticed == Spec => []LossIsNoticedInTime
<1>1. TypeOK /\ LossInv => LossIsNoticedInTime
  <2> SUFFICES ASSUME TypeOK, LossInv PROVE lost_age <= LossBound
    BY DEF LossIsNoticedInTime
  <2>1. CASE lost_age = Unset
    BY <2>1, Bounds DEF Unset
  <2> QED
    BY <2>1, LostBound
<1> QED
  BY <1>1, TypeCorrect, InitLoss, StepLoss, PTL DEF Spec

-----------------------------------------------------------------------------
(* The backlog in the receive buffer. *)

(* The frames a tick can bring, the fault report included. *)
Rate == MaxTraffic + 1

(* The ticks whose frames may still be unread, apart from the current one. *)
Backlog == stalls + Due

(* The reads the running poll has made. *)
Used == IF budget > 0 THEN kMaximumFramesPerPoll - budget ELSE 0

(* At most as many frames of the current tick are there. *)
RepeatComes == IF repeat_wait > 0 THEN 0 ELSE 1
Arrivals == traffic + RepeatComes

BacklogInv ==
  /\ Len(queue) + Used <= Rate * Backlog + Arrivals
  /\ \A i \in 1 .. Len(queue) :
       queue[i].age > 0 => i + Used <= Rate * (Backlog + 1 - queue[i].age)
  /\ \A i \in 1 .. Len(queue) : queue[i].frame.format \in {"standard", "error"}

LEMMA ProductIsNatural == \A a, b \in Nat : a * b \in Nat
OBVIOUS

LEMMA ProductGrows ==
  ASSUME NEW r \in Nat, NEW a \in Int, NEW b \in Int, a <= b
  PROVE  r * a <= r * b
<1>1. b - a \in Nat
  OBVIOUS
<1>2. r * (b - a) \in Nat
  BY <1>1, ProductIsNatural
<1>3. r * (b - a) = r * b - r * a
  OBVIOUS
<1> QED
  BY <1>2, <1>3

LEMMA ProductNext ==
  ASSUME NEW r \in Int, NEW a \in Int
  PROVE  r * (a + 1) = r * a + r
OBVIOUS

LEMMA ByCases ==
  /\ budget > 0 => Used = kMaximumFramesPerPoll - budget
  /\ ~(budget > 0) => Used = 0
  /\ Due = 0 \/ Due = 1
  /\ RepeatComes = 0 \/ RepeatComes = 1
BY DEF Used, Due, RepeatComes

LEMMA ByCasesNext ==
  /\ budget' > 0 => Used' = kMaximumFramesPerPoll - budget'
  /\ ~(budget' > 0) => Used' = 0
  /\ Due' = 0 \/ Due' = 1
  /\ RepeatComes' = 0 \/ RepeatComes' = 1
BY DEF Used, Due, RepeatComes

LEMMA BacklogType ==
  ASSUME TypeOK
  PROVE  /\ Rate \in Nat /\ Rate > 0 /\ Rate <= kMaximumFramesPerPoll
         /\ Due \in {0, 1} /\ Backlog \in Nat
         /\ Used \in Nat /\ (budget = 0 => Used = 0)
         /\ Arrivals \in Nat /\ Arrivals <= Rate
         /\ Len(queue) \in Nat
         /\ \A i \in 1 .. Len(queue) :
              queue[i] \in Received /\ queue[i].age \in Nat
<1>1. Due \in {0, 1}
  BY ByCases
<1>2. Rate \in Nat /\ Rate > 0 /\ Rate <= kMaximumFramesPerPoll
  BY Bounds, BandwidthAssumption DEF Rate
<1>3. Backlog \in Nat
  BY <1>1, StateFields DEF Backlog
<1>4. Used \in Nat /\ (budget = 0 => Used = 0)
  <2>1. /\ budget \in Nat /\ kMaximumFramesPerPoll \in Nat
        /\ budget <= kMaximumFramesPerPoll
    BY StateFields, Bounds
  <2>2. CASE budget > 0
    <3>1. Used = kMaximumFramesPerPoll - budget
      BY <2>2, ByCases
    <3> QED
      BY <2>1, <2>2, <3>1
  <2>3. CASE ~(budget > 0)
    <3>1. Used = 0
      BY <2>3, ByCases
    <3> QED
      BY <3>1
  <2> QED
    BY <2>2, <2>3
<1>5. Arrivals \in Nat /\ Arrivals <= Rate
  <2>1. RepeatComes = 0 \/ RepeatComes = 1
    BY ByCases
  <2>2. traffic \in Nat /\ traffic <= MaxTraffic /\ MaxTraffic \in Nat
    BY StateFields, Bounds
  <2> QED
    BY <2>1, <2>2 DEF Arrivals, Rate
<1>6. \A i \in 1 .. Len(queue) : queue[i] \in Received
  BY StateFields, ElementOfSeq
<1>7. Len(queue) \in Nat
  BY StateFields, QueueOps
<1> QED
  BY <1>1, <1>2, <1>3, <1>4, <1>5, <1>6, <1>7 DEF Received

LEMMA Counts ==
  ASSUME TypeOK
  PROVE  /\ Rate \in Nat /\ Backlog \in Nat /\ Used \in Nat /\ Arrivals \in Nat
         /\ Len(queue) \in Nat /\ stalls \in Nat /\ Backlog = stalls + Due
<1>1. stalls \in Nat
  BY StateFields
<1> QED
  BY <1>1, BacklogType DEF Backlog

LEMMA BacklogTypeNext ==
  ASSUME TypeOK'
  PROVE  Backlog' \in Nat /\ Used' \in Nat /\ Arrivals' \in Nat
<1>1. Due' = 0 \/ Due' = 1
  BY ByCasesNext
<1>2. /\ stalls' \in Nat /\ budget' \in Nat /\ traffic' \in Nat
      /\ budget' <= kMaximumFramesPerPoll
  BY Bounds DEF TypeOK
<1>3. Backlog' \in Nat
  BY <1>1, <1>2 DEF Backlog
<1>4. Used' \in Nat
  BY <1>2, ByCasesNext, Bounds
<1>5. Arrivals' \in Nat
  BY <1>2, ByCasesNext DEF Arrivals
<1> QED
  BY <1>3, <1>4, <1>5

LEMMA EmptyBacklog ==
  ASSUME TypeOK', queue' = <<>>, budget' = 0 \/ budget' = kMaximumFramesPerPoll
  PROVE  BacklogInv'
<1>1. Used' = 0
  BY Bounds DEF Used
<1>2. Rate * Backlog' \in Nat /\ Arrivals' \in Nat
  BY BacklogTypeNext, Bounds, ProductIsNatural DEF Rate
<1>3. Len(queue') = 0
  BY EmptyQueue
<1>4. Len(queue') + Used' <= Rate * Backlog' + Arrivals'
  BY <1>1, <1>2, <1>3
<1>5. Rate' = Rate
  BY DEF Rate
<1> QED
  BY <1>3, <1>4, <1>5 DEF BacklogInv

LEMMA KeepBacklog ==
  ASSUME TypeOK, TypeOK', BacklogInv, queue' = queue \/ queue' = <<>>,
         Used' = Used, Backlog' = Backlog, Arrivals' >= Arrivals
  PROVE  BacklogInv'
<1>1. Rate * Backlog \in Nat
  BY BacklogType, ProductIsNatural
<1>2. Rate' = Rate
  BY DEF Rate
<1>3. CASE queue' = queue
  <2>1. Len(queue') + Used' <= Rate * Backlog' + Arrivals'
    BY <1>1, <1>3, BacklogType, BacklogTypeNext DEF BacklogInv
  <2> QED
    BY <1>2, <1>3, <2>1 DEF BacklogInv
<1>4. CASE queue' = <<>>
  <2>1. Len(queue') = 0
    BY <1>4, EmptyQueue
  <2>2. Used <= Rate * Backlog + Arrivals
    BY <1>1, BacklogType DEF BacklogInv
  <2>3. Len(queue') + Used' <= Rate * Backlog' + Arrivals'
    BY <1>1, <2>1, <2>2, BacklogType, BacklogTypeNext
  <2> QED
    BY <1>2, <2>1, <2>3 DEF BacklogInv
<1> QED
  BY <1>3, <1>4

LEMMA AppendBacklog ==
  ASSUME TypeOK, TypeOK', BacklogInv, NEW f \in Frames, Enqueue(f),
         Used' = Used, Backlog' = Backlog, Arrivals' = Arrivals + 1
  PROVE  BacklogInv'
<1>1. CASE queue' = queue
  BY <1>1, KeepBacklog, BacklogType
<1>2. CASE queue' # queue
  <2>1. /\ Passes(f)
        /\ queue' = Append(queue, [frame |-> f, age |-> 0])
    BY <1>2 DEF Enqueue
  <2>2. [frame |-> f, age |-> 0] \in Received
    BY DEF Received
  <2>3. /\ Len(queue') = Len(queue) + 1
        /\ \A i \in 1 .. Len(queue) : queue'[i] = queue[i]
        /\ queue'[Len(queue) + 1] = [frame |-> f, age |-> 0]
    BY <2>1, <2>2, StateFields, AppendProperties
  <2>4. Rate * Backlog \in Nat /\ Rate' = Rate
    BY BacklogType, ProductIsNatural DEF Rate
  <2>5. Len(queue') + Used' <= Rate' * Backlog' + Arrivals'
    <3> DEFINE room == Rate * Backlog
    <3>1. Len(queue) + Used <= room + Arrivals
      BY DEF BacklogInv
    <3>2. Rate' * Backlog' = room
      BY <2>4
    <3>3. room \in Nat
      BY <2>4
    <3> HIDE DEF room
    <3>4. Len(queue) + 1 + Used <= room + Arrivals + 1
      BY <3>1, <3>3, Counts
    <3>5. Len(queue') + Used' <= room + Arrivals'
      BY <2>3, <3>3, <3>4, Counts
    <3> QED
      BY <3>2, <3>5
  <2>6. ASSUME NEW i \in 1 .. Len(queue')
        PROVE  /\ queue'[i].age > 0 =>
                    i + Used' <= Rate' * (Backlog' + 1 - queue'[i].age)
               /\ queue'[i].frame.format \in {"standard", "error"}
    <3>1. CASE i \in 1 .. Len(queue)
      BY <2>3, <2>4, <3>1 DEF BacklogInv
    <3>2. CASE i = Len(queue) + 1
      <4>1. queue'[i].age = 0 /\ queue'[i].frame = f
        BY <2>3, <3>2
      <4>2. f.format \in {"standard", "error"}
        BY <2>1 DEF Passes
      <4> QED
        BY <4>1, <4>2
    <3> QED
      BY <2>3, <3>1, <3>2, BacklogType
  <2> QED
    BY <2>5, <2>6 DEF BacklogInv
<1> QED
  BY <1>1, <1>2

(* One frame is read by the running poll. *)
LEMMA ReadBacklog ==
  ASSUME TypeOK, TypeOK', LossInv, BacklogInv, queue # <<>>, budget > 0,
         queue' = Tail(queue) \/ queue' = <<>>, budget' = budget - 1,
         UNCHANGED <<poll_wait, stalls, traffic, repeat_wait>>
  PROVE  BacklogInv'
<1>1. poll_wait = 0 /\ poll_wait' = 0
  BY DEF LossInv
<1>2. Due = 1 /\ Backlog = stalls + 1
  BY DEF Due, Backlog
<1>3. Arrivals' = Arrivals /\ Rate' = Rate
  BY DEF Arrivals, RepeatComes, Rate
<1>4. /\ Len(queue) > 0 /\ Len(Tail(queue)) = Len(queue) - 1
      /\ \A i \in 1 .. Len(queue) - 1 : Tail(queue)[i] = queue[i + 1]
  BY StateFields, QueueOps
<1>5. Rate * Backlog \in Nat /\ Rate * Backlog' \in Int
  BY BacklogType, BacklogTypeNext, ProductIsNatural
<1>6. Used = kMaximumFramesPerPoll - budget
  BY DEF Used
(* The reads left and the ticks to catch up with, read by read. *)
<1>7. /\ Used' + Rate * (Backlog - Backlog') <= Used + 1
      /\ Backlog - Backlog' \in {0, 1}
  <2>1. CASE budget' > 0
    <3>1. Used' = Used + 1
      <4>1. Used' = kMaximumFramesPerPoll - budget'
        BY <2>1, ByCasesNext
      <4>2. budget \in Nat /\ kMaximumFramesPerPoll \in Nat
        BY StateFields, Bounds
      <4> QED
        BY <1>6, <4>1, <4>2
    <3>2. Backlog' = Backlog
      BY <1>2, <2>1, StateFields DEF Due, Backlog
    <3> QED
      BY <3>1, <3>2, BacklogType
  <2>2. CASE ~(budget' > 0)
    <3>1. budget = 1 /\ Used = kMaximumFramesPerPoll - 1 /\ Used' = 0
      BY <1>6, <2>2, StateFields DEF Used
    <3>2. Backlog' = Backlog - 1 /\ Backlog - Backlog' = 1
      BY <1>1, <1>2, <2>2, StateFields DEF Due, Backlog
    <3> QED
      BY <3>1, <3>2, BacklogType, Bounds
  <2> QED
    BY <2>1, <2>2
<1>8. Rate * (Backlog - Backlog') = Rate * Backlog - Rate * Backlog'
  BY BacklogType, BacklogTypeNext
<1>9. Len(queue') <= Len(queue) - 1 /\ Len(queue') \in Nat
  BY <1>4, EmptyQueue, BacklogType
<1>10. Len(queue') + Used' <= Rate' * Backlog' + Arrivals'
  <2> DEFINE now == Rate * Backlog
             then == Rate * Backlog'
             used == Used'
             len == Len(queue')
  <2>1. used + (now - then) <= Used + 1
    BY <1>7, <1>8
  <2>2. Len(queue) + Used <= now + Arrivals
    BY DEF BacklogInv
  <2>3. /\ now \in Nat /\ then \in Int /\ used \in Nat /\ len \in Nat
        /\ len <= Len(queue) - 1
    BY <1>5, <1>9, BacklogTypeNext
  <2> HIDE DEF now, then, used, len
  <2>4. len + used <= then + Arrivals
    BY <2>1, <2>2, <2>3, BacklogType
  <2> QED
    BY <1>3, <2>4 DEF then, used, len
<1>11. ASSUME NEW i \in 1 .. Len(queue')
       PROVE  /\ queue'[i].age > 0 =>
                   i + Used' <= Rate' * (Backlog' + 1 - queue'[i].age)
              /\ queue'[i].frame.format \in {"standard", "error"}
  <2>1. queue' = Tail(queue)
    BY EmptyQueue
  <2>2. i + 1 \in 1 .. Len(queue) /\ queue'[i] = queue[i + 1] /\ i \in Nat
    BY <1>4, <1>9, <2>1, BacklogType
  <2>3. queue'[i].frame.format \in {"standard", "error"}
    BY <2>2 DEF BacklogInv
  <2>4. ASSUME queue'[i].age > 0
        PROVE  i + Used' <= Rate' * (Backlog' + 1 - queue'[i].age)
    <3> DEFINE a == queue[i + 1].age
               now == Rate * (Backlog + 1 - a)
               then == Rate * (Backlog' + 1 - a)
               gap == Rate * (Backlog - Backlog')
               used == Used'
    <3>1. a \in Nat /\ i + 1 + Used <= now
      BY <2>2, <2>4, BacklogType DEF BacklogInv
    <3>2. now - then = gap
      <4> DEFINE x == Backlog
                 y == Backlog'
      <4>1. x \in Int /\ y \in Int /\ Rate \in Int /\ a \in Int
        <5>1. y \in Int
          BY BacklogTypeNext
        <5>2. a \in Int
          BY <3>1
        <5> HIDE DEF y, a
        <5> QED
          BY <5>1, <5>2, Counts
      <4> HIDE DEF x, y, a
      <4>2. Rate * (x + 1 - a) - Rate * (y + 1 - a) = Rate * (x - y)
        BY <4>1
      <4> QED
        BY <4>2 DEF x, y
    <3>3. used + gap <= Used + 1
      BY <1>7
    <3>4. now \in Int /\ then \in Int /\ gap \in Int /\ used \in Nat
      <4>1. Rate \in Int /\ Backlog \in Int /\ Backlog' \in Int /\ used \in Nat
        BY BacklogType, BacklogTypeNext
      <4>2. a \in Int
        BY <3>1
      <4> HIDE DEF a, used
      <4>3. \A x, y \in Int : x + 1 - y \in Int /\ x - y \in Int /\ x * y \in Int
        OBVIOUS
      <4> QED
        BY <4>1, <4>2, <4>3
    <3> HIDE DEF a, now, then, gap, used
    <3>5. i + used <= then
      BY <2>2, <3>1, <3>2, <3>3, <3>4, BacklogType
    <3> QED
      BY <1>3, <2>2, <3>5 DEF a, then, used
  <2> QED
    BY <2>3, <2>4
<1> QED
  BY <1>10, <1>11 DEF BacklogInv

LEMMA InitBacklog == Init => BacklogInv
<1> SUFFICES ASSUME Init PROVE BacklogInv
  OBVIOUS
<1>1. queue = <<>> /\ budget = 0
  BY DEF Init
<1>2. Len(queue) = 0 /\ Used = 0
  BY <1>1, EmptyQueue, ByCases
<1>3. Rate * Backlog \in Nat /\ Arrivals \in Nat
  BY InitTyped, BacklogType, ProductIsNatural
<1>4. Len(queue) + Used <= Rate * Backlog + Arrivals
  BY <1>2, <1>3
<1> QED
  BY <1>2, <1>4 DEF BacklogInv

(* The operator's events and the control timer read nothing. *)
LEMMA EventsBacklog ==
  ASSUME TypeOK, TypeOK', BacklogInv,
         EnableMotors \/ ResetFaults \/ ControlCallback
  PROVE  BacklogInv'
<1>1. UNCHANGED <<budget, poll_wait, stalls, traffic, repeat_wait>>
  BY DEF EnableMotors, ResetFaults, ControlCallback, scheduler, bus
<1>2. PICK sends \in BOOLEAN : SocketAfter(sends, queue)
  BY StateFields
  DEF EnableMotors, ResetFaults, ControlCallback, LatchSafetyStop
<1>3. queue' = queue \/ queue' = <<>>
  BY <1>2 DEF SocketAfter
<1>4. Used' = Used /\ Backlog' = Backlog /\ Arrivals' = Arrivals
  BY <1>1 DEF Used, Backlog, Due, Arrivals, RepeatComes
<1>5. Arrivals' >= Arrivals
  BY <1>4, BacklogType
<1> QED
  BY <1>3, <1>4, <1>5, KeepBacklog

LEMMA PollBacklog ==
  ASSUME TypeOK, TypeOK', BacklogInv,
         PollFindsSocketClosed \/ PollReopens \/ PollQueries
  PROVE  BacklogInv'
<1>1. CASE PollFindsSocketClosed \/ PollReopens
  <2>1. queue' = <<>>
    BY <1>1, StateFields DEF PollFindsSocketClosed, PollReopens, socket
  <2>2. budget' = 0 \/ budget' = kMaximumFramesPerPoll
    BY <1>1 DEF PollFindsSocketClosed, PollReopens, PollBegins, Idle, ReadsInPoll
  <2> QED
    BY <2>1, <2>2, EmptyBacklog
<1>2. CASE PollQueries
  <2>1. /\ budget = 0 /\ budget' = kMaximumFramesPerPoll /\ poll_wait > 0
        /\ UNCHANGED <<stalls, traffic, repeat_wait>>
        /\ SocketAfter(TRUE, queue)
    BY <1>2 DEF PollQueries, PollBegins, Idle, ReadsInPoll, bus
  <2>2. stalls' = stalls
    BY <1>2, <2>1
  <2>3. queue' = queue \/ queue' = <<>>
    BY <2>1 DEF SocketAfter
  <2>4. Used = 0 /\ Used' = 0
    <3>1. Used' = kMaximumFramesPerPoll - budget'
      BY <2>1, ByCasesNext, Bounds
    <3> QED
      BY <2>1, <3>1, ByCases, Bounds
  <2>5. Due = 1 /\ Due' = 1
    BY <2>1, Bounds DEF Due
  <2>6. Backlog' = Backlog
    BY <2>2, <2>5 DEF Backlog
  <2>7. Arrivals' = Arrivals
    BY <2>1 DEF Arrivals, RepeatComes
  <2>8. Arrivals' >= Arrivals
    BY <2>7, BacklogType
  <2> QED
    BY <2>3, <2>4, <2>6, <2>8, KeepBacklog
<1> QED
  BY <1>1, <1>2

LEMMA ReadsBacklog ==
  ASSUME TypeOK, TypeOK', LossInv, BacklogInv,
         ReadEndsPoll \/ ReadLinkDown \/ ReadBusFault \/ ReadFeedback
           \/ ReadFault \/ ReadOther
  PROVE  BacklogInv'
<1>1. CASE ReadLinkDown
  BY <1>1, EmptyBacklog DEF ReadLinkDown, LinkDown
<1>2. CASE ReadEndsPoll
  (* The filters let no frame through that ends a poll. *)
  <2>1. queue = <<>>
    <3>1. CASE Reading /\ Read.format \in {"extended", "remote"}
      <4>1. queue # <<>>
        BY <3>1 DEF Reading
      <4>2. Head(queue) = queue[1] /\ 1 \in 1 .. Len(queue)
        BY <4>1, StateFields, QueueOps
      <4>3. queue[1].frame.format \in {"standard", "error"}
        BY <4>2 DEF BacklogInv
      <4> QED
        BY <3>1, <4>2, <4>3 DEF Read
    <3> QED
      BY <1>2, <3>1, StateFields DEF ReadEndsPoll, EndsPoll
  <2>2. queue' = <<>> /\ budget' = 0
    BY <1>2, <2>1 DEF ReadEndsPoll, SocketAfter, Reading
  <2> QED
    BY <2>2, EmptyBacklog
<1>3. CASE ReadBusFault \/ ReadFeedback \/ ReadFault \/ ReadOther
  <2>1. /\ Reading /\ budget' = budget - 1
        /\ UNCHANGED <<poll_wait, stalls, traffic, repeat_wait>>
    BY <1>3
    DEF ReadBusFault, ReadFeedback, ReadFault, ReadOther, scheduler, bus
  <2>2. \E sends : SocketAfter(sends, Tail(queue))
    BY <1>3
    DEF ReadBusFault, ReadFeedback, ReadFault, ReadOther, LatchSafetyStop
  <2>3. queue' = Tail(queue) \/ queue' = <<>>
    BY <2>2 DEF SocketAfter
  <2> QED
    BY <2>1, <2>3, ReadBacklog DEF Reading
<1> QED
  BY <1>1, <1>2, <1>3

LEMMA EnvironmentBacklog ==
  ASSUME TypeOK, TypeOK', BacklogInv, Environment
  PROVE  BacklogInv'
<1>1. UNCHANGED <<budget, poll_wait, stalls>>
  BY DEF Environment, FrameArrives, ControllerFaults, ControllerRecovers,
         ControllerRepeatsFault, InterfaceDown, InterfaceUp, scheduler
<1>2. Used' = Used /\ Backlog' = Backlog
  BY <1>1 DEF Used, Backlog, Due
<1>3. CASE \E f \in Traffic : FrameArrives(f)
  <2>1. PICK f \in Traffic : FrameArrives(f)
    BY <1>3
  <2>2. f \in Frames /\ Enqueue(f)
    BY <2>1, ReceiveAssumption DEF FrameArrives
  <2>3. traffic' = traffic + 1 /\ RepeatComes' = RepeatComes
    BY <2>1 DEF FrameArrives, RepeatComes
  <2>4. Arrivals' = Arrivals + 1
    <3>1. traffic \in Nat /\ (RepeatComes = 0 \/ RepeatComes = 1)
      BY StateFields, ByCases
    <3> QED
      BY <2>3, <3>1 DEF Arrivals
  <2> QED
    BY <1>2, <2>2, <2>4, AppendBacklog
<1>4. CASE ControllerRepeatsFault
  <2>1. traffic' = traffic /\ RepeatComes = 0 /\ RepeatComes' = 1
    BY <1>4 DEF ControllerRepeatsFault, RepeatComes
  <2>2. Arrivals' = Arrivals + 1
    BY <2>1, StateFields DEF Arrivals
  <2>3. Enqueue(FaultReport) \/ queue' = queue
    BY <1>4 DEF ControllerRepeatsFault
  <2>4. Arrivals' >= Arrivals
    BY <2>2, BacklogType
  <2> QED
    BY <1>2, <2>2, <2>3, <2>4, AppendBacklog, KeepBacklog, FaultReportType
<1>5. CASE ControllerFaults \/ ControllerRecovers \/ InterfaceDown \/ InterfaceUp
  <2>1. queue' = queue /\ traffic' = traffic
    BY <1>5
    DEF ControllerFaults, ControllerRecovers, InterfaceDown, InterfaceUp, socket
  <2>2. repeat_wait' = 0 \/ repeat_wait' = repeat_wait
    BY <1>5
    DEF ControllerFaults, ControllerRecovers, InterfaceDown, InterfaceUp
  <2>3. RepeatComes' = 1 \/ RepeatComes' = RepeatComes
    BY <2>2 DEF RepeatComes
  <2>4. Arrivals' >= Arrivals
    <3>1. traffic \in Nat /\ (RepeatComes = 0 \/ RepeatComes = 1)
      BY StateFields, ByCases
    <3> QED
      BY <2>1, <2>3, <3>1 DEF Arrivals
  <2> QED
    BY <1>2, <2>1, <2>4, KeepBacklog
<1> QED
  BY <1>3, <1>4, <1>5 DEF Environment

LEMMA TickBacklog ==
  ASSUME TypeOK, TypeOK', BacklogInv, Tick
  PROVE  BacklogInv'
<1>1. /\ budget = 0 /\ budget' = 0 /\ poll_wait' = poll_wait + 1
      /\ stalls' = (IF Late THEN stalls + 1 ELSE stalls)
  BY DEF Tick, Idle
<1>2. poll_wait \in Nat /\ stalls \in Nat /\ stalls' \in Nat
  <2>1. poll_wait \in Nat /\ stalls \in Nat
    BY StateFields
  <2> QED
    BY <1>1, <2>1
<1>3. Used = 0 /\ Used' = 0
  BY <1>1, ByCases, ByCasesNext
<1>4. Backlog + 1 <= Backlog'
  <2>1. Due' = 1
    BY <1>1, <1>2 DEF Due
  <2>2. CASE poll_wait > 0
    <3>1. Due = 1 /\ stalls' = stalls + 1
      BY <1>1, <2>2 DEF Due, Late
    <3> QED
      BY <1>2, <2>1, <3>1 DEF Backlog
  <2>3. CASE ~(poll_wait > 0)
    <3>1. Due = 0
      BY <1>1, <2>3 DEF Due
    <3>2. stalls <= stalls'
      BY <1>1, <1>2
    <3>3. Backlog = stalls /\ Backlog' = stalls' + 1
      BY <1>2, <2>1, <3>1 DEF Backlog
    <3>4. stalls + 1 <= stalls' + 1
      <4> DEFINE x == stalls
                 y == stalls'
      <4>1. x \in Nat /\ y \in Nat /\ x <= y
        BY <1>2, <3>2
      <4> HIDE DEF x, y
      <4>2. x + 1 <= y + 1
        BY <4>1
      <4> QED
        BY <4>2 DEF x, y
    <3> QED
      BY <3>3, <3>4
  <2> QED
    BY <2>2, <2>3
<1>5. /\ Len(queue') = Len(queue)
      /\ \A i \in 1 .. Len(queue) : queue'[i].age = queue[i].age + 1
                                    /\ queue'[i].frame = queue[i].frame
  BY AgedQueue, TypeParts
<1>6. Len(queue) <= Rate * Backlog'
  <2>1. Rate * (Backlog + 1) <= Rate * Backlog'
    <3> DEFINE b == Backlog
               c == Backlog'
    <3>1. b \in Int /\ c \in Int /\ b + 1 <= c /\ Rate \in Nat
      BY <1>4, BacklogType, BacklogTypeNext
    <3> HIDE DEF b, c
    <3>2. Rate * (b + 1) <= Rate * c
      BY <3>1, ProductGrows
    <3> QED
      BY <3>2 DEF b, c
  <2>2. Rate * (Backlog + 1) = Rate * Backlog + Rate
    BY ProductNext, BacklogType
  <2>3. Len(queue) <= Rate * Backlog + Arrivals
    BY <1>3, BacklogType DEF BacklogInv
  <2> DEFINE now == Rate * Backlog
             then == Rate * Backlog'
             mid == Rate * (Backlog + 1)
  <2>4. now \in Nat /\ then \in Nat /\ mid \in Int
    BY BacklogType, BacklogTypeNext, ProductIsNatural, <2>2
  <2> HIDE DEF now, then, mid
  <2>5. Len(queue) <= then
    <3>1. mid <= then /\ mid = now + Rate /\ Len(queue) <= now + Arrivals
      BY <2>1, <2>2, <2>3 DEF now, then, mid
    <3> QED
      BY <2>4, <3>1, BacklogType
  <2> QED
    BY <2>5 DEF then
<1>7. Rate' = Rate
  BY DEF Rate
<1>8. Len(queue') + Used' <= Rate' * Backlog' + Arrivals'
  <2>1. Rate * Backlog' \in Nat
    BY BacklogType, BacklogTypeNext, ProductIsNatural
  <2> QED
    BY <1>3, <1>5, <1>6, <1>7, <2>1, BacklogType, BacklogTypeNext
<1>9. ASSUME NEW i \in 1 .. Len(queue')
      PROVE  /\ i + Used' <= Rate' * (Backlog' + 1 - queue'[i].age)
             /\ queue'[i].frame.format \in {"standard", "error"}
  <2>1. /\ i \in 1 .. Len(queue) /\ i \in Nat /\ i <= Len(queue)
        /\ queue'[i].age = queue[i].age + 1 /\ queue'[i].frame = queue[i].frame
    BY <1>5, BacklogType
  <2>2. queue'[i].frame.format \in {"standard", "error"}
    BY <2>1 DEF BacklogInv
  <2> DEFINE a == queue[i].age
             b == Backlog
             c == Backlog'
  <2>3. a \in Nat /\ b \in Nat /\ c \in Nat /\ b + 1 <= c
    BY <1>4, <2>1, BacklogType, BacklogTypeNext
  <2>4. Rate \in Nat
    BY BacklogType
  <2>5. i <= Rate * (c - a)
    <3>1. CASE a = 0
      <4>1. Len(queue) <= Rate * c /\ Len(queue) \in Nat
        BY <1>6, BacklogType
      <4> HIDE DEF a, b, c
      <4>2. c - a = c
        BY <2>3, <3>1
      <4>3. Rate * c \in Int
        BY <2>3, <2>4
      <4> QED
        BY <2>1, <4>1, <4>2, <4>3
    <3>2. CASE a > 0
      <4>1. i <= Rate * (b + 1 - a)
        BY <1>3, <2>1, <3>2 DEF BacklogInv
      <4> HIDE DEF a, b, c
      <4>2. Rate * (b + 1 - a) <= Rate * (c - a)
        BY <2>3, <2>4, ProductGrows
      <4>3. Rate * (b + 1 - a) \in Int /\ Rate * (c - a) \in Int
        BY <2>3, <2>4
      <4> QED
        BY <2>1, <4>1, <4>2, <4>3
    <3> QED
      BY <2>3, <3>1, <3>2
  <2>6. c + 1 - queue'[i].age = c - a
    <3>1. queue'[i].age = a + 1
      BY <2>1
    <3> HIDE DEF a, c
    <3> QED
      BY <2>3, <3>1
  <2>7. i + Used' <= Rate' * (Backlog' + 1 - queue'[i].age)
    BY <1>3, <1>7, <2>1, <2>5, <2>6
  <2> QED
    BY <2>2, <2>7
<1> QED
  BY <1>8, <1>9 DEF BacklogInv

LEMMA StepBacklog ==
  TypeOK /\ TypeOK' /\ LossInv /\ BacklogInv /\ [Next]_vars => BacklogInv'
<1> SUFFICES ASSUME TypeOK, TypeOK', LossInv, BacklogInv, [Next]_vars
             PROVE  BacklogInv'
  OBVIOUS
<1>1. CASE UNCHANGED vars
  <2>1. UNCHANGED <<queue, budget, poll_wait, stalls, traffic, repeat_wait>>
    BY <1>1 DEF vars, socket, scheduler, bus
  <2> QED
    BY <2>1
    DEF BacklogInv, Rate, Backlog, Due, Used, Arrivals, RepeatComes
<1> QED
  BY <1>1, EventsBacklog, PollBacklog, ReadsBacklog, EnvironmentBacklog,
     TickBacklog
  DEF Next, Callback

-----------------------------------------------------------------------------
(* The feedback that keeps the gate open. *)

(* Feedback is at most one tick, and the ticks by which timers were late,  *)
(* older than its stamp says; once the stamp is too old, the control timer *)
(* is about to find that out.                                              *)
EvidenceInv ==
  motion_commands_enabled =>
    /\ evidence_age <= feedback_age + 1 + stalls
    /\ feedback_age > FeedbackTimeout => control_wait > 0

(* The frame at the head of the buffer is no older than the backlog. *)
LEMMA HeadIsRecent ==
  ASSUME TypeOK, LossInv, BacklogInv, Reading
  PROVE  Head(queue).age \in Nat /\ Head(queue).age <= 1 + stalls
<1>1. budget > 0 /\ queue # <<>>
  BY DEF Reading
<1>2. Due = 1
  BY <1>1 DEF Due
<1>3. Backlog = 1 + stalls
  BY <1>2, Counts
<1>4. Head(queue) = queue[1] /\ 1 \in 1 .. Len(queue)
  BY <1>1, StateFields, QueueOps
<1> DEFINE a == queue[1].age
           room == Backlog + 1 - a
<1>5. a \in Nat /\ Backlog \in Nat /\ Used \in Nat /\ Rate \in Nat
  BY <1>4, BacklogType
<1>6. CASE a > 0
  <2>1. 1 + Used <= Rate * room
    BY <1>4, <1>6 DEF BacklogInv
  <2>2. room \in Int
    BY <1>5
  <2> HIDE DEF a, room
  <2>3. ASSUME room <= 0 PROVE FALSE
    <3>1. Rate * room <= Rate * 0
      BY <1>5, <2>2, <2>3, ProductGrows
    <3>2. Rate * 0 = 0 /\ Rate * room \in Int
      BY <1>5, <2>2
    <3> QED
      BY <1>5, <2>1, <3>1, <3>2
  <2>4. room > 0
    BY <2>2, <2>3
  <2>5. a <= Backlog
    BY <1>5, <2>4 DEF room
  <2> QED
    BY <1>3, <1>4, <1>5, <2>5 DEF a
<1>7. CASE a <= 0
  <2> HIDE DEF a
  <2>1. a <= Backlog
    BY <1>5, <1>7
  <2> QED
    BY <1>3, <1>4, <1>5, <2>1 DEF a
<1>8. a > 0 \/ a <= 0
  <2> HIDE DEF a
  <2> QED
    BY <1>5
<1> QED
  BY <1>6, <1>7, <1>8

LEMMA CallbackEvidence ==
  ASSUME TypeOK, TypeOK', LossInv, BacklogInv, EvidenceInv, Callback
  PROVE  EvidenceInv'
<1>0. /\ feedback_age \in Nat /\ evidence_age \in Nat /\ stalls \in Nat
      /\ FeedbackTimeout \in Nat
  BY StateFields, Bounds
<1>1. CASE EnableMotors
  <2>1. /\ motion_commands_enabled' => feedback_age' = 0
        /\ evidence_age' = 0 /\ stalls' = stalls
    BY <1>1 DEF EnableMotors, scheduler
  <2> QED
    BY <1>0, <2>1 DEF EvidenceInv
<1>2. CASE ResetFaults
  BY <1>2 DEF ResetFaults, EvidenceInv
<1>3. CASE ControlCallback
  <2>1. UNCHANGED <<feedback_age, evidence_age, stalls>>
    BY <1>3 DEF ControlCallback, clocks
  <2>2. motion_commands_enabled' =>
          motion_commands_enabled /\ ~(feedback_age > FeedbackTimeout)
    BY <1>3 DEF ControlCallback, FeedbackTimedOut, LatchSafetyStop
  <2> QED
    BY <2>1, <2>2 DEF EvidenceInv
<1>4. CASE PollFindsSocketClosed \/ PollReopens \/ PollQueries \/ ReadEndsPoll
           \/ ReadBusFault \/ ReadFault \/ ReadOther
  <2>1. UNCHANGED <<feedback_age, evidence_age, stalls, control_wait>>
    BY <1>4
    DEF PollFindsSocketClosed, PollReopens, PollQueries, ReadEndsPoll,
        ReadBusFault, ReadFault, ReadOther, clocks, scheduler, QueryIsNoFeedback
  <2>2. motion_commands_enabled' => motion_commands_enabled
    BY <1>4
    DEF PollFindsSocketClosed, PollReopens, PollQueries, ReadEndsPoll,
        ReadBusFault, ReadFault, ReadOther, LatchSafetyStop
  <2> QED
    BY <2>1, <2>2 DEF EvidenceInv
<1>5. CASE ReadLinkDown
  BY <1>5 DEF ReadLinkDown, LinkDown, EvidenceInv
<1>6. CASE ReadFeedback
  <2>1. /\ feedback_age' = 0 /\ stalls' = stalls
        /\ evidence_age' = Least(evidence_age, Head(queue).age)
    BY <1>6 DEF ReadFeedback, scheduler
  <2>2. Head(queue).age \in Nat /\ Head(queue).age <= 1 + stalls
    BY <1>6, HeadIsRecent DEF ReadFeedback
  <2>3. evidence_age' <= 1 + stalls
    BY <1>0, <2>1, <2>2 DEF Least
  <2>4. evidence_age' \in Nat
    BY <1>0, <2>1, <2>2 DEF Least
  <2> QED
    BY <1>0, <2>1, <2>3, <2>4 DEF EvidenceInv
<1> QED
  BY <1>1, <1>2, <1>3, <1>4, <1>5, <1>6 DEF Callback

LEMMA TickEvidence ==
  ASSUME TypeOK, TypeOK', EvidenceInv, Tick
  PROVE  EvidenceInv'
<1> SUFFICES ASSUME motion_commands_enabled'
             PROVE  /\ evidence_age' <= feedback_age' + 1 + stalls'
                    /\ control_wait' > 0
  BY DEF EvidenceInv
<1>1. /\ motion_commands_enabled
      /\ evidence_age' = Older(evidence_age, EvidenceBound + 1)
      /\ feedback_age' = Older(feedback_age, FeedbackTimeout + 1)
      /\ stalls' = (IF Late THEN stalls + 1 ELSE stalls)
      /\ control_wait' = control_wait + 1
  BY DEF Tick
<1>2. /\ feedback_age \in Nat /\ evidence_age \in Nat /\ stalls \in Nat
      /\ control_wait \in Nat /\ FeedbackTimeout \in Nat
      /\ feedback_age <= FeedbackTimeout + 1 /\ EvidenceBound \in Nat
  BY StateFields, Bounds
<1>3. evidence_age <= feedback_age + 1 + stalls
  BY <1>1 DEF EvidenceInv
<1>4. evidence_age' \in Nat /\ evidence_age' <= evidence_age + 1
  BY <1>1, <1>2 DEF Older
<1>5. feedback_age' + stalls' >= feedback_age + stalls + 1
      /\ feedback_age' \in Nat /\ stalls' \in Nat
  <2>1. CASE feedback_age < FeedbackTimeout + 1
    <3>1. feedback_age' = feedback_age + 1
      BY <1>1, <2>1 DEF Older
    <3>2. stalls' = stalls \/ stalls' = stalls + 1
      BY <1>1
    <3>3. stalls' \in Nat /\ stalls' >= stalls
      BY <1>2, <3>2
    <3>4. feedback_age' \in Nat
      BY <1>2, <3>1
    <3>5. feedback_age + 1 + stalls <= feedback_age + 1 + stalls'
      <4> DEFINE x == stalls
                 y == stalls'
                 z == feedback_age
      <4>1. x \in Nat /\ y \in Nat /\ z \in Nat /\ x <= y
        BY <1>2, <3>3
      <4> HIDE DEF x, y, z
      <4>2. z + 1 + x <= z + 1 + y
        BY <4>1
      <4> QED
        BY <4>2 DEF x, y, z
    <3>6. feedback_age + 1 + stalls' = feedback_age' + stalls'
      BY <3>1
    <3>7. feedback_age + stalls + 1 = feedback_age + 1 + stalls
      BY <1>2
    <3> QED
      BY <3>3, <3>4, <3>5, <3>6, <3>7
  <2>2. CASE ~(feedback_age < FeedbackTimeout + 1)
    <3>1. feedback_age' = feedback_age
      BY <1>1, <2>2 DEF Older
    <3>2. control_wait > 0
      BY <1>1, <1>2, <2>2 DEF EvidenceInv
    <3>3. stalls' = stalls + 1
      BY <1>1, <3>2 DEF Late
    <3> QED
      BY <1>2, <3>1, <3>3
  <2> QED
    BY <2>1, <2>2
<1> QED
  BY <1>1, <1>2, <1>3, <1>4, <1>5

LEMMA StepEvidence ==
  TypeOK /\ TypeOK' /\ LossInv /\ BacklogInv /\ EvidenceInv /\ [Next]_vars
    => EvidenceInv'
<1> SUFFICES ASSUME TypeOK, TypeOK', LossInv, BacklogInv, EvidenceInv,
                    [Next]_vars
             PROVE  EvidenceInv'
  OBVIOUS
<1>1. CASE UNCHANGED vars
  BY <1>1 DEF EvidenceInv, vars, clocks, scheduler
<1>2. CASE Environment
  BY <1>2
  DEF EvidenceInv, Environment, FrameArrives, ControllerFaults,
      ControllerRecovers, ControllerRepeatsFault, InterfaceDown, InterfaceUp,
      clocks, scheduler
<1> QED
  BY <1>1, <1>2, CallbackEvidence, TickEvidence DEF Next

(* The gate stays open on feedback that was sent a bounded time ago, however *)
(* long the frame waited in the receive buffer behind late polls.            *)
THEOREM EvidenceIsRecent == Spec => []GateRestsOnRecentFeedback
<1>1. Init => EvidenceInv
  BY DEF Init, EvidenceInv
<1>2. TypeOK /\ EvidenceInv => GateRestsOnRecentFeedback
  <2> SUFFICES ASSUME TypeOK, EvidenceInv, motion_commands_enabled
               PROVE  evidence_age <= EvidenceBound
    BY DEF GateRestsOnRecentFeedback
  <2>1. /\ evidence_age \in Nat /\ feedback_age \in Nat /\ stalls \in Nat
        /\ feedback_age <= FeedbackTimeout + 1 /\ stalls <= MaxStalls
        /\ FeedbackTimeout \in Nat /\ MaxStalls \in Nat
    BY StateFields, Bounds
  <2>2. evidence_age <= feedback_age + 1 + stalls
    BY DEF EvidenceInv
  <2> QED
    BY <2>1, <2>2 DEF EvidenceBound, Delay
<1> QED
  BY <1>1, <1>2, TypeCorrect, InitLoss, StepLoss, InitBacklog, StepBacklog,
     StepEvidence, PTL DEF Spec

-----------------------------------------------------------------------------
(* The fault that the controller goes on reporting. *)

(* A fault report that is read within the window after a reset is ignored;  *)
(* the last of those was sent when the gate had been open on the fault for  *)
(* at most FaultIgnoreWindow - 1 ticks, and the next one follows in time.   *)
ReportedBy == FaultIgnoreWindow - 1 + FaultRepeat

IsFaultReport(f) == f.format = "standard" /\ Decode(f) = "mask"

(* The next report comes in time, or one that was sent in time is unread.   *)
Awaited == exposed_age - repeat_wait <= FaultIgnoreWindow - 1
Reported ==
  \E i \in 1 .. Len(queue) :
    IsFaultReport(queue[i].frame) /\ exposed_age - queue[i].age <= ReportedBy

(* The ticks in which a loss of the link is noticed, the late ones apart.   *)
PollDue == IF poll_wait > 0 THEN 1 ELSE 0
LossDelay == IF socket_open THEN Due ELSE 1 + PollDue

UnlatchedGate == motion_commands_enabled => ~fault_latched
LinkKept == motion_commands_enabled /\ lost_age = Unset => SendSucceeds
RecentReset == reset_age < FaultIgnoreWindow => exposed_age <= reset_age
NoExposure == ~(motion_commands_enabled /\ faulted) => exposed_age = 0

(* While the link is there, a report is on its way; a loss of the link has  *)
(* a bound of its own.                                                      *)
Exposure ==
  motion_commands_enabled /\ faulted =>
    /\ lost_age = Unset => Awaited \/ Reported
    /\ lost_age # Unset => exposed_age <= ReportedBy + LossDelay + stalls

ExposureInv ==
  UnlatchedGate /\ LinkKept /\ RecentReset /\ NoExposure /\ Exposure

LEMMA ExposureType ==
  ASSUME TypeOK
  PROVE  /\ FaultIgnoreWindow \in Nat /\ FaultIgnoreWindow >= 1
         /\ FaultRepeat \in Nat /\ FaultRepeat >= 1
         /\ ReportedBy \in Nat /\ ReportedBy = FaultIgnoreWindow - 1 + FaultRepeat
         /\ PollDue \in {0, 1} /\ LossDelay \in Nat /\ LossDelay <= 2
         /\ exposed_age \in Nat /\ exposed_age <= ExposureBound + 1
         /\ repeat_wait \in Nat /\ repeat_wait <= FaultRepeat
         /\ reset_age \in Nat /\ reset_age <= FaultIgnoreWindow
         /\ stalls \in Nat /\ stalls <= MaxStalls
         /\ motion_commands_enabled \in BOOLEAN /\ faulted \in BOOLEAN
<1>1. FaultIgnoreWindow \in Nat /\ FaultIgnoreWindow >= 1
      /\ FaultRepeat \in Nat /\ FaultRepeat >= 1
  BY ReceiveAssumption
<1>2. PollDue \in {0, 1} /\ Due \in {0, 1}
  BY ByCases DEF PollDue
<1>3. LossDelay \in Nat /\ LossDelay <= 2
  BY <1>2 DEF LossDelay
<1>4. exposed_age \in Nat /\ exposed_age <= ExposureBound + 1
  BY Bounds DEF TypeOK
<1> QED
  BY <1>1, <1>2, <1>3, <1>4, StateFields DEF ReportedBy

LEMMA InitExposure == Init => ExposureInv
<1> SUFFICES ASSUME Init PROVE ExposureInv
  OBVIOUS
<1>1. motion_commands_enabled = FALSE /\ exposed_age = 0
      /\ reset_age = FaultIgnoreWindow
  BY DEF Init
<1> QED
  BY <1>1, Bounds
  DEF ExposureInv, UnlatchedGate, LinkKept, RecentReset, NoExposure, Exposure

LEMMA BacklogLimit ==
  ASSUME TypeOK
  PROVE  Backlog \in Nat /\ Backlog <= 1 + MaxStalls
<1>1. Due = 0 \/ Due = 1
  BY ByCases
<1>2. stalls \in Nat /\ stalls <= MaxStalls /\ MaxStalls \in Nat
  BY StateFields, Bounds
<1> QED
  BY <1>1, <1>2 DEF Backlog

(* No unread frame is older than the backlog. *)
LEMMA UnreadIsRecent ==
  ASSUME TypeOK, BacklogInv, NEW i \in 1 .. Len(queue)
  PROVE  queue[i].age \in Nat /\ queue[i].age <= Backlog
<1> DEFINE a == queue[i].age
           room == Backlog + 1 - a
<1>1. /\ a \in Nat /\ Backlog \in Nat /\ Used \in Nat /\ Rate \in Nat
      /\ i \in Nat /\ i >= 1
  BY BacklogType
<1>2. CASE a > 0
  <2>1. i + Used <= Rate * room
    BY <1>2 DEF BacklogInv
  <2>2. room \in Int
    BY <1>1
  <2> HIDE DEF room
  <2>3. ASSUME room <= 0 PROVE FALSE
    <3>1. Rate * room <= Rate * 0
      BY <1>1, <2>2, <2>3, ProductGrows
    <3>2. Rate * 0 = 0 /\ Rate * room \in Int
      BY <1>1, <2>2
    <3> HIDE DEF a
    <3> QED
      BY <1>1, <2>1, <3>1, <3>2
  <2>4. room > 0
    BY <2>2, <2>3
  <2> QED
    BY <1>1, <2>4 DEF room
<1> QED
  BY <1>1, <1>2

(* What an open gate has waited for a report, with the link there. *)
LEMMA ExposedWithLink ==
  ASSUME TypeOK, BacklogInv, Awaited \/ Reported
  PROVE  exposed_age <= ReportedBy + Backlog
<1>1. CASE Awaited
  <2>1. exposed_age \in Nat /\ ReportedBy \in Nat
        /\ ReportedBy = FaultIgnoreWindow - 1 + FaultRepeat
        /\ repeat_wait \in Nat /\ repeat_wait <= FaultRepeat
        /\ FaultIgnoreWindow \in Nat /\ FaultRepeat \in Nat
    BY ExposureType
  <2>2. exposed_age <= ReportedBy
    BY <1>1, <2>1 DEF Awaited
  <2> QED
    BY <2>1, <2>2, Counts
<1>2. CASE Reported
  <2>1. PICK i \in 1 .. Len(queue) : exposed_age - queue[i].age <= ReportedBy
    BY <1>2 DEF Reported
  <2> DEFINE a == queue[i].age
  <2>2. a \in Nat /\ a <= Backlog /\ exposed_age - a <= ReportedBy
    BY <2>1, UnreadIsRecent
  <2>3. exposed_age \in Nat /\ ReportedBy \in Nat /\ Backlog \in Nat
    BY ExposureType, BacklogType
  <2> HIDE DEF a
  <2> QED
    BY <2>2, <2>3
<1> QED
  BY <1>1, <1>2

LEMMA ExposureLimit ==
  ASSUME TypeOK, BacklogInv, ExposureInv
  PROVE  exposed_age <= ExposureBound
<1>0. ExposureBound = ReportedBy + 2 + MaxStalls
  BY ExposureType, Bounds DEF ExposureBound, ReportedBy, Delay
<1>1. CASE ~(motion_commands_enabled /\ faulted)
  BY <1>1, Bounds DEF ExposureInv, NoExposure
<1>2. CASE motion_commands_enabled /\ faulted /\ lost_age = Unset
  <2>1. exposed_age <= ReportedBy + Backlog
    BY <1>2, ExposedWithLink DEF ExposureInv, Exposure
  <2>2. Backlog <= 1 + MaxStalls /\ Backlog \in Nat
    BY BacklogLimit
  <2> QED
    BY <1>0, <2>1, <2>2, ExposureType, Bounds
<1>3. CASE motion_commands_enabled /\ faulted /\ lost_age # Unset
  <2>1. exposed_age <= ReportedBy + LossDelay + stalls
    BY <1>3 DEF ExposureInv, Exposure
  <2> QED
    BY <1>0, <2>1, ExposureType, Bounds
<1> QED
  BY <1>1, <1>2, <1>3

(* There is room for the report in the buffer. *)
LEMMA ReportFits ==
  ASSUME TypeOK, BacklogInv, repeat_wait > 0
  PROVE  Len(queue) < QueueLimit
<1>1. Arrivals = traffic /\ traffic \in Nat /\ traffic <= MaxTraffic
  BY StateFields DEF Arrivals, RepeatComes
<1>2. Len(queue) <= Rate * Backlog + traffic
  BY <1>1, BacklogType, ProductIsNatural DEF BacklogInv
<1>3. Backlog <= 1 + MaxStalls /\ Backlog <= MaxStalls + 1
  BY BacklogLimit, Bounds
<1>4. Rate * Backlog <= Rate * (MaxStalls + 1)
  BY <1>3, BacklogType, Bounds, ProductGrows
<1>5. Rate * (MaxStalls + 2) = Rate * (MaxStalls + 1) + Rate
  <2>1. Rate \in Int /\ MaxStalls + 1 \in Int /\ MaxStalls + 1 + 1 = MaxStalls + 2
    BY BacklogType, Bounds
  <2>2. Rate * (MaxStalls + 1 + 1) = Rate * (MaxStalls + 1) + Rate
    BY <2>1, ProductNext
  <2> QED
    BY <2>1, <2>2
<1>6. Rate * (MaxStalls + 2) <= QueueLimit
  BY BandwidthAssumption DEF Rate
<1> DEFINE used == Rate * Backlog
           most == Rate * (MaxStalls + 1)
           all == Rate * (MaxStalls + 2)
<1>7. used \in Nat /\ most \in Nat /\ all \in Nat
  BY BacklogType, Bounds, ProductIsNatural
<1>8. traffic < Rate
  BY <1>1, Bounds DEF Rate
<1> HIDE DEF used, most, all
<1>9. /\ Len(queue) <= used + traffic /\ used <= most
      /\ all = most + Rate /\ all <= QueueLimit
  BY <1>2, <1>4, <1>5, <1>6 DEF used, most, all
<1> QED
  BY <1>1, <1>7, <1>8, <1>9, BacklogType, Bounds

LEMMA ExposureTypeNext ==
  ASSUME TypeOK, TypeOK'
  PROVE  /\ ReportedBy' = ReportedBy /\ ExposureBound' = ExposureBound
         /\ exposed_age' \in Nat /\ repeat_wait' \in Nat /\ reset_age' \in Nat
         /\ stalls' \in Nat
         /\ PollDue' \in {0, 1} /\ Due' \in {0, 1} /\ LossDelay' \in Nat
<1>1. ReportedBy' = ReportedBy /\ ExposureBound' = ExposureBound
  BY DEF ReportedBy, ExposureBound, Delay
<1>2. PollDue' \in {0, 1} /\ Due' \in {0, 1}
  BY ByCasesNext DEF PollDue
<1>3. LossDelay' \in Nat
  <2>1. CASE socket_open'
    <3>1. LossDelay' = Due'
      BY <2>1 DEF LossDelay
    <3> QED
      BY <1>2, <3>1
  <2>2. CASE ~socket_open'
    <3>1. LossDelay' = (1 + PollDue)'
      BY <2>2 DEF LossDelay
    <3>2. PollDue' = 0 \/ PollDue' = 1
      BY DEF PollDue
    <3>3. LossDelay' = 1 \/ LossDelay' = 2
      BY <3>1, <3>2
    <3> QED
      BY <3>3
  <2> QED
    BY <2>1, <2>2
<1>4. /\ exposed_age' \in Nat /\ repeat_wait' \in Nat /\ reset_age' \in Nat
      /\ stalls' \in Nat
  BY <1>1, Bounds DEF TypeOK
<1> QED
  BY <1>1, <1>2, <1>3, <1>4

(* The history of the gate, one step later. *)
LEMMA WatchExposure ==
  ASSUME TypeOK, TypeOK', NEW passed \in {0, 1}, Watch(passed)
  PROVE  /\ ~(motion_commands_enabled' /\ faulted') => exposed_age' = 0
         /\ exposed_age' \in Nat /\ exposed_age' <= exposed_age + passed
         /\ ~motion_commands_enabled' => lost_age' = Unset
         /\ motion_commands_enabled' =>
              (lost_age' = Unset <=> lost_age = Unset /\ ~link_error')
<1>1. exposed_age' = 0 \/ exposed_age' = Least(exposed_age + passed, ExposureBound + 1)
  BY DEF Watch
<1>2. exposed_age' <= exposed_age + passed
  <2>1. exposed_age \in Nat /\ ExposureBound \in Nat
    BY ExposureType, Bounds
  <2> QED
    BY <1>1, <2>1 DEF Least
<1>3. ASSUME motion_commands_enabled'
      PROVE  lost_age' = Unset <=> lost_age = Unset /\ ~link_error'
  <2>1. CASE lost_age = Unset
    <3>1. lost_age' = (IF link_error' THEN 0 ELSE Unset)
      BY <1>3, <2>1 DEF Watch
    <3> QED
      BY <2>1, <3>1 DEF Unset
  <2>2. CASE lost_age # Unset
    <3>1. lost_age' = Least(lost_age + passed, LossBound + 1)
      BY <1>3, <2>2 DEF Watch
    <3>2. lost_age \in Nat /\ LossBound \in Nat
      BY <2>2, StateFields, Bounds
    <3>3. lost_age' \in Nat
      BY <3>1, <3>2 DEF Least
    <3> QED
      BY <2>2, <3>3 DEF Unset
  <2> QED
    BY <2>1, <2>2
<1> QED
  BY <1>2, <1>3, ExposureTypeNext DEF Watch

(* A step that closes the gate ends the exposure. *)
LEMMA ClosedGate ==
  ASSUME TypeOK, TypeOK', Watch(0), ~motion_commands_enabled'
  PROVE  ExposureInv'
<1>1. exposed_age' = 0 /\ reset_age' \in Nat
  BY WatchExposure, ExposureTypeNext
<1> QED
  BY <1>1
  DEF ExposureInv, UnlatchedGate, LinkKept, RecentReset, NoExposure, Exposure

(* A step between ticks that leaves the gate open. *)
LEMMA OpenGate ==
  ASSUME TypeOK, TypeOK', ExposureInv, Watch(0),
         motion_commands_enabled', ~fault_latched', reset_age' = reset_age,
         lost_age = Unset /\ ~link_error' => SendSucceeds',
         faulted' /\ lost_age = Unset /\ ~link_error' => Awaited' \/ Reported',
         faulted' /\ (lost_age # Unset \/ link_error') =>
           exposed_age' <= ReportedBy + LossDelay' + stalls'
  PROVE  ExposureInv'
<1>1. /\ ~(motion_commands_enabled' /\ faulted') => exposed_age' = 0
      /\ exposed_age' \in Nat /\ exposed_age' <= exposed_age
      /\ lost_age' = Unset <=> lost_age = Unset /\ ~link_error'
  BY WatchExposure, ExposureType
<1>2. UnlatchedGate' /\ NoExposure'
  BY <1>1 DEF UnlatchedGate, NoExposure
<1>3. Unset' = Unset /\ FaultIgnoreWindow' = FaultIgnoreWindow
      /\ ReportedBy' = ReportedBy
  BY ExposureTypeNext DEF Unset
<1>4. LinkKept'
  BY <1>1, <1>3 DEF LinkKept
<1>5. RecentReset'
  <2>1. reset_age < FaultIgnoreWindow => exposed_age <= reset_age
    BY DEF ExposureInv, RecentReset
  <2> QED
    BY <1>1, <2>1, ExposureType DEF RecentReset
<1>6. Exposure'
  BY <1>1, <1>3 DEF Exposure
<1> QED
  BY <1>2, <1>4, <1>5, <1>6 DEF ExposureInv

LEMMA StillAwaited ==
  ASSUME TypeOK, TypeOK', Watch(0), Awaited, repeat_wait' = repeat_wait
  PROVE  Awaited'
<1> DEFINE e == exposed_age
           f == exposed_age'
           r == repeat_wait
<1>1. /\ e - r <= FaultIgnoreWindow - 1 /\ f <= e
      /\ e \in Nat /\ f \in Nat /\ r \in Nat /\ FaultIgnoreWindow \in Nat
  BY WatchExposure, ExposureType DEF Awaited
<1> HIDE DEF e, f, r
<1>2. f - r <= FaultIgnoreWindow - 1
  BY <1>1
<1> QED
  BY <1>2 DEF Awaited, e, f, r

LEMMA StillReported ==
  ASSUME TypeOK, TypeOK', Watch(0), Awaited \/ Reported,
         repeat_wait' = repeat_wait, queue' = queue
  PROVE  Awaited' \/ Reported'
<1>1. exposed_age' \in Nat /\ exposed_age' <= exposed_age /\ exposed_age \in Nat
  BY WatchExposure, ExposureType
<1>2. ReportedBy' = ReportedBy
  BY ExposureTypeNext
<1>3. CASE Awaited
  BY <1>3, StillAwaited
<1>4. CASE Reported
  <2>1. PICK i \in 1 .. Len(queue) :
          /\ IsFaultReport(queue[i].frame)
          /\ exposed_age - queue[i].age <= ReportedBy
    BY <1>4 DEF Reported
  <2> DEFINE e == exposed_age
             f == exposed_age'
             a == queue[i].age
  <2>2. /\ e - a <= ReportedBy /\ f <= e
        /\ e \in Nat /\ f \in Nat /\ a \in Nat /\ ReportedBy \in Nat
    BY <1>1, <2>1, BacklogType, ExposureType
  <2> HIDE DEF e, f, a
  <2>3. f - a <= ReportedBy
    BY <2>2
  <2> QED
    BY <1>2, <2>1, <2>3 DEF Reported, f, a
<1> QED
  BY <1>3, <1>4

(* A frame that is read and leaves the gate open is no fault report, or one *)
(* that came within the window after a reset.                               *)
LEMMA ReadReported ==
  ASSUME TypeOK, TypeOK', Watch(0), Awaited \/ Reported, RecentReset,
         queue # <<>>, queue' = Tail(queue), repeat_wait' = repeat_wait,
         IsFaultReport(Head(queue).frame) => reset_age < FaultIgnoreWindow
  PROVE  Awaited' \/ Reported'
<1>1. /\ Len(queue) \in Nat /\ Len(queue) > 0 /\ Len(queue') = Len(queue) - 1
      /\ Head(queue) = queue[1]
      /\ \A i \in 1 .. Len(queue) - 1 : queue'[i] = queue[i + 1]
  BY StateFields, QueueOps
<1>2. exposed_age' \in Nat /\ exposed_age' <= exposed_age /\ exposed_age \in Nat
  BY WatchExposure, ExposureType
<1>3. ReportedBy' = ReportedBy
  BY ExposureTypeNext
<1>4. CASE Awaited \/ IsFaultReport(Head(queue).frame)
  <2>1. Awaited
    <3>1. CASE IsFaultReport(Head(queue).frame)
      BY <3>1, ExposureType DEF RecentReset, Awaited
    <3> QED
      BY <1>4, <3>1
  <2> QED
    BY <2>1, StillAwaited
<1>5. CASE Reported /\ ~IsFaultReport(Head(queue).frame)
  <2>1. PICK i \in 1 .. Len(queue) :
          /\ IsFaultReport(queue[i].frame)
          /\ exposed_age - queue[i].age <= ReportedBy
    BY <1>5 DEF Reported
  <2>2. i # 1
    BY <1>1, <1>5, <2>1
  <2> DEFINE j == i - 1
  <2>3. j \in 1 .. Len(queue') /\ queue'[j] = queue[i]
    <3>1. j \in 1 .. Len(queue) - 1 /\ j + 1 = i
      BY <1>1, <2>2
    <3> QED
      BY <1>1, <3>1
  <2> HIDE DEF j
  <2> DEFINE e == exposed_age
             f == exposed_age'
             a == queue[i].age
  <2>4. /\ e - a <= ReportedBy /\ f <= e
        /\ e \in Nat /\ f \in Nat /\ a \in Nat /\ ReportedBy \in Nat
    BY <1>2, <2>1, BacklogType, ExposureType
  <2> HIDE DEF e, f, a
  <2>5. f - a <= ReportedBy
    BY <2>4
  <2>6. exposed_age' - queue'[j].age <= ReportedBy'
        /\ IsFaultReport(queue'[j].frame)
    BY <1>3, <2>1, <2>3, <2>5 DEF f, a
  <2> QED
    BY <2>3, <2>6 DEF Reported
<1> QED
  BY <1>4, <1>5

(* The bound of a lost link, in a step between ticks. *)
LEMMA LaterExposure ==
  ASSUME TypeOK, TypeOK', Watch(0), stalls' = stalls,
         exposed_age <= ReportedBy + LossDelay + stalls, LossDelay <= LossDelay'
  PROVE  exposed_age' <= ReportedBy + LossDelay' + stalls'
<1> DEFINE e == exposed_age
           f == exposed_age'
           d == LossDelay
           g == LossDelay'
           s == stalls
<1>1. /\ e \in Nat /\ f \in Nat /\ d \in Nat /\ g \in Nat /\ s \in Nat
      /\ ReportedBy \in Nat
      /\ f <= e /\ e <= ReportedBy + d + s /\ d <= g
  BY WatchExposure, ExposureType, ExposureTypeNext
<1> HIDE DEF e, f, d, g, s
<1>2. f <= ReportedBy + g + s
  BY <1>1
<1> QED
  BY <1>2 DEF f, g, s

(* The operator's events and the control timer. *)
LEMMA EventsExposure ==
  ASSUME TypeOK, TypeOK', LossInv, ExposureInv, Watch(0),
         EnableMotors \/ ResetFaults \/ ControlCallback
  PROVE  ExposureInv'
<1>1. CASE ~motion_commands_enabled'
  BY <1>1, ClosedGate
<1>2. CASE EnableMotors /\ motion_commands_enabled'
  <2>1. /\ SendSucceeds /\ SocketAfter(TRUE, queue) /\ ~fault_latched
        /\ UNCHANGED <<interface_up, faulted, repeat_wait, fault_latched,
                       reset_age>>
    BY <1>2 DEF EnableMotors, bus, latches
  <2>2. socket_open' /\ ~link_error' /\ queue' = queue /\ SendSucceeds'
    BY <2>1 DEF SocketAfter, SendSucceeds
  <2>3. lost_age = Unset
    BY <2>1, StateFields DEF LossInv, SendSucceeds
  <2>4. ASSUME faulted' PROVE Awaited' \/ Reported'
    <3>1. CASE motion_commands_enabled
      BY <2>1, <2>2, <2>3, <2>4, <3>1, StillReported DEF ExposureInv, Exposure
    <3>2. CASE ~motion_commands_enabled
      <4>1. exposed_age = 0
        BY <3>2 DEF ExposureInv, NoExposure
      <4>2. exposed_age' = 0
        BY <4>1, WatchExposure
      <4> DEFINE r == repeat_wait'
      <4>3. r \in Nat /\ FaultIgnoreWindow \in Nat /\ FaultIgnoreWindow >= 1
        BY ExposureType, ExposureTypeNext
      <4> HIDE DEF r
      <4>4. 0 - r <= FaultIgnoreWindow - 1
        BY <4>3
      <4> QED
        BY <4>2, <4>4 DEF Awaited, r
    <3> QED
      BY <3>1, <3>2
  <2> QED
    BY <1>2, <2>1, <2>2, <2>3, <2>4, OpenGate
<1>3. CASE ResetFaults
  BY <1>3, ClosedGate DEF ResetFaults
<1>4. CASE ControlCallback /\ motion_commands_enabled'
  <2>1. ~FeedbackTimedOut
    BY <1>4 DEF ControlCallback, LatchSafetyStop
  <2>2. PICK sends \in {FALSE, motion_commands_enabled} :
          SocketAfter(sends, queue)
    BY <1>4, <2>1 DEF ControlCallback
  <2>3. /\ motion_commands_enabled /\ budget = 0 /\ ~fault_latched'
        /\ UNCHANGED <<interface_up, faulted, repeat_wait, reset_age, budget,
                       poll_wait, stalls>>
    BY <1>4, <2>1
    DEF ControlCallback, Idle, ExposureInv, UnlatchedGate, bus, clocks
  <2>4. ASSUME lost_age = Unset
        PROVE  UNCHANGED <<socket_open, link_error, queue>> /\ SendSucceeds'
    <3>1. SendSucceeds
      BY <2>3, <2>4 DEF ExposureInv, LinkKept
    <3>2. UNCHANGED <<socket_open, link_error, queue>>
      BY <2>2, <3>1, StateFields DEF SocketAfter, SendSucceeds
    <3> QED
      BY <2>3, <3>1, <3>2 DEF SendSucceeds
  <2>5. ASSUME faulted', lost_age = Unset PROVE Awaited' \/ Reported'
    BY <2>3, <2>4, <2>5, StillReported DEF ExposureInv, Exposure
  <2>6. ASSUME lost_age # Unset, faulted'
        PROVE  exposed_age' <= ReportedBy + LossDelay' + stalls'
    <3>1. exposed_age <= ReportedBy + LossDelay + stalls
      BY <2>3, <2>6 DEF ExposureInv, Exposure
    <3>2. LossDelay <= LossDelay'
      <4>1. Due = PollDue /\ PollDue' = PollDue /\ Due' = Due
        BY <2>3 DEF Due, PollDue
      <4>2. LossDelay' = LossDelay \/ LossDelay' = 1 + LossDelay
        <5>1. socket_open' => socket_open
          BY <2>2 DEF SocketAfter, SendSucceeds
        <5> QED
          BY <4>1, <5>1 DEF LossDelay
      <4> QED
        BY <4>2, ExposureType
    <3> QED
      BY <2>3, <3>1, <3>2, LaterExposure
  <2>7. link_error' => lost_age # Unset
    BY <2>4 DEF SendSucceeds
  <2> QED
    BY <1>4, <2>3, <2>4, <2>5, <2>6, <2>7, OpenGate
<1> QED
  BY <1>1, <1>2, <1>3, <1>4

LEMMA PollExposure ==
  ASSUME TypeOK, TypeOK', LossInv, ExposureInv, Watch(0),
         PollFindsSocketClosed \/ PollReopens \/ PollQueries
  PROVE  ExposureInv'
<1>1. CASE PollFindsSocketClosed \/ PollReopens
  <2>1. ~motion_commands_enabled'
    BY <1>1 DEF PollFindsSocketClosed, PollReopens, LossInv
  <2> QED
    BY <2>1, ClosedGate
<1>2. CASE PollQueries /\ ~motion_commands_enabled'
  BY <1>2, ClosedGate
<1>3. CASE PollQueries /\ motion_commands_enabled'
  <2>1. /\ motion_commands_enabled /\ budget = 0 /\ ~fault_latched'
        /\ poll_wait > 0 /\ poll_wait' = 0 /\ socket_open
        /\ SocketAfter(TRUE, queue)
        /\ UNCHANGED <<interface_up, faulted, repeat_wait, reset_age, stalls>>
    BY <1>3
    DEF PollQueries, PollBegins, Idle, ExposureInv, UnlatchedGate, bus, latches
  <2>2. stalls' = stalls
    BY <2>1
  <2>3. ASSUME lost_age = Unset
        PROVE  /\ UNCHANGED <<socket_open, link_error, queue>> /\ SendSucceeds'
               /\ ~link_error'
    <3>1. SendSucceeds
      BY <2>1, <2>3 DEF ExposureInv, LinkKept
    <3>2. UNCHANGED <<socket_open, link_error, queue>>
      BY <2>1, <3>1, StateFields DEF SocketAfter, SendSucceeds
    <3> QED
      BY <2>1, <3>1, <3>2 DEF SendSucceeds
  <2>4. ASSUME faulted', lost_age = Unset PROVE Awaited' \/ Reported'
    BY <2>1, <2>3, <2>4, StillReported DEF ExposureInv, Exposure
  <2>5. ASSUME lost_age # Unset, faulted'
        PROVE  exposed_age' <= ReportedBy + LossDelay' + stalls'
    <3>1. exposed_age <= ReportedBy + LossDelay + stalls
      BY <2>1, <2>5 DEF ExposureInv, Exposure
    <3>2. ~socket_open'
      BY <2>1, <2>5 DEF LossInv, SocketAfter, SendSucceeds
    <3>3. LossDelay = 1 /\ LossDelay' = 1
      BY <2>1, <3>2 DEF LossDelay, Due, PollDue
    <3> QED
      BY <2>2, <3>1, <3>3, LaterExposure
  <2> QED
    BY <1>3, <2>1, <2>3, <2>4, <2>5, OpenGate
<1> QED
  BY <1>1, <1>2, <1>3

LEMMA ReadsExposure ==
  ASSUME TypeOK, TypeOK', LossInv, BacklogInv, ExposureInv, Watch(0),
         ReadEndsPoll \/ ReadLinkDown \/ ReadBusFault \/ ReadFeedback
           \/ ReadFault \/ ReadOther
  PROVE  ExposureInv'
<1>1. CASE ~motion_commands_enabled'
  BY <1>1, ClosedGate
<1>2. CASE motion_commands_enabled'
  <2>1. motion_commands_enabled /\ ~fault_latched
        /\ (ReadEndsPoll \/ ReadFeedback \/ ReadOther)
    <3>1. motion_commands_enabled
      BY <1>2
      DEF ReadEndsPoll, ReadLinkDown, ReadBusFault, ReadFeedback, ReadFault,
          ReadOther, LinkDown, LatchSafetyStop
    <3>2. ~fault_latched
      BY <3>1 DEF ExposureInv, UnlatchedGate
    <3>3. ~ReadLinkDown /\ ~ReadBusFault
      BY <1>2 DEF ReadLinkDown, LinkDown, ReadBusFault, LatchSafetyStop
    <3>4. ~ReadFault
      BY <1>2, <3>2 DEF ReadFault, IsNewReport, LatchSafetyStop
    <3> QED
      BY <3>1, <3>2, <3>3, <3>4
  <2>2. /\ UNCHANGED <<interface_up, faulted, repeat_wait, fault_latched,
                       reset_age, poll_wait, stalls>>
        /\ \E q : SocketAfter(FALSE, q)
    BY <2>1
    DEF ReadEndsPoll, ReadFeedback, ReadOther, bus, scheduler, latches, clocks
  <2>3. stalls' = stalls
    BY <2>2
  <2>4. UNCHANGED <<socket_open, link_error>>
    BY <2>2, StateFields DEF SocketAfter
  <2>5. ASSUME lost_age = Unset PROVE SendSucceeds /\ SendSucceeds'
    <3>1. SendSucceeds
      BY <2>1, <2>5 DEF ExposureInv, LinkKept
    <3> QED
      BY <2>2, <2>4, <3>1 DEF SendSucceeds
  <2>6. ASSUME faulted', lost_age = Unset PROVE Awaited' \/ Reported'
    <3>1. SendSucceeds /\ (Awaited \/ Reported) /\ RecentReset
      BY <2>1, <2>2, <2>5, <2>6 DEF ExposureInv, Exposure
    <3>2. CASE ReadEndsPoll
      (* The filters let no frame through that ends a poll. *)
      <4>1. queue = <<>>
        <5>1. CASE Reading /\ Read.format \in {"extended", "remote"}
          <6>1. queue # <<>>
            BY <5>1 DEF Reading
          <6>2. Head(queue) = queue[1] /\ 1 \in 1 .. Len(queue)
            BY <6>1, StateFields, QueueOps
          <6>3. queue[1].frame.format \in {"standard", "error"}
            BY <6>2 DEF BacklogInv
          <6> QED
            BY <5>1, <6>2, <6>3 DEF Read
        <5> QED
          BY <3>1, <3>2, <5>1 DEF ReadEndsPoll, EndsPoll, SendSucceeds
      <4>2. queue' = queue
        BY <3>2, <4>1 DEF ReadEndsPoll, SocketAfter, Reading
      <4> QED
        BY <2>2, <3>1, <4>2, StillReported
    <3>3. CASE ReadFeedback \/ ReadOther
      <4>1. Reading /\ IsData /\ SocketAfter(FALSE, Tail(queue))
        BY <3>3 DEF ReadFeedback, ReadOther
      <4>2. queue # <<>> /\ queue' = Tail(queue)
        <5>1. queue # <<>> /\ socket_open /\ socket_open' = socket_open
          BY <2>4, <4>1 DEF Reading
        <5>2. queue' = (IF socket_open' THEN Tail(queue) ELSE <<>>)
          BY <4>1 DEF SocketAfter
        <5> QED
          BY <5>1, <5>2
      <4>3. Decode(Read) = "mask" => reset_age < FaultIgnoreWindow
        BY <3>3 DEF ReadFeedback, ReadOther, FeedbackPayloads
      <4>4. IsFaultReport(Head(queue).frame) => reset_age < FaultIgnoreWindow
        BY <4>3 DEF IsFaultReport, Read
      <4> QED
        BY <2>2, <3>1, <4>2, <4>4, ReadReported
    <3> QED
      BY <2>1, <3>2, <3>3
  <2>7. ASSUME lost_age # Unset, faulted'
        PROVE  exposed_age' <= ReportedBy + LossDelay' + stalls'
    <3>1. exposed_age <= ReportedBy + LossDelay + stalls
      BY <2>1, <2>2, <2>7 DEF ExposureInv, Exposure
    <3>2. ~socket_open
      BY <2>1, <2>7
      DEF LossInv, ReadEndsPoll, EndsPoll, ReadFeedback, ReadOther, Reading
    <3>3. LossDelay' = LossDelay
      BY <2>2, <2>4, <3>2 DEF LossDelay, PollDue
    <3>4. LossDelay <= LossDelay'
      BY <3>3, ExposureType
    <3> QED
      BY <2>3, <3>1, <3>4, LaterExposure
  <2>8. link_error' => lost_age # Unset
    BY <2>4, <2>5 DEF SendSucceeds
  <2> QED
    BY <1>2, <2>1, <2>2, <2>5, <2>6, <2>7, <2>8, OpenGate
<1> QED
  BY <1>1, <1>2

(* A frame joins the buffer. *)
LEMMA EnqueueReported ==
  ASSUME TypeOK, TypeOK', Watch(0), NEW f \in Frames, Enqueue(f), Reported
  PROVE  Reported'
<1>1. PICK i \in 1 .. Len(queue) :
        /\ IsFaultReport(queue[i].frame)
        /\ exposed_age - queue[i].age <= ReportedBy
  BY DEF Reported
<1>2. [frame |-> f, age |-> 0] \in Received
  BY DEF Received
<1>3. i \in 1 .. Len(queue') /\ queue'[i] = queue[i]
  <2>1. CASE queue' = queue
    BY <1>1, <2>1
  <2>2. CASE queue' = Append(queue, [frame |-> f, age |-> 0])
    <3>1. /\ Len(queue') = Len(queue) + 1
          /\ \A j \in 1 .. Len(queue) : queue'[j] = queue[j]
      BY <1>2, <2>2, StateFields, AppendProperties
    <3>2. queue'[i] = queue[i]
      BY <1>1, <3>1
    <3>3. i \in 1 .. Len(queue')
      BY <1>1, <3>1, Counts
    <3> QED
      BY <3>2, <3>3
  <2> QED
    BY <2>1, <2>2 DEF Enqueue
<1> DEFINE e == exposed_age
           g == exposed_age'
           a == queue[i].age
<1>4. /\ e - a <= ReportedBy /\ g <= e
      /\ e \in Nat /\ g \in Nat /\ a \in Nat /\ ReportedBy \in Nat
  <2>1. e \in Nat /\ ReportedBy \in Nat
    BY ExposureType
  <2>2. g \in Nat /\ g <= e + 0
    BY WatchExposure
  <2>3. a \in Nat
    BY <1>1, BacklogType
  <2> QED
    BY <1>1, <2>1, <2>2, <2>3
<1> HIDE DEF e, g, a
<1>5. g - a <= ReportedBy
  BY <1>4
<1>6. exposed_age' - queue'[i].age <= ReportedBy'
      /\ IsFaultReport(queue'[i].frame)
  BY <1>1, <1>3, <1>5, ExposureTypeNext DEF g, a
<1> QED
  BY <1>3, <1>6 DEF Reported

LEMMA EnvironmentExposure ==
  ASSUME TypeOK, TypeOK', LossInv, BacklogInv, ExposureInv, Watch(0),
         Environment
  PROVE  ExposureInv'
<1>1. UNCHANGED <<motion_commands_enabled, fault_latched, reset_age, poll_wait,
                  budget, stalls, socket_open>>
  BY DEF Environment, FrameArrives, ControllerFaults, ControllerRecovers,
         ControllerRepeatsFault, InterfaceDown, InterfaceUp, scheduler,
         latches, clocks, socket
<1>2. CASE ~motion_commands_enabled'
  BY <1>2, ClosedGate
<1>3. CASE motion_commands_enabled'
  <2>1. motion_commands_enabled /\ ~fault_latched' /\ stalls' = stalls
    BY <1>1, <1>3 DEF ExposureInv, UnlatchedGate
  <2>2. LossDelay' = LossDelay
    BY <1>1 DEF LossDelay, Due, PollDue
  <2>3. LossDelay <= LossDelay'
    BY <2>2, ExposureType
  <2>4. lost_age = Unset => SendSucceeds
    BY <2>1 DEF ExposureInv, LinkKept
  <2>5. lost_age = Unset /\ ~link_error' => SendSucceeds'
    <3>1. link_error' \/ UNCHANGED interface_up \/ interface_up'
          \/ link_error' = socket_open
      BY DEF Environment, FrameArrives, ControllerFaults, ControllerRecovers,
             ControllerRepeatsFault, InterfaceDown, InterfaceUp
    <3> QED
      BY <1>1, <2>4, <3>1 DEF SendSucceeds
  <2>6. ASSUME faulted', lost_age # Unset
        PROVE  exposed_age' <= ReportedBy + LossDelay' + stalls'
    <3>1. CASE faulted
      <4>1. exposed_age <= ReportedBy + LossDelay + stalls
        BY <2>1, <2>6, <3>1 DEF ExposureInv, Exposure
      <4> QED
        BY <2>1, <2>3, <4>1, LaterExposure
    <3>2. CASE ~faulted
      <4>1. exposed_age = 0
        BY <3>2 DEF ExposureInv, NoExposure
      <4>2. exposed_age <= ReportedBy + LossDelay + stalls
        BY <4>1, ExposureType
      <4> QED
        BY <2>1, <2>3, <4>2, LaterExposure
    <3> QED
      BY <3>1, <3>2
  <2>7. CASE \E f \in Traffic : FrameArrives(f)
    <3>1. PICK f \in Traffic : FrameArrives(f)
      BY <2>7
    <3>2. /\ f \in Frames /\ Enqueue(f)
          /\ UNCHANGED <<faulted, repeat_wait, link_error>>
      BY <3>1, ReceiveAssumption DEF FrameArrives
    <3>3. ASSUME faulted', lost_age = Unset PROVE Awaited' \/ Reported'
      <4>1. Awaited \/ Reported
        BY <2>1, <3>2, <3>3 DEF ExposureInv, Exposure
      <4>2. Awaited => Awaited'
        BY <3>2, StillAwaited
      <4>3. Reported => Reported'
        BY <3>2, EnqueueReported
      <4> QED
        BY <4>1, <4>2, <4>3
    <3>4. link_error' => lost_age # Unset
      BY <2>4, <3>2 DEF SendSucceeds
    <3> QED
      BY <1>1, <1>3, <2>1, <2>5, <2>6, <3>3, <3>4, OpenGate
  <2>8. CASE ControllerFaults
    <3>1. /\ ~faulted /\ repeat_wait' = 0 /\ link_error' = link_error
      BY <2>8 DEF ControllerFaults, socket
    <3>2. exposed_age' = 0
      BY <3>1, WatchExposure DEF ExposureInv, NoExposure
    <3>3. Awaited'
      <4>1. 0 - 0 <= FaultIgnoreWindow - 1
        BY ExposureType
      <4> QED
        BY <3>1, <3>2, <4>1 DEF Awaited
    <3>4. link_error' => lost_age # Unset
      BY <2>4, <3>1 DEF SendSucceeds
    <3> QED
      BY <1>1, <1>3, <2>1, <2>5, <2>6, <3>3, <3>4, OpenGate
  <2>9. CASE ControllerRecovers
    <3>1. ~faulted' /\ link_error' = link_error
      BY <2>9 DEF ControllerRecovers, socket
    <3>2. link_error' => lost_age # Unset
      BY <2>4, <3>1 DEF SendSucceeds
    <3> QED
      BY <1>1, <1>3, <2>1, <2>5, <2>6, <3>1, <3>2, OpenGate
  <2>10. CASE ControllerRepeatsFault
    <3>1. /\ faulted /\ repeat_wait > 0 /\ repeat_wait' = 0
          /\ link_error' = link_error
          /\ interface_up => Enqueue(FaultReport)
      BY <2>10 DEF ControllerRepeatsFault
    <3>2. ASSUME faulted', lost_age = Unset PROVE Awaited' \/ Reported'
      <4>1. Awaited \/ Reported
        BY <2>1, <3>1, <3>2 DEF ExposureInv, Exposure
      <4>2. Enqueue(FaultReport) /\ socket_open
        BY <2>4, <3>1, <3>2 DEF SendSucceeds
      <4>3. CASE Reported
        BY <4>2, <4>3, FaultReportType, EnqueueReported
      <4>4. CASE Awaited
        (* The report that was awaited. *)
        <5>1. exposed_age <= ReportedBy
          BY <4>4, ExposureType DEF Awaited
        <5>2. exposed_age' <= ReportedBy' /\ exposed_age' \in Nat
          BY <5>1, WatchExposure, ExposureType, ExposureTypeNext
        <5>3. queue' = Append(queue, [frame |-> FaultReport, age |-> 0])
          BY <3>1, <4>2, ReportFits
          DEF Enqueue, Passes, FaultReport, ReportIds
        <5>4. [frame |-> FaultReport, age |-> 0] \in Received
          BY FaultReportType DEF Received
        <5>5. /\ Len(queue') = Len(queue) + 1
              /\ queue'[Len(queue) + 1] = [frame |-> FaultReport, age |-> 0]
          BY <5>3, <5>4, StateFields, AppendProperties
        <5>6. IsFaultReport(FaultReport)
          BY DEF IsFaultReport, FaultReport, Decode, ReportIds
        <5>7. Len(queue') \in 1 .. Len(queue')
              /\ queue'[Len(queue')] = [frame |-> FaultReport, age |-> 0]
          BY <5>5, BacklogType
        <5>8. /\ IsFaultReport(queue'[Len(queue')].frame)
              /\ exposed_age' - queue'[Len(queue')].age <= ReportedBy'
          BY <5>2, <5>6, <5>7
        <5> QED
          BY <5>7, <5>8 DEF Reported
      <4> QED
        BY <4>1, <4>3, <4>4
    <3>3. link_error' => lost_age # Unset
      BY <2>4, <3>1 DEF SendSucceeds
    <3> QED
      BY <1>1, <1>3, <2>1, <2>5, <2>6, <3>2, <3>3, OpenGate
  <2>11. CASE InterfaceDown
    (* Whatever report was on its way, the loss is noticed as fast. *)
    <3>1. link_error' = socket_open /\ faulted' = faulted
      BY <2>11 DEF InterfaceDown
    <3>2. ASSUME faulted', lost_age = Unset
          PROVE  link_error' /\ exposed_age' <= ReportedBy + LossDelay' + stalls'
      <4>1. link_error' /\ LossDelay = Due
        BY <2>4, <3>1, <3>2 DEF SendSucceeds, LossDelay
      <4>2. exposed_age <= ReportedBy + Backlog
        BY <2>1, <3>1, <3>2, ExposedWithLink DEF ExposureInv, Exposure
      <4>3. ReportedBy + Backlog = ReportedBy + LossDelay + stalls
        <5>1. ReportedBy \in Nat /\ Due \in {0, 1}
          BY ExposureType, BacklogType
        <5> QED
          BY <4>1, <5>1, Counts
      <4> QED
        BY <2>1, <2>3, <4>1, <4>2, <4>3, LaterExposure
    <3> QED
      BY <1>1, <1>3, <2>1, <2>5, <2>6, <3>2, OpenGate
  <2>12. CASE InterfaceUp
    <3>1. lost_age # Unset
      BY <2>4, <2>12 DEF InterfaceUp, SendSucceeds
    <3> QED
      BY <1>1, <1>3, <2>1, <2>5, <2>6, <3>1, OpenGate
  <2> QED
    BY <2>7, <2>8, <2>9, <2>10, <2>11, <2>12 DEF Environment
<1> QED
  BY <1>2, <1>3

LEMMA TickExposure ==
  ASSUME TypeOK, TypeOK', LossInv, BacklogInv, ExposureInv, Tick, Watch(1)
  PROVE  ExposureInv'
<1>1. /\ UNCHANGED <<interface_up, faulted, socket_open, link_error, budget,
                     motion_commands_enabled, fault_latched>>
      /\ budget = 0 /\ poll_wait' = poll_wait + 1
      /\ reset_age' = Older(reset_age, FaultIgnoreWindow)
      /\ repeat_wait' = (IF faulted THEN repeat_wait + 1 ELSE 0)
      /\ stalls' = (IF Late THEN stalls + 1 ELSE stalls)
  BY DEF Tick, Idle, latches
<1>2. /\ ~(motion_commands_enabled' /\ faulted') => exposed_age' = 0
      /\ exposed_age' \in Nat /\ exposed_age' <= exposed_age + 1
      /\ ~motion_commands_enabled' => lost_age' = Unset
      /\ motion_commands_enabled' =>
           (lost_age' = Unset <=> lost_age = Unset /\ ~link_error')
  BY WatchExposure
<1>3. UnlatchedGate' /\ NoExposure'
  BY <1>1, <1>2 DEF ExposureInv, UnlatchedGate, NoExposure
<1>4. LinkKept'
  BY <1>1, <1>2 DEF ExposureInv, LinkKept, SendSucceeds, Unset
<1>5. RecentReset'
  <2>1. reset_age < FaultIgnoreWindow => exposed_age <= reset_age
    BY DEF ExposureInv, RecentReset
  <2>2. ASSUME reset_age' < FaultIgnoreWindow
        PROVE  reset_age < FaultIgnoreWindow /\ reset_age' = reset_age + 1
    BY <1>1, <2>2, ExposureType DEF Older
  <2>3. ASSUME reset_age' < FaultIgnoreWindow
        PROVE  exposed_age' <= reset_age'
    <3> DEFINE f == exposed_age'
    <3>1. f \in Nat /\ f <= exposed_age + 1 /\ exposed_age <= reset_age
      BY <1>2, <2>1, <2>2, <2>3
    <3> HIDE DEF f
    <3>2. f <= reset_age + 1
      BY <3>1, ExposureType
    <3> QED
      BY <2>2, <2>3, <3>2 DEF f
  <2>4. FaultIgnoreWindow' = FaultIgnoreWindow
    OBVIOUS
  <2> QED
    BY <2>3, <2>4 DEF RecentReset
<1>6. Exposure'
  <2> SUFFICES ASSUME motion_commands_enabled', faulted'
               PROVE  /\ lost_age' = Unset' => Awaited' \/ Reported'
                      /\ lost_age' # Unset' =>
                           exposed_age' <= ReportedBy' + LossDelay' + stalls'
    BY DEF Exposure
  <2>1. /\ motion_commands_enabled /\ faulted /\ Unset' = Unset
        /\ repeat_wait' = repeat_wait + 1
        /\ lost_age = Unset => Awaited \/ Reported
        /\ lost_age # Unset => exposed_age <= ReportedBy + LossDelay + stalls
    BY <1>1 DEF ExposureInv, Exposure, Unset
  <2>2. lost_age = Unset => ~link_error'
    BY <1>1, <2>1 DEF ExposureInv, LinkKept, SendSucceeds
  <2>3. ASSUME Awaited PROVE Awaited'
    <3> DEFINE e == exposed_age
               f == exposed_age'
               r == repeat_wait
    <3>1. /\ e - r <= FaultIgnoreWindow - 1 /\ f <= e + 1
          /\ e \in Nat /\ f \in Nat /\ r \in Nat /\ FaultIgnoreWindow \in Nat
      BY <1>2, <2>3, ExposureType DEF Awaited
    <3> HIDE DEF e, f, r
    <3>2. f - (r + 1) <= FaultIgnoreWindow - 1
      BY <3>1
    <3> QED
      BY <2>1, <3>2 DEF Awaited, f, r
  <2>4. ASSUME Reported PROVE Reported'
    <3>1. PICK i \in 1 .. Len(queue) :
            /\ IsFaultReport(queue[i].frame)
            /\ exposed_age - queue[i].age <= ReportedBy
      BY <2>4 DEF Reported
    <3>2. /\ i \in 1 .. Len(queue') /\ queue'[i].age = queue[i].age + 1
          /\ queue'[i].frame = queue[i].frame
      BY AgedQueue, TypeParts
    <3> DEFINE e == exposed_age
               f == exposed_age'
               a == queue[i].age
    <3>3. /\ e - a <= ReportedBy /\ f <= e + 1
          /\ e \in Nat /\ f \in Nat /\ a \in Nat /\ ReportedBy \in Nat
      <4>1. e \in Nat /\ ReportedBy \in Nat
        BY ExposureType
      <4>2. a \in Nat
        BY <3>1, BacklogType
      <4> QED
        BY <1>2, <3>1, <4>1, <4>2
    <3> HIDE DEF e, f, a
    <3>4. f - (a + 1) <= ReportedBy
      BY <3>3
    <3>5. exposed_age' - queue'[i].age <= ReportedBy'
          /\ IsFaultReport(queue'[i].frame)
      BY <3>1, <3>2, <3>4, ExposureTypeNext DEF f, a
    <3> QED
      BY <3>2, <3>5 DEF Reported
  <2>5. ASSUME lost_age # Unset
        PROVE  exposed_age' <= ReportedBy' + LossDelay' + stalls'
    <3>1. poll_wait \in Nat /\ stalls \in Nat /\ poll_wait' > 0
      BY <1>1, StateFields
    <3>2. PollDue' = 1 /\ Due' = 1 /\ Due = PollDue
      BY <1>1, <3>1 DEF PollDue, Due
    <3>3. /\ LossDelay = (IF socket_open THEN PollDue ELSE 1 + PollDue)
          /\ LossDelay' = (IF socket_open THEN 1 ELSE 2)
      BY <1>1, <3>2 DEF LossDelay
    <3>4. stalls' = stalls \/ stalls' = stalls + 1
      BY <1>1
    <3>5. PollDue = 1 => stalls' = stalls + 1
      BY <1>1 DEF PollDue, Late
    <3> DEFINE e == exposed_age
               f == exposed_age'
               d == LossDelay
               g == LossDelay'
               s == stalls
               t == stalls'
    <3>6. /\ e \in Nat /\ f \in Nat /\ d \in Nat /\ s \in Nat
          /\ ReportedBy \in Nat /\ f <= e + 1 /\ e <= ReportedBy + d + s
      BY <1>2, <2>1, <2>5, ExposureType
    <3>7. d + 1 = g \/ (d = g /\ t = s + 1)
      BY <3>2, <3>3, <3>5, ExposureType
    <3>8. g \in Nat /\ t \in Nat /\ (t = s \/ t = s + 1)
      BY <3>3, <3>4, ExposureTypeNext
    <3> HIDE DEF e, f, d, g, s, t
    <3>9. f <= ReportedBy + g + t
      BY <3>6, <3>7, <3>8
    <3> QED
      BY <3>9, ExposureTypeNext DEF f, g, t
  <2> QED
    BY <1>2, <2>1, <2>2, <2>3, <2>4, <2>5
<1> QED
  BY <1>3, <1>4, <1>5, <1>6 DEF ExposureInv

LEMMA StepExposure ==
  TypeOK /\ TypeOK' /\ LossInv /\ BacklogInv /\ ExposureInv /\ [Next]_vars
    => ExposureInv'
<1> SUFFICES ASSUME TypeOK, TypeOK', LossInv, BacklogInv, ExposureInv,
                    [Next]_vars
             PROVE  ExposureInv'
  OBVIOUS
<1>1. CASE UNCHANGED vars
  BY <1>1
  DEF ExposureInv, UnlatchedGate, LinkKept, RecentReset, NoExposure, Exposure,
      Awaited, Reported, ReportedBy, LossDelay, PollDue, Due, SendSucceeds,
      Unset, vars, bus, socket, scheduler, latches, clocks, watched
<1> QED
  BY <1>1, EventsExposure, PollExposure, ReadsExposure, EnvironmentExposure,
     TickExposure
  DEF Next, Callback

(* A fault that the controller goes on reporting closes the gate within a   *)
(* bounded time: the reports that the window after a reset hides, a buffer  *)
(* behind late polls, and a link that is lost just before the report is     *)
(* sent do not add up to more.                                              *)
THEOREM FaultIsNoticed == Spec => []FaultIsNoticedInTime
<1>1. TypeOK /\ BacklogInv /\ ExposureInv => FaultIsNoticedInTime
  BY ExposureLimit DEF FaultIsNoticedInTime
<1> QED
  BY <1>1, TypeCorrect, InitLoss, StepLoss, InitBacklog, StepBacklog,
     InitExposure, StepExposure, PTL DEF Spec
=============================================================================
