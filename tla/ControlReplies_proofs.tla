------------------------ MODULE ControlReplies_proofs ------------------------
(***************************************************************************)
(* Proofs about ControlReplies, for every value of its constants.          *)
(***************************************************************************)
EXTENDS ControlReplies, SequenceTheorems, FiniteSetTheorems, TLAPS

(* What holds of the tracker whatever calls are made on it: the two         *)
(* invariants, and that nothing is ever uncertain before it is enabled.     *)
TrackerInv(t) ==
  /\ t \in Tracker
  /\ t.uncertain => t.state \notin {"idle", "pending", "acknowledged"}
  /\ t.state = "pending" => t.remaining > 0
  /\ t.state = "acknowledged" => t.remaining = 0
  /\ ~t.enabled => ~t.uncertain /\ t.state = "unavailable"

(* Only the handshake enables the tracker, and once for each node.          *)
HandshakeInv == tracker.enabled <=> ack_handshake_state = "enabled"

-----------------------------------------------------------------------------
(* The calls on the tracker preserve its invariant. *)

LEMMA DisabledInv == TrackerInv(DisabledTracker)
<1>1. 0 \in 0 .. ReplyTimeout /\ 0 \in 0 .. MaxExpected
  BY TrackerAssumption DEF MaxExpected
<1>2. DisabledTracker \in Tracker
  BY <1>1 DEF DisabledTracker, Tracker, ReplyStates
<1> QED
  BY <1>2 DEF TrackerInv, DisabledTracker

LEMMA SetEnabledInv ==
  ASSUME NEW t, TrackerInv(t)
  PROVE  /\ TrackerInv(SetEnabled(t, TRUE))
         /\ SetEnabled(t, TRUE).enabled /\ ~SetEnabled(t, TRUE).uncertain
<1> DEFINE s == SetEnabled(t, TRUE)
<1>1. s = [t EXCEPT !.enabled = TRUE, !.uncertain = FALSE, !.remaining = 0,
                    !.state = "idle"]
  BY DEF SetEnabled
<1> HIDE DEF s
<1>2. 0 \in 0 .. MaxExpected
  BY DEF MaxExpected
<1>3. s \in Tracker /\ s.enabled /\ ~s.uncertain /\ s.state = "idle"
  BY <1>1, <1>2 DEF TrackerInv, Tracker, ReplyStates
<1>4. TrackerInv(s) /\ s.enabled /\ ~s.uncertain
  BY <1>3 DEF TrackerInv
<1> QED
  BY <1>4 DEF s

LEMMA ExpireInv ==
  ASSUME NEW t, TrackerInv(t)
  PROVE  /\ TrackerInv(Expire(t))
         /\ Expire(t).enabled = t.enabled
         /\ t.uncertain => Expire(t).uncertain
BY DEF TrackerInv, Expire, Tracker, ReplyStates, MaxExpected

LEMMA BeginInv ==
  ASSUME NEW t, TrackerInv(t), NEW n \in 1 .. MaxExpected
  PROVE  /\ TrackerInv(Begin(t, n))
         /\ Begin(t, n).enabled = t.enabled
         /\ t.uncertain => Begin(t, n).uncertain
<1> DEFINE e == Expire(t)
           uncertain == e.uncertain \/ e.state = "pending"
<1>1. TrackerInv(e) /\ e.enabled = t.enabled /\ (t.uncertain => e.uncertain)
  BY ExpireInv
<1>2. 0 \in 0 .. ReplyTimeout /\ n \in 0 .. MaxExpected /\ n > 0
  BY TrackerAssumption DEF MaxExpected
<1>3. CASE ~t.enabled
  BY <1>3 DEF Begin, TrackerInv
<1>4. CASE t.enabled
  <2>1. uncertain \in BOOLEAN
    BY <1>1 DEF TrackerInv, Tracker
  <2>2. Begin(t, n) = [e EXCEPT !.uncertain = uncertain, !.remaining = n,
           !.age = 0, !.state = IF uncertain THEN "ambiguous" ELSE "pending"]
    BY <1>4 DEF Begin
  <2> HIDE DEF e
  <2> QED
    BY <1>1, <1>2, <1>4, <2>1, <2>2 DEF TrackerInv, Tracker, ReplyStates
<1> QED
  BY <1>3, <1>4

LEMMA ObserveInv ==
  ASSUME NEW t, TrackerInv(t), NEW object, NEW aborted \in BOOLEAN
  PROVE  /\ TrackerInv(Observe(t, object, aborted))
         /\ Observe(t, object, aborted).enabled = t.enabled
         /\ t.uncertain => Observe(t, object, aborted).uncertain
<1> DEFINE e == Expire(t)
           o == Observe(t, object, aborted)
<1> SUFFICES TrackerInv(o) /\ o.enabled = t.enabled
             /\ (t.uncertain => o.uncertain)
  OBVIOUS
<1>1. TrackerInv(e) /\ e.enabled = t.enabled /\ (t.uncertain => e.uncertain)
  BY ExpireInv
<1>2. CASE ~Counts(t, object)
  BY <1>1, <1>2 DEF Observe
<1>3. CASE Counts(t, object)
  <2>1. e.state = "pending" /\ ~e.uncertain /\ e.remaining \in 1 .. MaxExpected
    BY <1>1, <1>3 DEF Counts, TrackerInv, Tracker, MaxExpected
  <2> ~t.uncertain /\ e.enabled
    BY <1>1, <2>1 DEF TrackerInv
  <2>2. e.remaining - 1 \in 0 .. MaxExpected /\ (e.remaining > 1) \in BOOLEAN
    BY <2>1 DEF MaxExpected
  <2>3. e.remaining # 1 => e.remaining - 1 > 0
    BY <2>1 DEF MaxExpected
  <2>4. CASE aborted
    <3>1. o = [e EXCEPT !.state = "rejected", !.uncertain = e.remaining > 1]
      BY <1>3, <2>4 DEF Observe
    <3> HIDE DEF e, o
    <3>2. /\ o \in Tracker /\ o.enabled = e.enabled /\ o.state = "rejected"
      BY <1>1, <2>1, <2>2, <3>1 DEF TrackerInv, Tracker, ReplyStates
    <3> QED
      BY <1>1, <2>1, <3>2 DEF TrackerInv
  <2>5. CASE ~aborted
    <3>1. o = [e EXCEPT !.remaining = @ - 1,
                 !.state = IF e.remaining = 1 THEN "acknowledged"
                                              ELSE "pending"]
      BY <1>3, <2>5 DEF Observe
    <3> HIDE DEF e, o
    <3>2. o \in Tracker /\ o.enabled = e.enabled /\ o.uncertain = e.uncertain
      BY <1>1, <2>2, <3>1 DEF TrackerInv, Tracker, ReplyStates
    <3>3. /\ o.remaining = e.remaining - 1
          /\ o.state = IF e.remaining = 1 THEN "acknowledged" ELSE "pending"
      BY <1>1, <3>1 DEF TrackerInv, Tracker
    <3> QED
      BY <1>1, <2>1, <2>3, <3>2, <3>3 DEF TrackerInv
  <2> QED
    BY <2>4, <2>5
<1> QED
  BY <1>2, <1>3

LEMMA TransmissionFailedInv ==
  ASSUME NEW t, TrackerInv(t)
  PROVE  /\ TrackerInv(TransmissionFailed(t))
         /\ TransmissionFailed(t).enabled = t.enabled
         /\ t.uncertain => TransmissionFailed(t).uncertain
BY DEF TrackerInv, TransmissionFailed, Tracker, ReplyStates, MaxExpected

LEMMA InterruptInv ==
  ASSUME NEW t, TrackerInv(t)
  PROVE  /\ TrackerInv(Interrupt(t))
         /\ Interrupt(t).enabled = t.enabled
         /\ t.uncertain => Interrupt(t).uncertain
BY DEF TrackerInv, Interrupt, Tracker, ReplyStates, MaxExpected

LEMMA AgedInv ==
  ASSUME NEW t, TrackerInv(t)
  PROVE  /\ TrackerInv(Aged(t))
         /\ Aged(t).enabled = t.enabled
         /\ t.uncertain => Aged(t).uncertain
BY TrackerAssumption
DEF TrackerInv, Aged, Tracker, ReplyStates, MaxExpected

-----------------------------------------------------------------------------
(* The frames in flight, and how many of them are control frames. *)

Controls(channel) == {i \in DOMAIN channel : channel[i].object = "control"}
Count(channel) == Cardinality(Controls(channel))

AllCurrent(channel) ==
  \A i \in DOMAIN channel : channel[i].object = "control" => channel[i].current

(* While the tracker can assign replies, the control frames in flight are   *)
(* those of the last command, and no more than the replies it awaits.       *)
Awaited(t) == IF t.state = "pending" THEN t.remaining ELSE 0

OwnReplies ==
  /\ ~miscounted
  /\ Count(writes) + Count(replies) <= Awaited(tracker)
  /\ AllCurrent(writes) /\ AllCurrent(replies)

CountInv ==
  /\ ~tracker.enabled => ~miscounted
  /\ tracker.enabled /\ clean_start /\ ~tracker.uncertain => OwnReplies

Inv == TypeOK /\ TrackerInv(tracker) /\ HandshakeInv

IInv == Inv /\ CountInv

-----------------------------------------------------------------------------
(* Channels, as sequences of frames of a kind S. *)

LEMMA ShiftedSet ==
  ASSUME NEW A \in SUBSET Int, NEW B \in SUBSET Int, NEW k \in Int,
         IsFiniteSet(A), \A i \in Int : i \in B <=> i + k \in A
  PROVE  IsFiniteSet(B) /\ Cardinality(B) = Cardinality(A)
<1> DEFINE f == [j \in A |-> j - k]
<1>1. f \in [A -> B]
  <2>1. \A j \in A : j - k \in Int /\ (j - k) + k = j
    OBVIOUS
  <2> QED
    BY <2>1
<1>2. \A a, b \in A : f[a] = f[b] => a = b
  OBVIOUS
<1>3. \A b \in B : \E a \in A : f[a] = b
  <2> TAKE b \in B
  <2>1. b + k \in A /\ (b + k) - k = b
    OBVIOUS
  <2> QED
    BY <2>1
<1>4. f \in Bijection(A, B)
  BY <1>1, <1>2, <1>3 DEF Bijection, Injection, Surjection, IsInjective
<1>5. ExistsBijection(A, B)
  BY <1>4 DEF ExistsBijection
<1> QED
  BY <1>5, FS_Bijection

LEMMA CountType ==
  ASSUME NEW S, NEW s \in Seq(S)
  PROVE  /\ Controls(s) \in SUBSET Int /\ IsFiniteSet(Controls(s))
         /\ Count(s) \in Nat
         /\ Count(s) = 0 <=> Controls(s) = {}
<1>1. DOMAIN s = 1 .. Len(s) /\ Len(s) \in Nat
  BY LenProperties
<1>2. IsFiniteSet(1 .. Len(s))
  BY <1>1, FS_Interval
<1>3. Controls(s) \in SUBSET (1 .. Len(s))
  BY <1>1 DEF Controls
<1>4. IsFiniteSet(Controls(s))
  BY <1>2, <1>3, FS_Subset
<1> QED
  BY <1>1, <1>3, <1>4, FS_CardinalityType, FS_EmptySet DEF Count

LEMMA CountOfEmpty == Count(<<>>) = 0 /\ AllCurrent(<<>>)
BY FS_EmptySet DEF Count, Controls, AllCurrent

LEMMA CountOfTail ==
  ASSUME NEW S, NEW s \in Seq(S), s # <<>>
  PROVE  /\ Count(Tail(s)) = IF Head(s).object = "control" THEN Count(s) - 1
                                                           ELSE Count(s)
         /\ Count(Tail(s)) <= Count(s)
         /\ AllCurrent(s) => AllCurrent(Tail(s))
         /\ AllCurrent(s) /\ Head(s).object = "control" => Head(s).current
<1> DEFINE A == Controls(s) \ {1}
           B == Controls(Tail(s))
<1>1. /\ Tail(s) \in Seq(S) /\ Len(Tail(s)) = Len(s) - 1
      /\ \A i \in 1 .. Len(Tail(s)) : Tail(s)[i] = s[i + 1]
      /\ Len(s) \in Nat \ {0} /\ DOMAIN s = 1 .. Len(s)
      /\ DOMAIN Tail(s) = 1 .. Len(Tail(s))
  BY HeadTailProperties, EmptySeq, LenProperties
<1>2. Head(s) = s[1]
  OBVIOUS
<1>3. /\ IsFiniteSet(Controls(s)) /\ Controls(s) \in SUBSET Int
      /\ B \in SUBSET Int /\ Count(s) \in Nat
  BY <1>1, CountType
<1>4. IsFiniteSet(A) /\ Cardinality(A) = IF 1 \in Controls(s)
                                         THEN Count(s) - 1 ELSE Count(s)
  BY <1>3, FS_RemoveElement DEF Count
<1>5. \A i \in Int : i \in B <=> i + 1 \in A
  BY <1>1 DEF Controls
<1>6. Count(Tail(s)) = Cardinality(A)
  <2>1. A \in SUBSET Int /\ 1 \in Int
    BY <1>3
  <2>2. Count(Tail(s)) = Cardinality(B)
    BY DEF Count
  <2> HIDE DEF A, B
  <2> QED
    BY <1>3, <1>4, <1>5, <2>1, <2>2, ShiftedSet
<1>7. 1 \in Controls(s) <=> Head(s).object = "control"
  BY <1>1, <1>2 DEF Controls
<1>8. /\ AllCurrent(s) => AllCurrent(Tail(s))
      /\ AllCurrent(s) /\ Head(s).object = "control" => Head(s).current
  BY <1>1, <1>2 DEF AllCurrent
<1> QED
  BY <1>3, <1>4, <1>6, <1>7, <1>8

LEMMA CountOfAppend ==
  ASSUME NEW S, NEW s \in Seq(S), NEW e \in S
  PROVE  /\ Append(s, e) \in Seq(S) /\ Len(Append(s, e)) = Len(s) + 1
         /\ Count(Append(s, e)) = IF e.object = "control" THEN Count(s) + 1
                                                           ELSE Count(s)
         /\ AllCurrent(s) /\ (e.object = "control" => e.current)
            => AllCurrent(Append(s, e))
<1> DEFINE a == Append(s, e)
<1>1. /\ Len(s) \in Nat /\ DOMAIN s = 1 .. Len(s)
      /\ a \in Seq(S) /\ Len(a) = Len(s) + 1 /\ DOMAIN a = 1 .. Len(s) + 1
      /\ \A i \in 1 .. Len(s) : a[i] = s[i]
      /\ a[Len(s) + 1] = e
  BY LenProperties, AppendProperties
<1>2. IsFiniteSet(Controls(s)) /\ Len(s) + 1 \notin Controls(s)
  BY <1>1, CountType DEF Controls
<1> HIDE DEF a
<1>3. CASE e.object = "control"
  <2>1. Controls(a) = Controls(s) \cup {Len(s) + 1}
    BY <1>1, <1>3 DEF Controls
  <2>2. Count(a) = Count(s) + 1
    BY <1>2, <2>1, FS_AddElement DEF Count
  <2>3. AllCurrent(s) /\ e.current => AllCurrent(a)
    BY <1>1 DEF AllCurrent
  <2> QED
    BY <1>1, <1>3, <2>2, <2>3 DEF a
<1>4. CASE e.object # "control"
  <2>1. Controls(a) = Controls(s)
    BY <1>1, <1>4 DEF Controls
  <2>2. AllCurrent(s) => AllCurrent(a)
    BY <1>1, <1>4 DEF AllCurrent
  <2> QED
    BY <1>1, <1>4, <2>1, <2>2 DEF a, Count
<1> QED
  BY <1>3, <1>4

(* Only frames that follow no control frame are counted after it. *)
LEMMA CountOfConcat ==
  ASSUME NEW S, NEW s \in Seq(S), NEW t \in Seq(S), Count(s) = 0
  PROVE  /\ Count(s \o t) = Count(t)
         /\ AllCurrent(t) => AllCurrent(s \o t)
<1>1. /\ Len(s) \in Nat /\ DOMAIN s = 1 .. Len(s)
      /\ Len(t) \in Nat /\ DOMAIN t = 1 .. Len(t)
      /\ s \o t \in Seq(S) /\ Len(s \o t) = Len(s) + Len(t)
      /\ \A i \in 1 .. Len(s) + Len(t) :
           (s \o t)[i] = IF i <= Len(s) THEN s[i] ELSE t[i - Len(s)]
      /\ DOMAIN (s \o t) = 1 .. Len(s) + Len(t)
  BY LenProperties, ConcatProperties
<1>2. \A i \in 1 .. Len(s) : s[i].object # "control"
  <2>1. Controls(s) = {}
    BY CountType
  <2> QED
    BY <1>1, <2>1 DEF Controls
<1>3. /\ Controls(s \o t) \in SUBSET Int
      /\ Controls(t) \in SUBSET Int /\ IsFiniteSet(Controls(t))
  BY <1>1, CountType
<1> DEFINE c == s \o t
<1> HIDE DEF c
<1>4. \A i \in Int : i \in Controls(c) <=> i + (-Len(s)) \in Controls(t)
  <2> TAKE i \in Int
  <2>1. i + (-Len(s)) = i - Len(s)
    BY <1>1
  <2>2. CASE i \in 1 .. Len(s)
    BY <1>1, <1>2, <2>1, <2>2 DEF Controls, c
  <2>3. CASE i \notin 1 .. Len(s)
    BY <1>1, <2>1, <2>3 DEF Controls, c
  <2> QED
    BY <2>2, <2>3
<1>5. Count(c) = Count(t)
  <2>1. -Len(s) \in Int
    BY <1>1
  <2> QED
    BY <1>3, <1>4, <2>1, ShiftedSet DEF Count, c
<1>6. ASSUME AllCurrent(t), NEW i \in 1 .. Len(s) + Len(t),
             c[i].object = "control"
      PROVE  c[i].current
  <2>1. i \notin 1 .. Len(s)
    BY <1>1, <1>2, <1>6 DEF c
  <2>2. i - Len(s) \in 1 .. Len(t) /\ c[i] = t[i - Len(s)]
    BY <1>1, <2>1 DEF c
  <2> QED
    BY <1>1, <1>6, <2>2 DEF AllCurrent
<1>7. AllCurrent(t) => AllCurrent(c)
  BY <1>1, <1>6 DEF AllCurrent, c
<1> QED
  BY <1>5, <1>7 DEF c

LEMMA OutdatedChannel ==
  ASSUME NEW S \in {Write, Reply}, NEW s \in Seq(S)
  PROVE  /\ Outdated(s) \in Seq(S) /\ Len(Outdated(s)) = Len(s)
         /\ Count(Outdated(s)) = Count(s)
         /\ Count(s) = 0 => AllCurrent(Outdated(s))
<1> DEFINE o == Outdated(s)
<1>1. /\ Len(s) \in Nat /\ s \in [1 .. Len(s) -> S]
      /\ DOMAIN s = 1 .. Len(s)
  BY LenProperties
<1>2. \A i \in 1 .. Len(s) :
        /\ [s[i] EXCEPT !.current = FALSE] \in S
        /\ [s[i] EXCEPT !.current = FALSE].object = s[i].object
  BY <1>1 DEF Write, Reply
<1>3. o = [i \in 1 .. Len(s) |-> [s[i] EXCEPT !.current = FALSE]]
  BY <1>1 DEF Outdated
<1> HIDE DEF o
<1>4. /\ o \in [1 .. Len(s) -> S] /\ DOMAIN o = 1 .. Len(s)
      /\ \A i \in 1 .. Len(s) : o[i].object = s[i].object
  BY <1>2, <1>3
<1>5. o \in Seq(S) /\ Len(o) = Len(s)
  BY <1>1, <1>4
<1>6. Controls(o) = Controls(s)
  BY <1>1, <1>4 DEF Controls
<1>7. Count(s) = 0 => AllCurrent(o)
  <2>1. Count(s) = 0 => Controls(o) = {}
    BY <1>6, CountType
  <2> QED
    BY <2>1 DEF Controls, AllCurrent
<1> QED
  BY <1>5, <1>6, <1>7 DEF o, Count

(* The frames of a command. *)
LEMMA FramesOfCommand ==
  /\ AckMode \in Write /\ Control \in Write
  /\ <<AckMode>> \in Seq(Write) /\ <<>> \in Seq(Write)
  /\ Internal \in Seq(Write)
<1>1. AckMode \in Write /\ Control \in Write
  BY DEF AckMode, Control, Write
<1>2. <<AckMode>> \in Seq(Write) /\ <<Control>> \in Seq(Write)
  BY <1>1
<1>3. Outdated(<<Control>>) \in Seq(Write)
  BY <1>2, OutdatedChannel
<1> QED
  BY <1>1, <1>2, <1>3 DEF Internal

LEMMA ControlFrames ==
  ASSUME NEW n \in Nat
  PROVE  /\ NControls(n) \in Seq(Write) /\ Len(NControls(n)) = n
         /\ Count(NControls(n)) = n /\ AllCurrent(NControls(n))
<1>1. \A i \in 1 .. n : Control \in Write
  BY FramesOfCommand
<1>2. /\ NControls(n) \in Seq(Write) /\ Len(NControls(n)) = n
      /\ DOMAIN NControls(n) = 1 .. n
      /\ \A i \in 1 .. n : NControls(n)[i] = Control
  BY <1>1 DEF NControls
<1>3. Controls(NControls(n)) = 1 .. n
  BY <1>2 DEF Controls, Control
<1>4. Cardinality(1 .. n) = n
  BY FS_Interval
<1> QED
  BY <1>2, <1>3, <1>4 DEF Count, AllCurrent, Control

LEMMA EnableFrames ==
  ASSUME NEW accepted \in BOOLEAN, NEW n \in Nat
  PROVE  /\ AckModeWrites(accepted) \in Seq(Write)
         /\ AckModeWrites(accepted) \o NControls(n) \in Seq(Write)
         /\ Count(AckModeWrites(accepted) \o NControls(n)) = n
         /\ AllCurrent(AckModeWrites(accepted) \o NControls(n))
<1>1. AckModeWrites(accepted) \in Seq(Write)
  BY FramesOfCommand DEF AckModeWrites
<1>2. Count(AckModeWrites(accepted)) = 0
  <2>1. Controls(AckModeWrites(accepted)) = {}
    BY DEF Controls, AckModeWrites, AckMode
  <2> QED
    BY <2>1, FS_EmptySet DEF Count
<1> QED
  BY <1>1, <1>2, ControlFrames, CountOfConcat, ConcatProperties

-----------------------------------------------------------------------------
(* When a call leaves the tracker able to assign replies. *)

LEMMA ExpireCertain ==
  ASSUME NEW t, TrackerInv(t), ~Expire(t).uncertain
  PROVE  Expire(t) = t
BY DEF TrackerInv, Expire, Tracker

LEMMA BeginCertain ==
  ASSUME NEW t, TrackerInv(t), NEW n \in 1 .. MaxExpected, t.enabled,
         ~Begin(t, n).uncertain
  PROVE  /\ ~t.uncertain /\ t.state # "pending"
         /\ Begin(t, n).state = "pending" /\ Begin(t, n).remaining = n
<1> DEFINE e == Expire(t)
           uncertain == e.uncertain \/ e.state = "pending"
<1>1. TrackerInv(e) /\ e.enabled
  BY ExpireInv
<1>2. Begin(t, n) = [e EXCEPT !.uncertain = uncertain, !.remaining = n,
         !.age = 0, !.state = IF uncertain THEN "ambiguous" ELSE "pending"]
  BY DEF Begin
<1>3. ~uncertain
  <2> HIDE DEF e, uncertain
  <2>1. Begin(t, n).uncertain = uncertain
    BY <1>1, <1>2 DEF TrackerInv, Tracker
  <2> QED
    BY <2>1
<1>4. e = t
  BY <1>3, ExpireCertain
<1>5. ~t.uncertain /\ t.state # "pending"
  BY <1>3, <1>4
<1>6. Begin(t, n) = [t EXCEPT !.uncertain = FALSE, !.remaining = n,
                              !.age = 0, !.state = "pending"]
  <2>1. uncertain = FALSE
    BY <1>3, <1>4, <1>5
  <2> QED
    BY <1>2, <1>4, <2>1
<1>7. Begin(t, n).state = "pending" /\ Begin(t, n).remaining = n
  BY <1>6 DEF TrackerInv, Tracker
<1> QED
  BY <1>5, <1>7

LEMMA TransmissionFailedCertain ==
  ASSUME NEW t, TrackerInv(t), ~TransmissionFailed(t).uncertain
  PROVE  ~t.uncertain /\ (t.enabled => t.state # "pending")
BY DEF TrackerInv, TransmissionFailed, Tracker

LEMMA InterruptCertain ==
  ASSUME NEW t, TrackerInv(t)
  PROVE  /\ t.enabled => Interrupt(t).uncertain
         /\ ~t.enabled => Interrupt(t) = t
BY DEF TrackerInv, Interrupt, Tracker

LEMMA AgedSame ==
  ASSUME NEW t, TrackerInv(t)
  PROVE  /\ Aged(t).uncertain = t.uncertain /\ Aged(t).state = t.state
         /\ Aged(t).remaining = t.remaining
BY DEF TrackerInv, Aged, Tracker

LEMMA ObserveUncounted ==
  ASSUME NEW t, TrackerInv(t), NEW object, NEW aborted, object # "control"
  PROVE  Observe(t, object, aborted) = Expire(t)
BY DEF Observe, Counts

(* A counted reply takes one from the replies awaited.                      *)
LEMMA ObserveCertain ==
  ASSUME NEW t, TrackerInv(t), NEW object, NEW aborted \in BOOLEAN,
         ~Observe(t, object, aborted).uncertain
  PROVE  /\ ~t.uncertain
         /\ Awaited(Observe(t, object, aborted)) =
              IF Counts(t, object) THEN Awaited(t) - 1 ELSE Awaited(t)
         /\ Counts(t, object) => Awaited(t) \in 1 .. MaxExpected
<1> DEFINE e == Expire(t)
           o == Observe(t, object, aborted)
<1>1. TrackerInv(e) /\ ~t.uncertain
  BY ExpireInv, ObserveInv
<1>2. CASE ~Counts(t, object)
  <2>1. o = e
    BY <1>2 DEF Observe
  <2>2. o = t
    BY <2>1, ExpireCertain
  <2> QED
    BY <1>1, <1>2, <2>2
<1>3. CASE Counts(t, object)
  <2>1. e.state = "pending" /\ ~e.uncertain /\ e.remaining \in 1 .. MaxExpected
    BY <1>1, <1>3 DEF Counts, TrackerInv, Tracker, MaxExpected
  <2>2. e = t
    BY <2>1, ExpireCertain
  <2>3. Awaited(t) = t.remaining /\ t.remaining \in 1 .. MaxExpected
    BY <2>1, <2>2 DEF Awaited
  <2>4. CASE aborted
    <3>1. o = [t EXCEPT !.state = "rejected", !.uncertain = t.remaining > 1]
      BY <1>3, <2>2, <2>4 DEF Observe
    <3>2. o.state = "rejected" /\ (t.remaining > 1 => o.uncertain)
      <4> HIDE DEF o
      <4> QED
        BY <3>1 DEF TrackerInv, Tracker
    <3>3. t.remaining = 1
      BY <2>3, <3>2
    <3> QED
      BY <1>1, <1>3, <2>3, <3>2, <3>3 DEF Awaited, MaxExpected
  <2>5. CASE ~aborted
    <3>1. o = [t EXCEPT !.remaining = @ - 1,
                 !.state = IF t.remaining = 1 THEN "acknowledged"
                                              ELSE "pending"]
      BY <1>3, <2>2, <2>5 DEF Observe
    <3>2. /\ o.remaining = t.remaining - 1
          /\ o.state = IF t.remaining = 1 THEN "acknowledged" ELSE "pending"
      <4> HIDE DEF o
      <4> QED
        BY <3>1 DEF TrackerInv, Tracker
    <3> QED
      BY <1>1, <1>3, <2>3, <3>2 DEF Awaited, MaxExpected
  <2> QED
    BY <2>4, <2>5
<1> QED
  BY <1>2, <1>3

LEMMA HandshakeCheckedType ==
  ASSUME TypeOK
  PROVE  /\ HandshakeChecked \in HandshakeStates
         /\ HandshakeChecked = "enabled" <=> ack_handshake_state = "enabled"
         /\ HandshakeChecked = "pending" => ack_handshake_state = "pending"
BY DEF TypeOK, HandshakeChecked, HandshakeStates

-----------------------------------------------------------------------------
(* Every step preserves the invariant. *)

LEMMA InitInv == Init => IInv
<1> SUFFICES ASSUME Init PROVE IInv
  OBVIOUS
<1>1. TypeOK
  <2>1. writes \in Seq(Write) /\ Len(writes) \in 0 .. 1
    <3>1. CASE writes = <<AckMode>>
      BY <3>1, FramesOfCommand
    <3>2. CASE writes = <<>>
      BY <3>2
    <3> QED
      BY <3>1, <3>2 DEF Init
  <2>2. replies \in Seq(Reply) /\ Len(replies) = 0
    BY DEF Init
  <2>3. Len(writes) + Len(replies) <= MaxInFlight
    BY <2>1, <2>2, RepliesAssumption
  <2>4. tracker \in Tracker
    BY DisabledInv DEF Init, TrackerInv
  <2>5. handshake_age \in 0 .. ReplyTimeout
    BY TrackerAssumption DEF Init
  <2>6. ack_handshake_state \in HandshakeStates
    BY DEF Init, HandshakeStates
  <2> QED
    BY <2>1, <2>2, <2>3, <2>4, <2>5, <2>6 DEF Init, TypeOK
<1>2. TrackerInv(tracker)
  BY DisabledInv DEF Init
<1> QED
  BY <1>1, <1>2 DEF Init, IInv, Inv, HandshakeInv, CountInv, DisabledTracker

LEMMA InternalStopInv == IInv /\ InternalStop => IInv'
<1> SUFFICES ASSUME IInv, InternalStop PROVE IInv'
  OBVIOUS
<1>1. TypeOK /\ TrackerInv(tracker) /\ HandshakeInv /\ CountInv
  BY DEF IInv, Inv
<1>2. TrackerInv(tracker') /\ tracker'.enabled = tracker.enabled
  BY <1>1, InterruptInv DEF InternalStop
<1>3. writes' \in Seq(Write)
  <2>1. writes \in Seq(Write) /\ writes \o Internal \in Seq(Write)
    BY <1>1, FramesOfCommand, ConcatProperties DEF TypeOK
  <2> QED
    BY <2>1 DEF InternalStop
<1>4. TypeOK' /\ HandshakeInv'
  BY <1>1, <1>2, <1>3, HandshakeCheckedType
  DEF InternalStop, TypeOK, HandshakeInv, TrackerInv, history
<1>5. CountInv'
  BY <1>1, <1>2, InterruptCertain DEF InternalStop, CountInv, history
<1> QED
  BY <1>2, <1>4, <1>5 DEF IInv, Inv

LEMMA EnableRefusedInv == IInv /\ EnableRefused => IInv'
<1> SUFFICES ASSUME IInv, EnableRefused PROVE IInv'
  OBVIOUS
<1>1. TypeOK /\ TrackerInv(tracker) /\ HandshakeInv /\ CountInv
  BY DEF IInv, Inv
<1>2. CASE ~gate /\ tracker' = TransmissionFailed(tracker) /\ UNCHANGED writes
  <2>1. TrackerInv(tracker') /\ tracker'.enabled = tracker.enabled
    BY <1>1, <1>2, TransmissionFailedInv
  <2>2. TypeOK' /\ HandshakeInv'
    BY <1>1, <1>2, <2>1, HandshakeCheckedType
    DEF EnableRefused, TypeOK, HandshakeInv, TrackerInv, history
  <2>3. ASSUME tracker'.enabled, clean_start', ~tracker'.uncertain
        PROVE  OwnReplies'
    <3>1. ~tracker.uncertain /\ tracker.state # "pending"
      BY <1>1, <1>2, <2>1, <2>3, TransmissionFailedCertain
    <3>2. OwnReplies
      BY <1>1, <2>1, <2>3, <3>1 DEF CountInv, EnableRefused, history
    <3>3. tracker'.state = "transmission_failed"
      BY <1>1, <1>2, <2>1, <2>3 DEF TransmissionFailed, TrackerInv, Tracker
    <3> QED
      BY <1>2, <3>1, <3>2, <3>3
      DEF OwnReplies, Awaited, EnableRefused, history
  <2>4. CountInv'
    BY <1>1, <2>1, <2>3 DEF CountInv, EnableRefused, history
  <2> QED
    BY <2>1, <2>2, <2>4 DEF IInv, Inv
<1>3. CASE /\ tracker' = TransmissionFailed(Interrupt(tracker))
           /\ writes' \in {writes, writes \o Internal}
           /\ Len(writes') + Len(replies) <= MaxInFlight
  <2> DEFINE i == Interrupt(tracker)
  <2>1. TrackerInv(i) /\ i.enabled = tracker.enabled
    BY <1>1, InterruptInv
  <2>2. TrackerInv(tracker') /\ tracker'.enabled = tracker.enabled
    BY <1>3, <2>1, TransmissionFailedInv
  <2>3. writes' \in Seq(Write)
    <3>1. writes \in Seq(Write) /\ writes \o Internal \in Seq(Write)
      BY <1>1, FramesOfCommand, ConcatProperties DEF TypeOK
    <3> QED
      BY <1>3, <3>1
  <2>4. TypeOK' /\ HandshakeInv'
    BY <1>1, <1>3, <2>2, <2>3, HandshakeCheckedType
    DEF EnableRefused, TypeOK, HandshakeInv, TrackerInv, history
  <2>5. tracker.enabled => tracker'.uncertain
    BY <1>1, <1>3, <2>1, TransmissionFailedCertain, InterruptCertain
  <2>6. CountInv'
    BY <1>1, <2>2, <2>5 DEF CountInv, EnableRefused, history
  <2> QED
    BY <2>2, <2>4, <2>6 DEF IInv, Inv
<1> QED
  BY <1>2, <1>3 DEF EnableRefused

(* What a new command does to the frames in flight.                         *)
LEMMA NewCommandFrames ==
  ASSUME TypeOK, NEW frames \in Seq(Write), NewCommand(frames)
  PROVE  /\ writes' \in Seq(Write) /\ replies' \in Seq(Reply)
         /\ Len(writes') + Len(replies') <= MaxInFlight
         /\ ~miscounted' /\ miscounted' \in BOOLEAN
         /\ Count(writes) + Count(replies) = 0 =>
              /\ Count(writes') + Count(replies') = Count(frames)
              /\ AllCurrent(frames) => AllCurrent(writes') /\ AllCurrent(replies')
<1>1. writes \in Seq(Write) /\ replies \in Seq(Reply)
  BY DEF TypeOK
<1>2. /\ Outdated(writes) \in Seq(Write) /\ Outdated(replies) \in Seq(Reply)
      /\ Count(Outdated(writes)) = Count(writes)
      /\ Count(Outdated(replies)) = Count(replies)
      /\ Count(replies) = 0 => AllCurrent(Outdated(replies))
  BY <1>1, OutdatedChannel
<1>3. Count(writes) \in Nat /\ Count(replies) \in Nat /\ Count(frames) \in Nat
  BY <1>1, CountType
<1>4. /\ writes' = Outdated(writes) \o frames /\ replies' = Outdated(replies)
      /\ miscounted' = FALSE /\ Len(writes') + Len(replies') <= MaxInFlight
  BY DEF NewCommand
<1>5. writes' \in Seq(Write)
  BY <1>2, <1>4, ConcatProperties
<1>6. ASSUME Count(writes) + Count(replies) = 0
      PROVE  /\ Count(writes') + Count(replies') = Count(frames)
             /\ AllCurrent(frames) => AllCurrent(writes') /\ AllCurrent(replies')
  <2>1. Count(writes) = 0 /\ Count(replies) = 0
    BY <1>3, <1>6
  <2>2. /\ Count(Outdated(writes) \o frames) = Count(frames)
        /\ AllCurrent(frames) => AllCurrent(Outdated(writes) \o frames)
    BY <1>2, <2>1, CountOfConcat
  <2> QED
    BY <1>2, <1>3, <1>4, <2>1, <2>2
<1> QED
  BY <1>2, <1>4, <1>5, <1>6

(* The handshake that precedes an enable keeps its types, and neither       *)
(* enables nor disables the tracker.                                        *)
LEMMA ReArmType ==
  ASSUME TypeOK, NEW accepted \in BOOLEAN, ReArm(accepted)
  PROVE  /\ ack_handshake_state' \in HandshakeStates
         /\ handshake_age' \in 0 .. ReplyTimeout
         /\ ack_handshake_state' = "enabled" <=> ack_handshake_state = "enabled"
<1>1. 0 \in 0 .. ReplyTimeout
  BY TrackerAssumption
<1> QED
  BY <1>1 DEF ReArm, HandshakeStarted, TypeOK, HandshakeStates

LEMMA EnableSucceedsInv == IInv /\ EnableSucceeds => IInv'
<1> SUFFICES ASSUME IInv, EnableSucceeds PROVE IInv'
  OBVIOUS
<1>1. TypeOK /\ TrackerInv(tracker) /\ HandshakeInv /\ CountInv
  BY DEF IInv, Inv
<1>2. PICK accepted \in BOOLEAN :
        ReArm(accepted) /\ NewCommand(AckModeWrites(accepted) \o NControls(3))
  BY DEF EnableSucceeds
<1> DEFINE frames == AckModeWrites(accepted) \o NControls(3)
<1>3. 3 \in Nat /\ 3 \in 1 .. MaxExpected
  BY DEF MaxExpected
<1>4. frames \in Seq(Write) /\ Count(frames) = 3 /\ AllCurrent(frames)
  BY <1>3, EnableFrames
<1>5. /\ writes' \in Seq(Write) /\ replies' \in Seq(Reply)
      /\ Len(writes') + Len(replies') <= MaxInFlight
      /\ ~miscounted' /\ miscounted' \in BOOLEAN
      /\ Count(writes) + Count(replies) = 0 =>
            /\ Count(writes') + Count(replies') = 3
            /\ AllCurrent(writes') /\ AllCurrent(replies')
  <2> HIDE DEF frames
  <2> QED
    BY <1>1, <1>2, <1>4, NewCommandFrames DEF frames
<1>6. TrackerInv(tracker') /\ tracker'.enabled = tracker.enabled
  BY <1>1, <1>3, BeginInv DEF EnableSucceeds
<1>7. TypeOK' /\ HandshakeInv'
  BY <1>1, <1>2, <1>5, <1>6, ReArmType
  DEF EnableSucceeds, TypeOK, HandshakeInv, TrackerInv
<1>8. ASSUME tracker'.enabled, clean_start', ~tracker'.uncertain
      PROVE  OwnReplies'
  <2>1. /\ ~tracker.uncertain /\ tracker.state # "pending"
        /\ tracker'.state = "pending" /\ tracker'.remaining = 3
    BY <1>1, <1>3, <1>6, <1>8, BeginCertain DEF EnableSucceeds
  <2>2. OwnReplies
    BY <1>1, <1>6, <1>8, <2>1 DEF CountInv, EnableSucceeds
  <2>3. Count(writes) \in Nat /\ Count(replies) \in Nat
    BY <1>1, CountType DEF TypeOK
  <2>4. Count(writes) + Count(replies) = 0
    BY <2>1, <2>2, <2>3 DEF OwnReplies, Awaited
  <2> QED
    BY <1>5, <2>1, <2>4 DEF OwnReplies, Awaited
<1>9. CountInv'
  BY <1>5, <1>8 DEF CountInv
<1> QED
  BY <1>6, <1>7, <1>9 DEF IInv, Inv

LEMMA EnableFailsInv == IInv /\ EnableFails => IInv'
<1> SUFFICES ASSUME IInv, EnableFails PROVE IInv'
  OBVIOUS
<1>1. TypeOK /\ TrackerInv(tracker) /\ HandshakeInv /\ CountInv
  BY DEF IInv, Inv
<1>2. PICK accepted \in BOOLEAN, sent \in 0 .. 3, stop \in {<<>>, Internal} :
        /\ ReArm(accepted)
        /\ NewCommand(AckModeWrites(accepted) \o NControls(sent) \o stop)
  BY DEF EnableFails
<1> DEFINE b == Begin(tracker, 3)
           frames == AckModeWrites(accepted) \o NControls(sent) \o stop
<1>3. 3 \in 1 .. MaxExpected /\ sent \in Nat
  BY DEF MaxExpected
<1>4. frames \in Seq(Write)
  <2>1. AckModeWrites(accepted) \o NControls(sent) \in Seq(Write)
    BY <1>3, EnableFrames
  <2>2. stop \in Seq(Write)
    BY FramesOfCommand
  <2> QED
    BY <2>1, <2>2, ConcatProperties
<1>5. /\ writes' \in Seq(Write) /\ replies' \in Seq(Reply)
      /\ Len(writes') + Len(replies') <= MaxInFlight
      /\ ~miscounted' /\ miscounted' \in BOOLEAN
  <2> HIDE DEF frames
  <2> QED
    BY <1>1, <1>2, <1>4, NewCommandFrames DEF frames
<1>6. TrackerInv(b) /\ b.enabled = tracker.enabled
  BY <1>1, <1>3, BeginInv
<1>7. TrackerInv(tracker') /\ tracker'.enabled = tracker.enabled
  BY <1>6, TransmissionFailedInv DEF EnableFails
<1>8. TypeOK' /\ HandshakeInv'
  BY <1>1, <1>2, <1>5, <1>7, ReArmType
  DEF EnableFails, TypeOK, HandshakeInv, TrackerInv
<1>9. tracker.enabled => tracker'.uncertain
  <2> SUFFICES ASSUME tracker.enabled, ~tracker'.uncertain PROVE FALSE
    OBVIOUS
  <2>1. ~b.uncertain /\ b.state # "pending"
    BY <1>6, TransmissionFailedCertain DEF EnableFails
  <2> QED
    BY <1>1, <1>3, <2>1, BeginCertain
<1>10. CountInv'
  BY <1>5, <1>7, <1>9 DEF CountInv
<1> QED
  BY <1>7, <1>8, <1>10 DEF IInv, Inv

LEMMA SingleCommandInv == IInv /\ SingleCommand => IInv'
<1> SUFFICES ASSUME IInv, SingleCommand PROVE IInv'
  OBVIOUS
<1>1. TypeOK /\ TrackerInv(tracker) /\ HandshakeInv /\ CountInv
  BY DEF IInv, Inv
<1>2. PICK aborts \in {FALSE, gate}, sent \in BOOLEAN :
        LET before == IF aborts THEN Interrupt(tracker) ELSE tracker
            begun == Begin(before, 1)
        IN  /\ tracker' = (IF sent THEN begun ELSE TransmissionFailed(begun))
            /\ \E stop \in IF aborts THEN {<<>>, Internal} ELSE {<<>>} :
                 NewCommand(stop \o NControls(IF sent THEN 1 ELSE 0))
  BY DEF SingleCommand
<1> DEFINE before == IF aborts THEN Interrupt(tracker) ELSE tracker
           begun == Begin(before, 1)
           n == IF sent THEN 1 ELSE 0
<1>3. PICK stop \in IF aborts THEN {<<>>, Internal} ELSE {<<>>} :
        NewCommand(stop \o NControls(n))
  BY <1>2
<1>4. /\ 1 \in 1 .. MaxExpected /\ n \in Nat
      /\ stop \in Seq(Write) /\ (~aborts => stop = <<>>)
  <2>1. stop \in {<<>>, Internal} /\ (~aborts => stop = <<>>)
    BY <1>3
  <2>2. stop \in Seq(Write)
    BY <2>1, FramesOfCommand
  <2> QED
    BY <2>1, <2>2 DEF MaxExpected
<1> DEFINE frames == stop \o NControls(n)
<1>5. /\ NControls(n) \in Seq(Write) /\ frames \in Seq(Write)
      /\ Count(NControls(n)) = n /\ AllCurrent(NControls(n))
  <2> HIDE DEF n
  <2> QED
    BY <1>4, ControlFrames, ConcatProperties
<1>6. ~aborts => Count(frames) = n /\ AllCurrent(frames)
  <2> HIDE DEF n
  <2> QED
    BY <1>4, <1>5, ConcatEmptySeq
<1>7. /\ writes' \in Seq(Write) /\ replies' \in Seq(Reply)
      /\ Len(writes') + Len(replies') <= MaxInFlight
      /\ ~miscounted' /\ miscounted' \in BOOLEAN
      /\ Count(writes) + Count(replies) = 0 =>
            /\ Count(writes') + Count(replies') = Count(frames)
            /\ AllCurrent(frames) => AllCurrent(writes') /\ AllCurrent(replies')
  <2>1. NewCommand(frames)
    BY <1>3
  <2> HIDE DEF frames
  <2> QED
    BY <1>1, <1>5, <2>1, NewCommandFrames
<1>8. TrackerInv(before) /\ before.enabled = tracker.enabled
  BY <1>1, InterruptInv
<1>9. TrackerInv(begun) /\ begun.enabled = tracker.enabled
  <2> HIDE DEF before
  <2> QED
    BY <1>4, <1>8, BeginInv
<1>10. TrackerInv(tracker') /\ tracker'.enabled = tracker.enabled
  <2>1. tracker' = IF sent THEN begun ELSE TransmissionFailed(begun)
    BY <1>2
  <2> HIDE DEF begun
  <2> QED
    BY <1>9, <2>1, TransmissionFailedInv
<1>11. TypeOK' /\ HandshakeInv'
  BY <1>1, <1>7, <1>10, HandshakeCheckedType
  DEF SingleCommand, TypeOK, HandshakeInv, TrackerInv
<1>12. ASSUME tracker'.enabled, clean_start', ~tracker'.uncertain
       PROVE  OwnReplies'
  <2>1. ~begun.uncertain /\ (sent \/ begun.state # "pending")
    <3>1. tracker' = IF sent THEN begun ELSE TransmissionFailed(begun)
      BY <1>2
    <3> HIDE DEF begun
    <3> QED
      BY <1>9, <1>10, <1>12, <3>1, TransmissionFailedCertain
  <2>2. /\ ~before.uncertain /\ before.state # "pending"
        /\ begun.state = "pending" /\ begun.remaining = 1
    <3> HIDE DEF before
    <3> QED
      BY <1>4, <1>8, <1>10, <1>12, <2>1, BeginCertain
  <2>3. sent /\ ~aborts
    BY <1>1, <1>10, <1>12, <2>1, <2>2, InterruptCertain
  <2>4. ~tracker.uncertain /\ tracker.state # "pending" /\ tracker' = begun
    BY <1>2, <2>2, <2>3
  <2>5. OwnReplies
    BY <1>1, <1>10, <1>12, <2>4 DEF CountInv, SingleCommand
  <2>6. Count(writes) \in Nat /\ Count(replies) \in Nat
    BY <1>1, CountType DEF TypeOK
  <2>7. Count(writes) + Count(replies) = 0
    BY <2>4, <2>5, <2>6 DEF OwnReplies, Awaited
  <2>8. Count(frames) = 1 /\ AllCurrent(frames)
    BY <1>6, <2>3
  <2>9. Awaited(tracker') = 1
    BY <2>2, <2>4 DEF Awaited
  <2> HIDE DEF frames
  <2> QED
    BY <1>7, <2>7, <2>8, <2>9 DEF OwnReplies
<1>13. CountInv'
  BY <1>7, <1>12 DEF CountInv
<1> QED
  BY <1>10, <1>11, <1>13 DEF IInv, Inv

LEMMA NodeRestartsInv == IInv /\ NodeRestarts => IInv'
<1> SUFFICES ASSUME IInv, NodeRestarts PROVE IInv'
  OBVIOUS
<1>1. TypeOK
  BY DEF IInv, Inv
<1>2. PICK accepted \in BOOLEAN, stop \in {<<>>, Internal} :
        /\ HandshakeStarted(accepted)
        /\ writes' = Outdated(writes) \o stop \o AckModeWrites(accepted)
  BY DEF NodeRestarts
<1>3. writes' \in Seq(Write)
  <2>1. Outdated(writes) \in Seq(Write)
    BY <1>1, OutdatedChannel DEF TypeOK
  <2>2. AckModeWrites(accepted) \in Seq(Write)
    BY EnableFrames
  <2>3. Outdated(writes) \o stop \in Seq(Write)
    BY <2>1, FramesOfCommand, ConcatProperties
  <2> QED
    BY <1>2, <2>2, <2>3, ConcatProperties
<1>4. replies' \in Seq(Reply)
  <2>1. Outdated(replies) \in Seq(Reply) /\ <<>> \in Seq(Reply)
    BY <1>1, OutdatedChannel, EmptySeq DEF TypeOK
  <2>2. replies' = <<>> \/ replies' = Outdated(replies)
    BY DEF NodeRestarts
  <2> QED
    BY <2>1, <2>2
<1>5. /\ ack_handshake_state' \in HandshakeStates \ {"enabled"}
      /\ handshake_age' \in 0 .. ReplyTimeout
  BY <1>1, <1>2, TrackerAssumption DEF HandshakeStarted, HandshakeStates, TypeOK
<1>6. TrackerInv(tracker') /\ ~tracker'.enabled
  BY DisabledInv DEF NodeRestarts, DisabledTracker
<1>7. TypeOK' /\ HandshakeInv'
  BY <1>1, <1>3, <1>4, <1>5, <1>6
  DEF NodeRestarts, TypeOK, HandshakeInv, TrackerInv
<1> QED
  BY <1>6, <1>7 DEF NodeRestarts, CountInv, IInv, Inv

LEMMA CheckReplyTimeoutsInv == IInv /\ CheckReplyTimeouts => IInv'
<1> SUFFICES ASSUME IInv, CheckReplyTimeouts PROVE IInv'
  OBVIOUS
<1>1. TypeOK /\ TrackerInv(tracker) /\ HandshakeInv /\ CountInv
  BY DEF IInv, Inv
<1>2. TrackerInv(tracker') /\ tracker'.enabled = tracker.enabled
  BY <1>1, ExpireInv DEF CheckReplyTimeouts
<1>3. TypeOK' /\ HandshakeInv'
  BY <1>1, <1>2, HandshakeCheckedType
  DEF CheckReplyTimeouts, TypeOK, HandshakeInv, TrackerInv, controller, history
<1>4. ~tracker'.uncertain => tracker' = tracker
  BY <1>1, ExpireCertain DEF CheckReplyTimeouts
<1>5. CountInv'
  BY <1>1, <1>2, <1>4
  DEF CheckReplyTimeouts, CountInv, OwnReplies, Awaited, controller, history
<1> QED
  BY <1>2, <1>3, <1>5 DEF IInv, Inv

LEMMA ReceiveInv == IInv /\ Receive => IInv'
<1> SUFFICES ASSUME IInv, Receive PROVE IInv'
  OBVIOUS
<1> DEFINE reply == Head(replies)
           shakes == reply.object = "ack_mode" /\ HandshakeChecked = "pending"
           checked == IF shakes /\ ~reply.aborted
                      THEN SetEnabled(Expire(tracker), TRUE)
                      ELSE Expire(tracker)
<1>1. TypeOK /\ TrackerInv(tracker) /\ HandshakeInv /\ CountInv
  BY DEF IInv, Inv
<1>2. /\ writes \in Seq(Write) /\ replies \in Seq(Reply) /\ replies # <<>>
      /\ reply \in Reply /\ Tail(replies) \in Seq(Reply)
      /\ Len(Tail(replies)) = Len(replies) - 1
      /\ Len(replies) \in Nat /\ Len(writes) \in Nat
      /\ reply.aborted \in BOOLEAN
  <2>1. writes \in Seq(Write) /\ replies \in Seq(Reply) /\ replies # <<>>
    BY <1>1 DEF TypeOK, Receive
  <2>2. Len(replies) \in Nat /\ Len(writes) \in Nat
    BY <2>1, LenProperties
  <2>3. /\ reply \in Reply /\ Tail(replies) \in Seq(Reply)
        /\ Len(Tail(replies)) = Len(replies) - 1
    BY <2>1, HeadTailProperties
  <2>4. reply.aborted \in BOOLEAN
    BY <2>3 DEF Reply
  <2> QED
    BY <2>1, <2>2, <2>3, <2>4
<1>3. /\ ack_handshake_state' = (IF ~shakes THEN HandshakeChecked
                                 ELSE IF reply.aborted THEN "rejected"
                                                       ELSE "enabled")
      /\ tracker' = Observe(checked, reply.object, reply.aborted)
      /\ miscounted' = (miscounted \/ (/\ Counts(checked, reply.object)
                                       /\ ~reply.current))
      /\ clean_start' =
           (IF shakes /\ ~reply.aborted
            THEN \A frame \in {writes[i] : i \in DOMAIN writes}
                           \cup {replies[i] : i \in DOMAIN replies} :
                   frame.object # "control"
            ELSE clean_start)
      /\ replies' = Tail(replies)
      /\ UNCHANGED <<handshake_age, gate, acks_on, writes>>
  BY DEF Receive
<1>4. TrackerInv(Expire(tracker)) /\ Expire(tracker).enabled = tracker.enabled
  BY <1>1, ExpireInv
<1>5. /\ TrackerInv(checked)
      /\ checked.enabled <=> tracker.enabled \/ (shakes /\ ~reply.aborted)
  BY <1>4, SetEnabledInv
<1>6. TrackerInv(tracker') /\ tracker'.enabled = checked.enabled
  <2> HIDE DEF checked, reply
  <2> QED
    BY <1>2, <1>3, <1>5, ObserveInv
<1>7. ack_handshake_state' \in HandshakeStates
  BY <1>1, <1>3, HandshakeCheckedType DEF HandshakeStates
<1>8. HandshakeInv'
  BY <1>1, <1>3, <1>5, <1>6, HandshakeCheckedType DEF HandshakeInv
<1>9. miscounted' \in BOOLEAN /\ clean_start' \in BOOLEAN
  BY <1>1, <1>3 DEF TypeOK
<1>10. TypeOK'
  <2>1. Len(writes) + Len(Tail(replies)) <= MaxInFlight
    BY <1>1, <1>2, RepliesAssumption DEF TypeOK
  <2> HIDE DEF reply, shakes, checked
  <2> QED
    BY <1>1, <1>2, <1>3, <1>6, <1>7, <1>9, <2>1 DEF TypeOK, TrackerInv
<1>11. CASE shakes /\ ~reply.aborted
  <2>1. ~tracker.enabled /\ reply.object # "control"
    BY <1>1, <1>11, HandshakeCheckedType DEF HandshakeInv
  <2>2. ~Counts(checked, reply.object) /\ ~miscounted'
    BY <1>1, <1>3, <2>1 DEF Counts, CountInv
  <2>3. checked = SetEnabled(Expire(tracker), TRUE) /\ ~checked.uncertain
    BY <1>4, <1>11, SetEnabledInv
  <2>4. checked.state = "idle"
    BY <1>4, <2>3 DEF SetEnabled, TrackerInv, Tracker
  <2>5. tracker' = checked
    <3>1. Expire(checked) = checked
      BY <2>4 DEF Expire
    <3> HIDE DEF checked
    <3> QED
      BY <1>3, <2>2, <3>1 DEF Observe
  <2>6. ASSUME clean_start' PROVE OwnReplies'
    <3>1. /\ \A i \in DOMAIN writes : writes[i].object # "control"
          /\ \A i \in DOMAIN replies : replies[i].object # "control"
      BY <1>3, <1>11, <2>6
    <3>2. Controls(writes) = {} /\ Controls(replies) = {}
      BY <3>1 DEF Controls
    <3>3. /\ Count(writes) = 0 /\ Count(replies) = 0
          /\ AllCurrent(writes) /\ AllCurrent(replies)
      BY <1>2, <3>1, <3>2, CountType DEF AllCurrent
    <3>4. Count(Tail(replies)) = 0 /\ AllCurrent(Tail(replies))
      BY <1>2, <2>1, <3>3, CountOfTail
    <3>5. Awaited(tracker') = 0
      BY <2>4, <2>5 DEF Awaited
    <3>6. writes' = writes /\ replies' = Tail(replies)
      BY <1>3
    <3> QED
      BY <2>2, <3>3, <3>4, <3>5, <3>6 DEF OwnReplies
  <2>7. CountInv'
    BY <2>2, <2>6 DEF CountInv
  <2> QED
    BY <1>6, <1>8, <1>10, <2>7 DEF IInv, Inv
<1>12. CASE ~(shakes /\ ~reply.aborted)
  <2>1. checked = Expire(tracker) /\ clean_start' = clean_start
    BY <1>3, <1>12
  <2>2. tracker' = Observe(Expire(tracker), reply.object, reply.aborted)
    BY <1>3, <2>1
  <2>3. ASSUME ~tracker'.enabled PROVE ~miscounted'
    <3>1. ~miscounted /\ ~Expire(tracker).enabled
      BY <1>1, <1>4, <1>6, <2>1, <2>3 DEF CountInv
    <3>2. Expire(tracker).state = "unavailable"
      BY <1>4, <3>1 DEF TrackerInv
    <3>3. ~Counts(checked, reply.object)
      BY <2>1, <3>2 DEF Counts, Expire
    <3> QED
      BY <1>3, <3>1, <3>3
  <2>4. ASSUME tracker'.enabled, clean_start', ~tracker'.uncertain
        PROVE  OwnReplies'
    <3> DEFINE e == Expire(tracker)
    <3>1. /\ ~e.uncertain
          /\ Awaited(tracker') = IF Counts(e, reply.object)
                                 THEN Awaited(e) - 1 ELSE Awaited(e)
          /\ Counts(e, reply.object) => Awaited(e) \in 1 .. MaxExpected
      <4> HIDE DEF e, reply
      <4> QED
        BY <1>2, <1>4, <2>2, <2>4, ObserveCertain DEF e
    <3>2. e = tracker
      BY <1>1, <3>1, ExpireCertain
    <3>3. OwnReplies
      BY <1>1, <1>4, <1>6, <2>1, <2>4, <3>1, <3>2 DEF CountInv
    <3>4. /\ Count(Tail(replies)) = IF reply.object = "control"
                                    THEN Count(replies) - 1 ELSE Count(replies)
          /\ AllCurrent(Tail(replies))
          /\ reply.object = "control" => reply.current
      BY <1>2, <3>3, CountOfTail DEF OwnReplies
    <3>5. ~miscounted'
      BY <1>3, <2>1, <3>3, <3>4 DEF OwnReplies, Counts
    <3>6. /\ Count(writes) \in Nat /\ Count(replies) \in Nat
          /\ Count(Tail(replies)) \in Nat
          /\ Count(writes) + Count(replies) <= Awaited(tracker)
      BY <1>2, <3>3, CountType DEF OwnReplies
    <3>7. reply.object = "control" => Count(writes) + Count(replies) > 0
      BY <3>4, <3>6
    <3>8. reply.object = "control" => Counts(e, reply.object)
      <4>1. reply.object = "control" => Awaited(tracker) # 0
        BY <3>6, <3>7
      <4>2. Expire(e) = e
        BY <1>4, <3>1, <3>2
      <4> QED
        BY <3>2, <4>1, <4>2 DEF Counts, Awaited
    <3>9. Counts(e, reply.object) => reply.object = "control"
      BY DEF Counts
    <3>10. Count(writes) + Count(Tail(replies)) <= Awaited(tracker')
      <4>1. CASE Counts(e, reply.object)
        <5>1. /\ Awaited(tracker) \in 1 .. MaxExpected
              /\ Awaited(tracker') = Awaited(tracker) - 1
              /\ Count(Tail(replies)) = Count(replies) - 1
          BY <3>1, <3>2, <3>4, <3>9, <4>1
        <5> QED
          BY <3>6, <5>1 DEF MaxExpected
      <4>2. CASE ~Counts(e, reply.object)
        BY <3>1, <3>2, <3>4, <3>6, <3>8, <4>2
      <4> QED
        BY <4>1, <4>2
    <3>11. writes' = writes /\ replies' = Tail(replies)
      BY <1>3
    <3> QED
      BY <3>3, <3>4, <3>5, <3>10, <3>11 DEF OwnReplies
  <2>5. CountInv'
    BY <2>3, <2>4 DEF CountInv
  <2> QED
    BY <1>6, <1>8, <1>10, <2>5 DEF IInv, Inv
<1> QED
  BY <1>11, <1>12

(* Frames leave a channel from its head, and reach the other at its end.    *)
LEMMA ControllerHandlesInv == IInv /\ ControllerHandles => IInv'
<1> SUFFICES ASSUME IInv, ControllerHandles PROVE IInv'
  OBVIOUS
<1> DEFINE write == Head(writes)
           Answer(aborted) == [object |-> write.object, aborted |-> aborted,
                               current |-> write.current]
<1>1. TypeOK /\ TrackerInv(tracker) /\ HandshakeInv /\ CountInv
  BY DEF IInv, Inv
<1>2. /\ writes # <<>> /\ writes' = Tail(writes)
      /\ UNCHANGED <<tracker, ack_handshake_state, handshake_age, gate, history>>
  BY DEF ControllerHandles
<1>3. writes \in Seq(Write) /\ replies \in Seq(Reply)
  BY <1>1 DEF TypeOK
<1>4. /\ write \in Write /\ Tail(writes) \in Seq(Write)
      /\ Len(Tail(writes)) = Len(writes) - 1
      /\ Len(writes) \in Nat /\ Len(replies) \in Nat
  BY <1>2, <1>3, HeadTailProperties, LenProperties
<1>5. \A aborted \in BOOLEAN :
        /\ Answer(aborted) \in Reply
        /\ Answer(aborted).object = write.object
        /\ Answer(aborted).current = write.current
  BY <1>4 DEF Write, Reply
<1>6. /\ acks_on' \in BOOLEAN
      /\ \/ replies' = replies
         \/ \E aborted \in BOOLEAN : replies' = Append(replies, Answer(aborted))
  BY <1>1 DEF ControllerHandles, TypeOK
<1> HIDE DEF Answer, write
<1>7. /\ Count(writes) \in Nat /\ Count(replies) \in Nat
      /\ Count(writes') = IF write.object = "control" THEN Count(writes) - 1
                                                     ELSE Count(writes)
      /\ Count(writes') <= Count(writes)
      /\ AllCurrent(writes) => AllCurrent(writes')
      /\ AllCurrent(writes) /\ write.object = "control" => write.current
  BY <1>2, <1>3, CountType, CountOfTail DEF write
<1>8. /\ replies' \in Seq(Reply) /\ Len(replies') <= Len(replies) + 1
      /\ Len(replies') \in Nat
      /\ Count(replies') <= IF write.object = "control" THEN Count(replies) + 1
                                                       ELSE Count(replies)
      /\ Count(replies') \in Nat
      /\ AllCurrent(replies) /\ (write.object = "control" => write.current)
         => AllCurrent(replies')
  <2>1. CASE replies' = replies
    BY <1>3, <1>4, <1>7, <2>1
  <2>2. ASSUME NEW aborted \in BOOLEAN, replies' = Append(replies, Answer(aborted))
        PROVE  <1>8!:
    <3>1. /\ replies' \in Seq(Reply) /\ Len(replies') = Len(replies) + 1
          /\ Count(replies') = IF write.object = "control"
                               THEN Count(replies) + 1 ELSE Count(replies)
          /\ AllCurrent(replies) /\ (write.object = "control" => write.current)
             => AllCurrent(replies')
      BY <1>3, <1>5, <2>2, CountOfAppend
    <3> QED
      BY <1>4, <1>7, <3>1
  <2> QED
    BY <1>6, <2>1, <2>2
<1>9. TypeOK' /\ HandshakeInv' /\ TrackerInv(tracker')
  <2>1. Len(writes') + Len(replies') <= MaxInFlight
    BY <1>1, <1>2, <1>4, <1>8, RepliesAssumption DEF TypeOK
  <2> QED
    BY <1>1, <1>2, <1>4, <1>6, <1>8, <2>1 DEF TypeOK, HandshakeInv, history
<1>10. OwnReplies => OwnReplies'
  <2> SUFFICES ASSUME OwnReplies PROVE OwnReplies'
    OBVIOUS
  <2>1. Count(writes') + Count(replies') <= Count(writes) + Count(replies)
    <3>1. Count(writes') \in Nat
      BY <1>2, <1>4, CountType
    <3>2. CASE write.object = "control"
      BY <1>7, <1>8, <3>1, <3>2
    <3>3. CASE write.object # "control"
      BY <1>7, <1>8, <3>1, <3>3
    <3> QED
      BY <3>2, <3>3
  <2>2. Count(writes') \in Nat /\ Awaited(tracker) \in Nat
    <3>1. Count(writes') \in Nat
      BY <1>2, <1>4, CountType
    <3>2. Awaited(tracker) \in Nat
      BY <1>1 DEF Awaited, TrackerInv, Tracker, MaxExpected
    <3> QED
      BY <3>1, <3>2
  <2>3. Count(writes') + Count(replies') <= Awaited(tracker)
    BY <1>7, <1>8, <2>1, <2>2 DEF OwnReplies
  <2> QED
    BY <1>2, <1>7, <1>8, <2>3 DEF OwnReplies, history
<1>11. CountInv'
  BY <1>1, <1>2, <1>10 DEF CountInv, history
<1> QED
  BY <1>9, <1>11 DEF IInv, Inv

LEMMA ControllerResetsInv == IInv /\ ControllerResets => IInv'
<1> SUFFICES ASSUME IInv, ControllerResets PROVE IInv'
  OBVIOUS
<1>1. TypeOK /\ TrackerInv(tracker) /\ HandshakeInv /\ CountInv
  BY DEF IInv, Inv
<1>2. /\ writes' = <<>> /\ acks_on' = FALSE
      /\ UNCHANGED <<tracker, ack_handshake_state, handshake_age, gate,
                     replies, history>>
  BY DEF ControllerResets
<1>3. /\ writes \in Seq(Write) /\ replies \in Seq(Reply)
      /\ Len(writes) \in Nat /\ Len(replies) \in Nat
      /\ Count(writes) \in Nat /\ Count(replies) \in Nat
  BY <1>1, LenProperties, CountType DEF TypeOK
<1>4. writes' \in Seq(Write) /\ Len(writes') = 0
  BY <1>2, EmptySeq
<1>5. Len(writes') + Len(replies') <= MaxInFlight
  BY <1>1, <1>2, <1>3, <1>4, RepliesAssumption DEF TypeOK
<1>6. TypeOK' /\ HandshakeInv' /\ TrackerInv(tracker')
  BY <1>1, <1>2, <1>4, <1>5 DEF TypeOK, HandshakeInv, history
<1>7. Count(writes') = 0 /\ AllCurrent(writes')
  BY <1>2, CountOfEmpty
<1>8. OwnReplies => OwnReplies'
  <2>1. Awaited(tracker) \in Nat
    BY <1>1 DEF Awaited, TrackerInv, Tracker, MaxExpected
  <2>2. OwnReplies => 0 + Count(replies) <= Awaited(tracker)
    BY <1>3, <2>1 DEF OwnReplies
  <2> QED
    BY <1>2, <1>7, <2>2 DEF OwnReplies, history
<1>9. CountInv'
  BY <1>1, <1>2, <1>8 DEF CountInv, history
<1> QED
  BY <1>6, <1>9 DEF IInv, Inv

LEMMA LoseReplyInv == IInv /\ LoseReply => IInv'
<1> SUFFICES ASSUME IInv, LoseReply PROVE IInv'
  OBVIOUS
<1>1. TypeOK /\ TrackerInv(tracker) /\ HandshakeInv /\ CountInv
  BY DEF IInv, Inv
<1>2. /\ replies # <<>> /\ replies' = Tail(replies)
      /\ UNCHANGED <<tracker, ack_handshake_state, handshake_age, gate, acks_on,
                     writes, history>>
  BY DEF LoseReply
<1>3. /\ writes \in Seq(Write) /\ replies \in Seq(Reply)
      /\ Len(writes) \in Nat /\ Len(replies) \in Nat
      /\ Count(writes) \in Nat /\ Count(replies) \in Nat
  BY <1>1, LenProperties, CountType DEF TypeOK
<1>4. Tail(replies) \in Seq(Reply) /\ Len(Tail(replies)) = Len(replies) - 1
  BY <1>2, <1>3, HeadTailProperties
<1>5. Len(writes') + Len(replies') <= MaxInFlight
  BY <1>1, <1>2, <1>3, <1>4, RepliesAssumption DEF TypeOK
<1>6. TypeOK' /\ HandshakeInv' /\ TrackerInv(tracker')
  BY <1>1, <1>2, <1>4, <1>5 DEF TypeOK, HandshakeInv, history
<1>7. /\ Count(replies') \in Nat /\ Count(replies') <= Count(replies)
      /\ AllCurrent(replies) => AllCurrent(replies')
  BY <1>2, <1>3, <1>4, CountType, CountOfTail
<1>8. OwnReplies => OwnReplies'
  <2>1. Awaited(tracker) \in Nat
    BY <1>1 DEF Awaited, TrackerInv, Tracker, MaxExpected
  <2>2. OwnReplies => Count(writes) + Count(replies') <= Awaited(tracker)
    BY <1>3, <1>7, <2>1 DEF OwnReplies
  <2> QED
    BY <1>2, <1>7, <2>2 DEF OwnReplies, history
<1>9. CountInv'
  BY <1>1, <1>2, <1>8 DEF CountInv, history
<1> QED
  BY <1>6, <1>9 DEF IInv, Inv

LEMMA TickInv == IInv /\ Tick => IInv'
<1> SUFFICES ASSUME IInv, Tick PROVE IInv'
  OBVIOUS
<1>1. TypeOK /\ TrackerInv(tracker) /\ HandshakeInv /\ CountInv
  BY DEF IInv, Inv
<1>2. /\ TrackerInv(tracker') /\ tracker'.enabled = tracker.enabled
      /\ tracker'.uncertain = tracker.uncertain /\ tracker'.state = tracker.state
      /\ tracker'.remaining = tracker.remaining
  BY <1>1, AgedInv, AgedSame DEF Tick
<1>3. handshake_age' \in 0 .. ReplyTimeout
  BY <1>1, TrackerAssumption DEF Tick, TypeOK
<1>4. UNCHANGED <<ack_handshake_state, gate, controller, history>>
  BY DEF Tick
<1>5. TypeOK' /\ HandshakeInv'
  BY <1>1, <1>2, <1>3, <1>4
  DEF TypeOK, HandshakeInv, TrackerInv, controller, history
<1>6. CountInv'
  BY <1>1, <1>2, <1>4 DEF CountInv, OwnReplies, Awaited, controller, history
<1> QED
  BY <1>2, <1>5, <1>6 DEF IInv, Inv

LEMMA StepInv == IInv /\ [Next]_vars => IInv'
<1> SUFFICES ASSUME IInv, [Next]_vars PROVE IInv'
  OBVIOUS
<1>1. CASE UNCHANGED vars
  BY <1>1
  DEF vars, controller, history, IInv, Inv, TypeOK, HandshakeInv, CountInv,
      OwnReplies
<1> QED
  BY <1>1, InternalStopInv, EnableRefusedInv, EnableSucceedsInv, EnableFailsInv,
     SingleCommandInv, NodeRestartsInv, CheckReplyTimeoutsInv, ReceiveInv,
     ControllerHandlesInv, ControllerResetsInv, LoseReplyInv, TickInv
  DEF Next

-----------------------------------------------------------------------------
(* The theorems. *)

THEOREM Invariance == Spec => []IInv
BY InitInv, StepInv, PTL DEF Spec

(* Every value the handshake and the tracker take is one the node expects.  *)
THEOREM TypeCorrect == Spec => []TypeOK
<1>1. IInv => TypeOK
  BY DEF IInv, Inv
<1> QED
  BY <1>1, Invariance, PTL

(* A tracker that cannot assign replies neither waits for one nor reports   *)
(* one, whatever its timeout and however many frames are in flight.         *)
THEOREM UncertaintyShown == Spec => []UncertaintyIsShown
<1>1. IInv => UncertaintyIsShown
  BY DEF IInv, Inv, TrackerInv, UncertaintyIsShown
<1> QED
  BY <1>1, Invariance, PTL

(* remaining_ never wraps below zero. *)
THEOREM RemainingCounts == Spec => []RemainingInvariant
<1>1. IInv => RemainingInvariant
  BY DEF IInv, Inv, TrackerInv, RemainingInvariant
<1> QED
  BY <1>1, Invariance, PTL

(* With no control frame under way when the tracker is enabled, a command   *)
(* is acknowledged by its own replies only.                                 *)
THEOREM OwnRepliesAcknowledge == Spec => []AcknowledgedByOwnReplies
<1>1. IInv => AcknowledgedByOwnReplies
  <2> SUFFICES ASSUME IInv, clean_start, tracker.state = "acknowledged"
               PROVE  ~miscounted
    BY DEF AcknowledgedByOwnReplies
  <2> QED
    BY DEF IInv, Inv, TrackerInv, CountInv, OwnReplies
<1> QED
  BY <1>1, Invariance, PTL

(* Uncertainty ends only with the node. *)
THEOREM AmbiguityLasts == Spec => AmbiguityIsFinal
<1>1. IInv /\ [Next]_vars =>
        [tracker.uncertain => tracker'.uncertain \/ NodeRestarts]_vars
  <2> SUFFICES ASSUME IInv, Next, tracker.uncertain, ~NodeRestarts
               PROVE  tracker'.uncertain
    OBVIOUS
  <2>1. TypeOK /\ TrackerInv(tracker) /\ HandshakeInv /\ tracker.enabled
    BY DEF IInv, Inv, TrackerInv
  <2>2. 1 \in 1 .. MaxExpected /\ 3 \in 1 .. MaxExpected
    BY DEF MaxExpected
  <2>3. TrackerInv(Interrupt(tracker)) /\ Interrupt(tracker).uncertain
    BY <2>1, InterruptInv
  <2>4. CASE InternalStop \/ EnableRefused
    BY <2>1, <2>3, <2>4, TransmissionFailedInv DEF InternalStop, EnableRefused
  <2>5. CASE EnableSucceeds \/ EnableFails
    <3>1. TrackerInv(Begin(tracker, 3)) /\ Begin(tracker, 3).uncertain
      BY <2>1, <2>2, BeginInv
    <3> QED
      BY <2>5, <3>1, TransmissionFailedInv DEF EnableSucceeds, EnableFails
  <2>6. CASE SingleCommand
    <3>1. ASSUME NEW t, TrackerInv(t), t.uncertain
          PROVE  /\ Begin(t, 1).uncertain
                 /\ TransmissionFailed(Begin(t, 1)).uncertain
      BY <2>2, <3>1, BeginInv, TransmissionFailedInv
    <3> QED
      BY <2>1, <2>3, <2>6, <3>1 DEF SingleCommand
  <2>7. CASE CheckReplyTimeouts
    BY <2>1, <2>7, ExpireInv DEF CheckReplyTimeouts
  <2>8. CASE Receive
    <3> DEFINE reply == Head(replies)
    <3>1. TrackerInv(Expire(tracker)) /\ Expire(tracker).uncertain
      BY <2>1, ExpireInv
    <3>2. HandshakeChecked # "pending"
      BY <2>1, HandshakeCheckedType DEF HandshakeInv
    <3>3. tracker' = Observe(Expire(tracker), reply.object, reply.aborted)
      BY <2>8, <3>2 DEF Receive
    <3>4. reply.aborted \in BOOLEAN
      <4>1. replies \in Seq(Reply) /\ replies # <<>>
        BY <2>1, <2>8 DEF TypeOK, Receive
      <4>2. reply \in Reply
        BY <4>1, HeadTailProperties
      <4> QED
        BY <4>2 DEF Reply
    <3> HIDE DEF reply
    <3> QED
      BY <3>1, <3>3, <3>4, ObserveInv
  <2>9. CASE ControllerHandles \/ ControllerResets \/ LoseReply
    BY <2>9 DEF ControllerHandles, ControllerResets, LoseReply
  <2>10. CASE Tick
    BY <2>1, <2>10, AgedInv DEF Tick
  <2> QED
    BY <2>4, <2>5, <2>6, <2>7, <2>8, <2>9, <2>10 DEF Next
<1> QED
  BY <1>1, Invariance, PTL DEF Spec, AmbiguityIsFinal

=============================================================================
