------------------------ MODULE ChatTransportProofs -------------------------
(***************************************************************************)
(* Proofs about ChatTransport, for any number of messages, any retry limit *)
(* and any buffer limit, and about the envelopes it sends (Envelope), for  *)
(* all inputs.                                                             *)
(***************************************************************************)
EXTENDS ChatTransport, Envelope, FiniteSetTheorems, WellFoundedInduction, TLAPS

-----------------------------------------------------------------------------
\* A non-empty set of naturals has a least element.
LEMMA Least ==
  ASSUME NEW R \in SUBSET Nat, R # {}
  PROVE  \E m \in R : \A x \in R : m <= x
<1>1. PICK m \in R : \A y \in R : ~(<<y, m>> \in OpToRel(<, Nat))
  BY WFMin, NatLessThanWellFounded
<1>2. \A y \in R : ~(y < m)
  BY <1>1 DEF OpToRel
<1>. QED BY <1>2

\* Elements of the second part of a concatenation.
LEMMA ConcatAt ==
  ASSUME NEW S, NEW s \in Seq(S), NEW t \in Seq(S),
         NEW i \in (Len(s) + 1)..(Len(s) + Len(t))
  PROVE  (s \o t)[i] = t[i - Len(s)]
OBVIOUS

\* A sequence that counts is the counting function.
LEMMA CountingSeq ==
  ASSUME NEW S, NEW s \in Seq(S), NEW m \in Nat, Len(s) = m,
         \A i \in 1..m : s[i] = i
  PROVE  s = [i \in 1..m |-> i]
OBVIOUS

\* drainReceiveBuffer stops at a number of the model, at or after n, having
\* taken from the buffer exactly the run that continues n.
LEMMA DrainStops ==
  ASSUME TypeOK, NEW n \in Msgs
  PROVE  /\ DrainedUpTo(n) \in n..MaxMsgs
         /\ (n + 1)..DrainedUpTo(n) \subseteq buffer
         /\ DrainedUpTo(n) + 1 \notin buffer
<1> DEFINE R == {m \in n..MaxMsgs : m + 1 \notin buffer}
<1>1. MaxMsgs \in R
  BY MaxMsgsAssumption DEF Msgs, TypeOK, TypeReceiver
<1>2. R \in SUBSET Nat
  BY MaxMsgsAssumption DEF Msgs
<1>3. PICK m \in R : \A x \in R : m <= x
  BY <1>1, <1>2, Least
<1>4. (n + 1)..m \subseteq buffer
  <2> SUFFICES ASSUME NEW x \in (n + 1)..m PROVE x \in buffer
    OBVIOUS
  <2>1. x - 1 \in n..MaxMsgs /\ ~(m <= x - 1) /\ (x - 1) + 1 = x
    BY <1>2, <1>3, MaxMsgsAssumption DEF Msgs
  <2>2. x - 1 \notin R
    BY <1>3, <2>1
  <2>. QED BY <2>1, <2>2
<1>. QED BY <1>3, <1>4 DEF DrainedUpTo

\* Acknowledging some messages only adds to the counts of those messages.
LEMMA AcksType ==
  ASSUME TypeOK, NEW ns, SendAcks(ns)
  PROVE  /\ ackNet' \in [Msgs -> Nat]
         /\ \A n \in Msgs : ackNet'[n] > 0 => ackNet[n] > 0 \/ n \in ns
<1>1. CASE up
  BY <1>1 DEF SendAcks, TypeOK, TypeMedium
<1>2. CASE ~up
  BY <1>2 DEF SendAcks, TypeOK, TypeMedium
<1>. QED BY <1>1, <1>2

-----------------------------------------------------------------------------
\* Every goroutine is somewhere.
LEMMA PcStep ==
  ASSUME TypeOK, [Next]_vars
  PROVE  pc' \in [Goroutines -> {"idle", "looked", "writing", "failed", "clear", "read", "ended"}]
<1> USE DEF TypeOK, TypeSender, Goroutines
<1>1. ASSUME NEW c \in Goroutines, NEW to \in {"idle", "looked", "writing", "failed", "clear", "ended"},
             pc' = [pc EXCEPT ![c] = to]
      PROVE  pc' \in [Goroutines -> {"idle", "looked", "writing", "failed", "clear", "read", "ended"}]
  BY <1>1
<1>2. ASSUME NEW c \in Callers, Send(c)
      PROVE  \E to \in {"idle", "looked", "writing", "failed", "clear", "ended"} :
               pc' = [pc EXCEPT ![c] = to]
  BY <1>2 DEF Send, SendLookup, SendTrack, SendTooBig, SendWrite, SendWriteFails, At, AfterFailure
<1>3. ASSUME NEW c \in Goroutines, Forgetting(c)
      PROVE  \E to \in {"idle", "looked", "writing", "failed", "clear", "ended"} :
               pc' = [pc EXCEPT ![c] = to]
  BY <1>3 DEF Forgetting, ForgetPeer, ClearPending, At
<1>4. CASE UNCHANGED pc
  BY <1>4
<1>. QED BY <1>1, <1>2, <1>3, <1>4
  DEF Next, Retransmit, RetransmitSnapshot, RetransmitWrite, RetransmitSkip, RetransmitCommit,
      RecvAck, RecvChat, RecvBlank, RecvDuplicate, RecvOverflow, RecvEarly, RecvNext,
      RecvUnchanged, Lose, Break, vars, sender

\* The sender's variables keep their types.
LEMMA SenderStep ==
  ASSUME TypeOK, [Next]_vars PROVE TypeSender'
<1> DEFINE Rest == /\ sendSeq \in 0..MaxMsgs /\ sending \in 0..MaxMsgs
                   /\ kind \in [Msgs -> Kinds \cup {"none", "late"}]
                   /\ attempts \in [Msgs -> 0..maxPendingRetries]
                   /\ refused \subseteq Msgs /\ acked \subseteq Msgs
                   /\ writes \in [Msgs -> Nat]
                   /\ peer \in {"known", "forgotten"}
<1> SUFFICES Rest'
  BY PcStep DEF TypeSender
<1> USE MaxMsgsAssumption, LimitsAssumption, KindsAssumption DEF TypeOK, TypeSender
<1>1. ASSUME NEW c \in Callers, NEW k \in Kinds, SendTrack(c, k) PROVE Rest'
  BY <1>1 DEF SendTrack, Assign, Msgs
<1>2. ASSUME NEW c \in Callers, NEW k \in Kinds, SendTooBig(c, k) PROVE Rest'
  BY <1>2 DEF SendTooBig, Assign, Msgs
<1>3. ASSUME NEW c \in Callers, SendWrite(c) PROVE Rest'
  <2>1. /\ UNCHANGED <<sendSeq, kind, refused, attempts, peer, acked>> /\ sending' = 0
        /\ writes' = [writes EXCEPT ![sending] = @ + 1] /\ sending \in Msgs
    BY <1>3 DEF SendWrite, Msgs
  <2>. QED BY <2>1
<1>4. ASSUME NEW c \in Callers, SendWriteFails(c) PROVE Rest'
  <2>1. sending \in Msgs
    BY <1>4 DEF SendWriteFails, Msgs
  <2>. QED BY <1>4, <2>1 DEF SendWriteFails
<1>5. ASSUME NEW n \in due, RetransmitWrite(n) PROVE Rest'
  BY <1>5 DEF RetransmitWrite, sender, TypeRetransmit
<1>6. CASE RetransmitCommit
  <2>1. rtx \in Msgs
    BY <1>6 DEF RetransmitCommit, TypeRetransmit, Msgs
  <2>2. attempts' \in [Msgs -> 0..maxPendingRetries]
    BY <1>6, <2>1 DEF RetransmitCommit, GiveUp
  <2>. QED BY <1>6, <2>2 DEF RetransmitCommit, sender
<1>7. ASSUME NEW c \in Goroutines, Forgetting(c) PROVE Rest'
  BY <1>7 DEF Forgetting, ForgetPeer, ClearPending, sender
<1>8. ASSUME NEW n \in Msgs, RecvAck(n) PROVE Rest'
  BY <1>8 DEF RecvAck, sender
<1>9. CASE UNCHANGED <<sendSeq, kind, sending, refused, attempts, acked, writes, peer>>
  BY <1>9
<1>. QED
  BY <1>1, <1>2, <1>3, <1>4, <1>5, <1>6, <1>7, <1>8, <1>9
  DEF Next, Send, SendLookup, Retransmit, RetransmitSnapshot, RetransmitSkip, RecvChat,
      RecvBlank, RecvDuplicate, RecvOverflow, RecvEarly, RecvNext,
      RecvUnchanged, Lose, Break, vars, sender

\* The retransmission pass keeps its types.
LEMMA RetransmitStep ==
  ASSUME TypeOK, [Next]_vars PROVE TypeRetransmit'
<1> USE MaxMsgsAssumption DEF TypeOK, TypeRetransmit
<1>1. ASSUME NEW S \in SUBSET Pending, RetransmitSnapshot(S) PROVE TypeRetransmit'
  BY <1>1 DEF RetransmitSnapshot, Pending
<1>2. ASSUME NEW n \in due, RetransmitWrite(n) PROVE TypeRetransmit'
  BY <1>2 DEF RetransmitWrite, Msgs
<1>3. ASSUME NEW n \in due, RetransmitSkip(n) PROVE TypeRetransmit'
  BY <1>3 DEF RetransmitSkip
<1>4. CASE RetransmitCommit
  <2>1. rtx \in Msgs
    BY <1>4 DEF RetransmitCommit, Msgs
  <2>2. reported' \subseteq reported \cup {rtx} /\ due' = due
    BY <1>4 DEF RetransmitCommit
  <2>3. rtx' = 0 /\ rtxErr' = "ok"
    BY <1>4 DEF RetransmitCommit
  <2>. QED BY <2>1, <2>2, <2>3
<1>5. CASE UNCHANGED retrans
  BY <1>5 DEF retrans
<1>. QED
  BY <1>1, <1>2, <1>3, <1>4, <1>5
  DEF Next, Send, Retransmit, SendLookup, SendTrack, SendTooBig, SendWrite, SendWriteFails,
      Forgetting, ForgetPeer, ClearPending, RecvAck, RecvChat, RecvBlank, RecvDuplicate, RecvOverflow,
      RecvEarly, RecvNext, RecvUnchanged, Lose, Break, vars

\* What the handler of the next number delivers.
LEMMA NextDelivers ==
  ASSUME TypeOK, NEW n \in Msgs, RecvNext(n)
  PROVE  /\ DrainedUpTo(n) \in n..MaxMsgs /\ n = recvSeq + 1
         /\ recvSeq' = DrainedUpTo(n)
         /\ [i \in 1..(recvSeq' - recvSeq) |-> recvSeq + i] \in Seq(Msgs)
         /\ delivered' = delivered \o [i \in 1..(recvSeq' - recvSeq) |-> recvSeq + i]
<1>1. /\ DrainedUpTo(n) \in n..MaxMsgs /\ n = recvSeq + 1 /\ recvSeq \in Nat
      /\ recvSeq' = DrainedUpTo(n)
  BY DrainStops DEF RecvNext, TypeOK, TypeReceiver
<1>2. [i \in 1..(recvSeq' - recvSeq) |-> recvSeq + i] \in Seq(Msgs)
  BY <1>1, MaxMsgsAssumption DEF Msgs
<1>3. delivered' = delivered \o [i \in 1..(recvSeq' - recvSeq) |-> recvSeq + i]
  BY <1>1 DEF RecvNext
<1>. QED BY <1>1, <1>2, <1>3

\* The only steps that touch the receiver are the two that take a frame in.
LEMMA ReceiverFrame ==
  ASSUME [Next]_vars
  PROVE  UNCHANGED receiver \/ \E n \in Msgs : RecvEarly(n) \/ RecvNext(n)
BY DEF Next, Send, Retransmit, SendLookup, SendTrack, SendTooBig, SendWrite, SendWriteFails,
       RetransmitSnapshot, RetransmitWrite, RetransmitSkip, RetransmitCommit,
       Forgetting, ForgetPeer, ClearPending, RecvAck, RecvChat, RecvBlank, RecvDuplicate, RecvOverflow,
       Lose, Break, vars

\* Every step keeps the types of the receiver.
LEMMA ReceiverStep ==
  ASSUME TypeOK, [Next]_vars PROVE TypeReceiver'
<1>1. ASSUME NEW n \in Msgs, RecvEarly(n) PROVE TypeReceiver'
  BY <1>1 DEF RecvEarly, TypeOK, TypeReceiver
<1>2. ASSUME NEW n \in Msgs, RecvNext(n) PROVE TypeReceiver'
  <2> DEFINE run == [i \in 1..(recvSeq' - recvSeq) |-> recvSeq + i]
  <2>1. /\ DrainedUpTo(n) \in n..MaxMsgs /\ recvSeq' = DrainedUpTo(n)
        /\ run \in Seq(Msgs) /\ delivered' = delivered \o run
    BY <1>2, NextDelivers
  <2> HIDE DEF run
  <2>2. delivered' \in Seq(Msgs)
    BY <2>1 DEF TypeOK, TypeReceiver
  <2>3. recvSeq' \in 0..MaxMsgs
    BY <2>1, MaxMsgsAssumption DEF Msgs
  <2>4. buffer' \subseteq Msgs
    BY <1>2 DEF RecvNext, TypeOK, TypeReceiver
  <2>. QED BY <2>2, <2>3, <2>4 DEF TypeReceiver
<1>3. CASE UNCHANGED receiver
  BY <1>3 DEF receiver, TypeOK, TypeReceiver
<1>. QED BY <1>1, <1>2, <1>3, ReceiverFrame

\* The bags of frames stay bags.
LEMMA MediumStep ==
  ASSUME TypeOK, [Next]_vars PROVE TypeMedium'
<1> USE MaxMsgsAssumption DEF TypeOK, TypeMedium
<1>1. ASSUME NEW c \in Callers, SendWrite(c) PROVE TypeMedium'
  <2>1. sending \in Msgs
    BY <1>1 DEF SendWrite, TypeSender, Msgs
  <2>. QED BY <1>1, <2>1 DEF SendWrite
<1>2. ASSUME NEW n \in due, RetransmitWrite(n) PROVE TypeMedium'
  BY <1>2 DEF RetransmitWrite, TypeRetransmit
<1>3. ASSUME NEW n \in Msgs, RecvAck(n) PROVE TypeMedium'
  BY <1>3 DEF RecvAck
<1>4. ASSUME NEW n \in Msgs, RecvChat(n) PROVE TypeMedium'
  <2>1. chatNet' \in [Msgs -> Nat] /\ UNCHANGED <<link, losses>>
    BY <1>4 DEF RecvChat, RecvBlank, RecvDuplicate, RecvOverflow, RecvEarly,
                RecvNext, Arrive, RecvUnchanged
  <2>2. ackNet' \in [Msgs -> Nat]
    BY <1>4, AcksType DEF RecvChat, RecvBlank, RecvDuplicate, RecvOverflow,
                          RecvEarly, RecvNext
  <2>. QED BY <2>1, <2>2
<1>5. ASSUME NEW n \in Msgs, Lose(n) PROVE TypeMedium'
  BY <1>5 DEF Lose, Arrive
<1>6. CASE Break
  BY <1>6 DEF Break
<1>7. CASE UNCHANGED <<chatNet, ackNet, link, losses>>
  BY <1>7
<1>. QED
  BY <1>1, <1>2, <1>3, <1>4, <1>5, <1>6, <1>7
  DEF Next, Send, Retransmit, SendLookup, SendTrack, SendTooBig, SendWriteFails, Forgetting, ForgetPeer, ClearPending,
      RetransmitSnapshot, RetransmitSkip, RetransmitCommit, vars

\* Every variable keeps its type; in particular a pending entry never counts
\* more attempts than maxPendingRetries (retransmitDue).
THEOREM TypeCorrect == Spec => []TypeOK
<1>1. Init => TypeOK
  BY MaxMsgsAssumption, LimitsAssumption
  DEF Init, TypeOK, TypeSender, TypeRetransmit, TypeReceiver, TypeMedium, Msgs
<1>2. TypeOK /\ [Next]_vars => TypeOK'
  BY SenderStep, RetransmitStep, ReceiverStep, MediumStep DEF TypeOK
<1>. QED BY <1>1, <1>2, PTL DEF Spec

-----------------------------------------------------------------------------
(* The receiver's half of the invariant.                                   *)

\* Nothing exists yet of a message whose number was not assigned.
Unused(n) == /\ attempts[n] = 0 /\ chatNet[n] = 0 /\ writes[n] = 0
             /\ n \notin due /\ n \notin refused /\ n \notin reported /\ n \notin acked

Fresh ==
  /\ recvSeq <= sendSeq
  /\ sending <= sendSeq
  /\ rtx <= sendSeq
  /\ \A n \in Msgs : n > sendSeq => Unused(n)

\* What the receiver holds it keeps, through every step.
LEMMA KeptForever ==
  ASSUME TypeOK, TypeOK', [Next]_vars, NEW x \in Msgs, Kept(x)
  PROVE  Kept(x)'
<1>1. ASSUME NEW n \in Msgs, RecvEarly(n) PROVE Kept(x)'
  BY <1>1 DEF RecvEarly, Kept
<1>2. ASSUME NEW n \in Msgs, RecvNext(n) PROVE Kept(x)'
  <2>1. /\ recvSeq' = DrainedUpTo(n) /\ DrainedUpTo(n) \in n..MaxMsgs
        /\ n = recvSeq + 1
    BY <1>2, NextDelivers
  <2>2. buffer' = buffer \ (n..recvSeq')
    BY <1>2, <2>1 DEF RecvNext
  <2>3. x \in Nat /\ recvSeq \in Nat /\ n \in Nat /\ recvSeq' \in Nat
    BY DEF TypeOK, TypeReceiver, Msgs
  <2>. QED BY <2>1, <2>2, <2>3 DEF Kept
<1>3. CASE UNCHANGED receiver
  BY <1>3 DEF receiver, Kept
<1>. QED BY <1>1, <1>2, <1>3, ReceiverFrame

\* In-order delivery and the buffer: handleEnvelope and drainReceiveBuffer.
LEMMA ReceiverInv ==
  ASSUME TypeOK, TypeOK', Fresh, ExactlyOnceInOrder, BufferSound, [Next]_vars
  PROVE  ExactlyOnceInOrder' /\ BufferSound' /\ recvSeq' <= sendSeq'
<1> USE MaxMsgsAssumption, LimitsAssumption
<1>1. /\ sendSeq \in Nat /\ sendSeq' \in Nat /\ sendSeq <= sendSeq'
      /\ recvSeq \in Nat /\ recvSeq' \in Nat
  <2>1. /\ sendSeq \in Nat /\ sendSeq' \in Nat /\ recvSeq \in Nat /\ recvSeq' \in Nat
    BY DEF TypeOK, TypeSender, TypeReceiver
  <2>2. sendSeq' = sendSeq \/ sendSeq' = sendSeq + 1
    BY DEF Next, Send, Retransmit, SendLookup, SendTrack, SendTooBig, Assign, SendWrite,
           SendWriteFails, RetransmitSnapshot, RetransmitWrite, RetransmitSkip,
           RetransmitCommit, Forgetting, ForgetPeer, ClearPending, RecvAck, RecvChat, RecvBlank,
           RecvDuplicate, RecvOverflow, RecvEarly, RecvNext, RecvUnchanged,
           Lose, Break, vars, sender
  <2>. QED BY <2>1, <2>2
<1>2. buffer \subseteq Msgs /\ IsFiniteSet(buffer) /\ Cardinality(buffer) \in Nat
  <2>1. IsFiniteSet(Msgs)
    BY FS_Interval DEF Msgs
  <2>. QED BY <2>1, FS_Subset, FS_CardinalityType DEF TypeOK, TypeReceiver
<1>3. CASE UNCHANGED receiver
  BY <1>1, <1>2, <1>3
  DEF receiver, ExactlyOnceInOrder, BufferSound, Fresh, Msgs
<1>4. ASSUME NEW n \in Msgs, RecvEarly(n)
      PROVE  ExactlyOnceInOrder' /\ BufferSound' /\ recvSeq' <= sendSeq'
  <2>1. /\ recvSeq' = recvSeq /\ delivered' = delivered /\ sendSeq' = sendSeq
        /\ buffer' = buffer \cup {n} /\ n > recvSeq + 1 /\ chatNet[n] > 0
        /\ Cardinality(buffer) < maxReceiveBuffer
    BY <1>4 DEF RecvEarly, RecvUnchanged, sender, Arrive
  <2>2. n <= sendSeq
    BY <1>1, <2>1 DEF Fresh, Unused, Msgs
  <2>3. Cardinality(buffer') <= maxReceiveBuffer
    <3>1. Cardinality(buffer \cup {n}) =
            IF n \in buffer THEN Cardinality(buffer) ELSE Cardinality(buffer) + 1
      BY <1>2, FS_AddElement, Zenon
    <3>. QED BY <1>2, <2>1, <3>1
  <2>. QED BY <2>1, <2>2, <2>3 DEF ExactlyOnceInOrder, BufferSound, Fresh
<1>5. ASSUME NEW n \in Msgs, RecvNext(n)
      PROVE  ExactlyOnceInOrder' /\ BufferSound' /\ recvSeq' <= sendSeq'
  <2>1. PICK top \in Nat : /\ top \in n..MaxMsgs /\ n = recvSeq + 1
                           /\ recvSeq' = top /\ top = DrainedUpTo(n)
    <3>1. DrainedUpTo(n) \in Nat
      <4>1. DrainedUpTo(n) \in n..MaxMsgs
        BY DrainStops
      <4>. QED BY <4>1 DEF Msgs
    <3>. QED BY <1>5, <3>1, NextDelivers
  <2> DEFINE run == [i \in 1..(top - recvSeq) |-> recvSeq + i]
  <2>2. run \in Seq(Msgs) /\ delivered' = delivered \o run
    BY <1>5, <2>1, NextDelivers
  <2>3. /\ (n + 1)..top \subseteq buffer /\ top + 1 \notin buffer
    BY <2>1, DrainStops
  <2>4. /\ sendSeq' = sendSeq /\ chatNet[n] > 0 /\ buffer' = buffer \ (n..top)
    BY <1>5, <2>1 DEF RecvNext, RecvUnchanged, sender, Arrive
  <2>5. n <= sendSeq
    BY <1>1, <2>4 DEF Fresh, Unused, Msgs
  <2>6. top <= sendSeq
    <3>1. CASE top = n
      BY <2>5, <3>1
    <3>2. CASE top # n
      <4>1. top \in (n + 1)..top
        BY <2>1, <3>2 DEF Msgs
      <4>. QED BY <2>3, <4>1 DEF BufferSound
    <3>. QED BY <3>1, <3>2
  <2>7. ExactlyOnceInOrder'
    <3>1. Len(delivered) = recvSeq /\ delivered \in Seq(Msgs)
      BY <1>1 DEF ExactlyOnceInOrder, TypeOK, TypeReceiver
    <3>2. Len(run) = top - recvSeq
      BY <1>1, <2>1 DEF Msgs
    <3>3. Len(delivered \o run) = top /\ delivered \o run \in Seq(Msgs)
      BY <1>1, <2>1, <2>2, <3>1, <3>2
    <3>4. \A i \in 1..top : (delivered \o run)[i] = i
      <4> SUFFICES ASSUME NEW i \in 1..top PROVE (delivered \o run)[i] = i
        OBVIOUS
      <4>1. CASE i <= recvSeq
        BY <1>1, <2>1, <2>2, <3>1, <4>1 DEF ExactlyOnceInOrder
      <4>2. CASE i > recvSeq
        <5>1. i - recvSeq \in 1..(top - recvSeq)
          BY <1>1, <4>2
        <5>2. run[i - recvSeq] = recvSeq + (i - recvSeq)
          BY <5>1
        <5>3. (delivered \o run)[i] = run[i - recvSeq]
          <6> HIDE DEF run
          <6>1. i \in (Len(delivered) + 1)..(Len(delivered) + Len(run))
            BY <1>1, <3>1, <3>2, <4>2
          <6>2. (delivered \o run)[i] = run[i - Len(delivered)]
            BY <2>2, <3>1, <6>1, ConcatAt
          <6>. QED BY <3>1, <6>2
        <5>4. recvSeq + (i - recvSeq) = i
          BY <1>1
        <5>. QED BY <5>2, <5>3, <5>4
      <4>3. i <= recvSeq \/ i > recvSeq
        BY <1>1
      <4>. QED BY <4>1, <4>2, <4>3
    <3>5. delivered \o run = [i \in 1..top |-> i]
      <4> HIDE DEF run
      <4>. QED BY <3>3, <3>4, CountingSeq
    <3>. QED BY <2>1, <2>2, <3>5 DEF ExactlyOnceInOrder
  <2>8. ASSUME NEW x \in buffer, x \notin n..top PROVE x > top + 1 /\ x <= sendSeq
    <3>1. x \in Nat /\ x > n /\ x <= sendSeq
      BY <1>2, <2>1, <2>8 DEF BufferSound, Msgs
    <3>2. x # top + 1
      BY <2>3, <2>8
    <3>3. x > top
      BY <2>1, <2>8, <3>1 DEF Msgs
    <3>. QED BY <3>1, <3>2, <3>3
  <2>9. Cardinality(buffer') <= maxReceiveBuffer
    <3>1. buffer' \subseteq buffer
      BY <2>4
    <3>2. Cardinality(buffer') <= Cardinality(buffer) /\ Cardinality(buffer') \in Nat
      BY <1>2, <3>1, FS_Subset, FS_CardinalityType
    <3>. QED BY <1>2, <3>2 DEF BufferSound
  <2>. QED BY <2>1, <2>4, <2>6, <2>7, <2>8, <2>9 DEF BufferSound
<1>. QED BY <1>3, <1>4, <1>5, ReceiverFrame

\* Only what the receiver holds is acknowledged.
LEMMA AckInv ==
  ASSUME TypeOK, TypeOK', AckMeansKept, [Next]_vars
  PROVE  AckMeansKept'
<1>1. \A x \in Msgs : Kept(x) => Kept(x)'
  BY KeptForever
<1>2. ASSUME NEW n \in Msgs, NEW ns, SendAcks(ns), UNCHANGED acked,
             \A x \in Msgs : x \in ns => Kept(x)'
      PROVE  AckMeansKept'
  <2>1. \A x \in Msgs : ackNet'[x] > 0 => ackNet[x] > 0 \/ x \in ns
    BY <1>2, AcksType
  <2>. QED BY <1>1, <1>2, <2>1 DEF AckMeansKept
<1>3. ASSUME NEW n \in Msgs, RecvChat(n) PROVE AckMeansKept'
  <2>1. UNCHANGED acked
    BY <1>3 DEF RecvChat, RecvBlank, RecvDuplicate, RecvOverflow, RecvEarly,
                RecvNext, RecvUnchanged
  <2>2. CASE RecvBlank(n) \/ RecvOverflow(n)
    BY <1>1, <2>1, <2>2 DEF RecvBlank, RecvOverflow, AckMeansKept
  <2>3. CASE RecvDuplicate(n) \/ RecvEarly(n)
    <3>1. SendAcks({n}) /\ Kept(n)'
      BY <2>3 DEF RecvDuplicate, RecvEarly, Kept, receiver
    <3>. QED BY <1>2, <2>1, <3>1
  <2>4. CASE RecvNext(n)
    <3>1. SendAcks(n..recvSeq')
      BY <2>4 DEF RecvNext
    <3>2. \A x \in Msgs : x \in n..recvSeq' => Kept(x)'
      BY DEF Kept
    <3>. QED BY <1>2, <2>1, <3>1, <3>2
  <2>. QED BY <1>3, <2>2, <2>3, <2>4 DEF RecvChat
<1>4. ASSUME NEW n \in Msgs, RecvAck(n) PROVE AckMeansKept'
  <2>1. \A x \in Msgs : ackNet'[x] > 0 => ackNet[x] > 0
    BY <1>4 DEF RecvAck, TypeOK, TypeMedium
  <2>2. \A x \in acked' : x \in acked \/ ackNet[x] > 0
    BY <1>4 DEF RecvAck
  <2>. QED BY <1>1, <2>1, <2>2 DEF AckMeansKept
<1>5. ASSUME NEW n \in Msgs, Lose(n) PROVE AckMeansKept'
  <2>1. \A x \in Msgs : ackNet'[x] > 0 => ackNet[x] > 0
    BY <1>5 DEF Lose, TypeOK, TypeMedium
  <2>2. acked' = acked
    BY <1>5 DEF Lose
  <2>. QED BY <1>1, <2>1, <2>2 DEF AckMeansKept
<1>6. CASE UNCHANGED <<ackNet, acked>>
  BY <1>1, <1>6 DEF AckMeansKept
<1>. QED
  BY <1>3, <1>4, <1>5, <1>6
  DEF Next, Send, Retransmit, SendLookup, SendTrack, SendTooBig, SendWrite, SendWriteFails,
      RetransmitSnapshot, RetransmitWrite, RetransmitSkip, RetransmitCommit,
      Forgetting, ForgetPeer, ClearPending, Break, vars

-----------------------------------------------------------------------------
(* The sender's half of the invariant.                                     *)

One(b) == IF b THEN 1 ELSE 0

\* The writes of n so far, and the copies sendChat and the pass still hold,
\* stay within the limit; while n is tracked its attempts cover its writes.
Bounded(n) == writes[n] + One(sending = n) + One(n \in due) <= maxPendingRetries + 1
Covered(n) == writes[n] + One(sending = n) <= attempts[n] + One(rtx = n)

WriteInv == /\ \A n \in due : n # rtx
            /\ \A n \in Msgs : Bounded(n) /\ (attempts[n] > 0 => Covered(n))

\* Pending entries are only cleared once the peer is out of the maps.
Clears == \A c \in Goroutines : pc[c] = "clear" => ~registered

SInv == NoSilentDrop /\ OneOutcome /\ Clears

\* Every step keeps Fresh; recvSeq's part comes from the receiver.
LEMMA FreshStep ==
  ASSUME TypeOK, Fresh, recvSeq' <= sendSeq', [Next]_vars
  PROVE  Fresh'
<1>1. /\ sendSeq \in Nat /\ sending \in Nat /\ rtx \in Nat
      /\ sending <= sendSeq /\ rtx <= sendSeq
      /\ sending # 0 => sending \in Msgs
      /\ rtx # 0 => rtx \in Msgs
      /\ due \subseteq Msgs
  BY MaxMsgsAssumption DEF TypeOK, TypeSender, TypeRetransmit, Fresh, Msgs
<1>2. \A x \in Msgs : x \in Nat /\ (x > sendSeq => Unused(x) /\ x # sending /\ x # rtx)
  BY <1>1 DEF Fresh, Msgs
<1>3. \A x \in due : x <= sendSeq
  BY <1>1, <1>2 DEF Unused
\* It is enough that the numbers not assigned after the step stay unused.
<1>4. ASSUME sendSeq' = sendSeq \/ sendSeq' = sendSeq + 1,
             sending' \in {0, sending, sendSeq'}, rtx' = 0 \/ rtx' = rtx \/ rtx' \in due,
             \A x \in Msgs : (x > sendSeq /\ x # sendSeq') => Unused(x)'
      PROVE  Fresh'
  BY <1>1, <1>2, <1>3, <1>4 DEF Fresh
<1>5. ASSUME NEW c \in Callers, NEW k \in Kinds, SendTrack(c, k) PROVE Fresh'
  BY <1>1, <1>2, <1>4, <1>5 DEF SendTrack, Assign, retrans, Unused, TypeOK, TypeSender
<1>6. ASSUME NEW c \in Callers, NEW k \in Kinds, SendTooBig(c, k)
      PROVE  Fresh'
  BY <1>1, <1>2, <1>4, <1>6 DEF SendTooBig, AfterFailure, Assign, retrans, Unused
<1>7. ASSUME NEW c \in Callers, SendWrite(c) PROVE Fresh'
  <2>1. \A x \in Msgs : x > sendSeq => chatNet'[x] = chatNet[x] /\ writes'[x] = writes[x]
    BY <1>1, <1>2, <1>7 DEF SendWrite, TypeOK, TypeSender, TypeMedium
  <2>. QED BY <1>2, <1>4, <1>7, <2>1 DEF SendWrite, retrans, Unused
<1>8. ASSUME NEW c \in Callers, SendWriteFails(c) PROVE Fresh'
  <2>1. \A x \in Msgs : x > sendSeq => attempts'[x] = 0 /\ (x \in refused' => x \in refused)
    BY <1>1, <1>2, <1>8 DEF SendWriteFails, TypeOK, TypeSender, Unused
  <2>. QED BY <1>2, <1>4, <1>8, <2>1 DEF SendWriteFails, retrans, Unused
<1>9. ASSUME NEW S \in SUBSET Pending, RetransmitSnapshot(S) PROVE Fresh'
  <2>1. \A x \in Msgs : x > sendSeq => x \notin due'
    BY <1>2, <1>9 DEF RetransmitSnapshot, Pending, Unused
  <2>. QED BY <1>2, <1>4, <1>9, <2>1 DEF RetransmitSnapshot, sender, Unused
<1>10. ASSUME NEW n \in due, RetransmitWrite(n) PROVE Fresh'
  <2>1. \A x \in Msgs : x > sendSeq => chatNet'[x] = chatNet[x] /\ writes'[x] = writes[x]
    BY <1>1, <1>3, <1>10 DEF RetransmitWrite, TypeOK, TypeSender, TypeMedium, Msgs
  <2>. QED BY <1>2, <1>4, <1>10, <2>1 DEF RetransmitWrite, sender, Unused
<1>11. ASSUME NEW n \in due, RetransmitSkip(n) PROVE Fresh'
  BY <1>2, <1>4, <1>11 DEF RetransmitSkip, sender, Unused
<1>12. CASE RetransmitCommit
  <2>1. \A x \in Msgs : x > sendSeq => attempts'[x] = attempts[x] /\ (x \in reported' => x \in reported)
    BY <1>1, <1>2, <1>12 DEF RetransmitCommit, TypeOK, TypeSender
  <2>. QED BY <1>2, <1>4, <1>12, <2>1 DEF RetransmitCommit, sender, Unused
<1>13. ASSUME NEW c \in Goroutines, Forgetting(c) PROVE Fresh'
  BY <1>2, <1>4, <1>13 DEF Forgetting, ForgetPeer, ClearPending, sender, retrans, Unused
<1>14. CASE Break \/ \E c \in Callers : SendLookup(c)
  BY <1>2, <1>4, <1>14 DEF Break, SendLookup, sender, retrans, Unused
<1>15. ASSUME NEW n \in Msgs, RecvAck(n) PROVE Fresh'
  <2>1. \A x \in Msgs : x > sendSeq => attempts'[x] = 0 /\ (x \in acked' => x \in acked)
    BY <1>2, <1>15 DEF RecvAck, TypeOK, TypeSender, Unused
  <2>. QED BY <1>2, <1>4, <1>15, <2>1 DEF RecvAck, sender, retrans, Unused
<1>16. ASSUME NEW n \in Msgs, RecvChat(n) PROVE Fresh'
  <2>1. Arrive(n) /\ RecvUnchanged
    BY <1>16 DEF RecvChat, RecvBlank, RecvDuplicate, RecvOverflow, RecvEarly, RecvNext
  <2>2. \A x \in Msgs : x > sendSeq => chatNet'[x] = 0
    BY <1>2, <2>1 DEF Arrive, TypeOK, TypeMedium, Unused
  <2>. QED BY <1>2, <1>4, <2>1, <2>2 DEF RecvUnchanged, sender, retrans, Unused
<1>17. ASSUME NEW n \in Msgs, Lose(n) PROVE Fresh'
  <2>1. \A x \in Msgs : x > sendSeq => chatNet'[x] = 0
    BY <1>2, <1>17 DEF Lose, Arrive, TypeOK, TypeMedium, Unused
  <2>. QED BY <1>2, <1>4, <1>17, <2>1 DEF Lose, sender, retrans, Unused
<1>18. CASE UNCHANGED vars
  BY <1>2, <1>4, <1>18 DEF vars, sender, retrans, Unused
<1>. QED BY <1>5, <1>6, <1>7, <1>8, <1>9, <1>10, <1>11, <1>12, <1>13, <1>14,
            <1>15, <1>16, <1>17, <1>18 DEF Next, Send, Retransmit

\* retransmitDue against acknowledgements, failures and a blocked sendChat:
\* the bound on the writes of a message.
LEMMA WriteStep ==
  ASSUME TypeOK, Fresh, WriteInv, [Next]_vars
  PROVE  WriteInv'
<1> USE LimitsAssumption
<1>1. /\ \A x \in Msgs : attempts[x] \in 0..maxPendingRetries /\ writes[x] \in Nat
      /\ attempts \in [Msgs -> 0..maxPendingRetries] /\ writes \in [Msgs -> Nat]
      /\ due \subseteq Msgs /\ sending \in Nat /\ rtx \in Nat /\ 0 \notin Msgs
      /\ sending # 0 => sending \in Msgs
      /\ rtx # 0 => rtx \in Msgs
  BY MaxMsgsAssumption DEF TypeOK, TypeSender, TypeRetransmit, Msgs
\* Ending the tracking of some messages disturbs nothing.
<1>2. ASSUME \A x \in Msgs : attempts'[x] = 0 \/ attempts'[x] = attempts[x],
             sending' = sending \/ sending' = 0,
             UNCHANGED <<due, rtx, writes>>
      PROVE  WriteInv'
  BY <1>1, <1>2 DEF WriteInv, Bounded, Covered, One
<1>3. ASSUME NEW c \in Callers, NEW k \in Kinds, SendTrack(c, k) PROVE WriteInv'
  <2> DEFINE n == sendSeq + 1
  <2>1. n \in Msgs /\ writes[n] = 0 /\ n \notin due /\ n # rtx
    BY <1>3, MaxMsgsAssumption
    DEF SendTrack, Assign, Fresh, Unused, Msgs, TypeOK, TypeSender, TypeRetransmit
  <2>2. /\ UNCHANGED <<due, rtx, writes>> /\ sending = 0 /\ sending' = n
        /\ attempts'[n] = 1
        /\ \A x \in Msgs : x # n => attempts'[x] = attempts[x]
    BY <1>1, <1>3, <2>1 DEF SendTrack, Assign, retrans
  <2> HIDE DEF n
  <2>3. ASSUME NEW x \in Msgs PROVE Bounded(x)' /\ (attempts'[x] > 0 => Covered(x)')
    <3>1. CASE x = n
      BY <1>1, <2>1, <2>2, <3>1 DEF Bounded, Covered, One
    <3>2. CASE x # n
      BY <1>1, <2>2, <3>2 DEF WriteInv, Bounded, Covered, One
    <3>. QED BY <3>1, <3>2
  <2>. QED BY <2>2, <2>3 DEF WriteInv
<1>4. ASSUME NEW c \in Callers, NEW k \in Kinds, SendTooBig(c, k)
      PROVE  WriteInv'
  BY <1>2, <1>4 DEF SendTooBig, AfterFailure, Assign, retrans
<1>5. ASSUME NEW c \in Callers, SendWrite(c) PROVE WriteInv'
  <2>1. /\ UNCHANGED <<due, rtx, attempts>> /\ sending' = 0 /\ sending \in Msgs
        /\ writes'[sending] = writes[sending] + 1
        /\ \A x \in Msgs : x # sending => writes'[x] = writes[x]
    BY <1>1, <1>5 DEF SendWrite, retrans
  <2>. QED BY <1>1, <2>1 DEF WriteInv, Bounded, Covered, One
<1>6. ASSUME NEW c \in Callers, SendWriteFails(c) PROVE WriteInv'
  BY <1>1, <1>2, <1>6 DEF SendWriteFails, retrans
<1>7. ASSUME NEW S \in SUBSET Pending, RetransmitSnapshot(S) PROVE WriteInv'
  <2>1. /\ UNCHANGED <<sending, rtx, attempts, writes>> /\ rtx = 0 /\ due = {}
        /\ due' \subseteq Msgs /\ \A x \in due' : attempts[x] > 0
    BY <1>7 DEF RetransmitSnapshot, Pending, sender
  <2>. QED BY <1>1, <2>1 DEF WriteInv, Bounded, Covered, One
<1>8. ASSUME NEW n \in due, RetransmitWrite(n) PROVE WriteInv'
  <2>1. /\ UNCHANGED <<sending, attempts>> /\ rtx = 0 /\ rtx' = n /\ due' = due \ {n}
        /\ writes'[n] = writes[n] + 1 \/ writes'[n] = writes[n]
        /\ \A x \in Msgs : x # n => writes'[x] = writes[x]
    BY <1>1, <1>8 DEF RetransmitWrite, sender
  <2>2. ASSUME NEW x \in Msgs PROVE Bounded(x)' /\ (attempts'[x] > 0 => Covered(x)')
    <3>1. CASE x = n
      BY <1>1, <1>8, <2>1, <3>1 DEF WriteInv, Bounded, Covered, One
    <3>2. CASE x # n
      BY <1>1, <2>1, <3>2 DEF WriteInv, Bounded, Covered, One
    <3>. QED BY <3>1, <3>2
  <2>. QED BY <2>1, <2>2 DEF WriteInv
<1>9. ASSUME NEW n \in due, RetransmitSkip(n) PROVE WriteInv'
  <2>1. UNCHANGED <<sending, rtx, attempts, writes>> /\ due' = due \ {n}
    BY <1>9 DEF RetransmitSkip, sender
  <2>. QED BY <1>1, <2>1 DEF WriteInv, Bounded, Covered, One
<1>10. CASE RetransmitCommit
  <2>1. /\ UNCHANGED <<sending, due, writes>> /\ rtx' = 0 /\ rtx \in Msgs
        /\ \A x \in Msgs : x # rtx => attempts'[x] = attempts[x]
        /\ attempts'[rtx] = 0 \/ attempts'[rtx] = attempts[rtx] + 1
    BY <1>1, <1>10 DEF RetransmitCommit, sender
  <2>2. ASSUME NEW x \in Msgs PROVE Bounded(x)' /\ (attempts'[x] > 0 => Covered(x)')
    <3>1. attempts'[x] = 0 \/ attempts[x] > 0
      BY <1>1, <1>10 DEF RetransmitCommit
    <3>2. CASE x = rtx
      BY <1>1, <2>1, <3>1, <3>2 DEF WriteInv, Bounded, Covered, One
    <3>3. CASE x # rtx
      BY <1>1, <2>1, <3>3 DEF WriteInv, Bounded, Covered, One
    <3>. QED BY <3>2, <3>3
  <2>. QED BY <1>1, <2>1, <2>2 DEF WriteInv
<1>11. ASSUME NEW c \in Goroutines, Forgetting(c) PROVE WriteInv'
  BY <1>2, <1>11 DEF Forgetting, ForgetPeer, ClearPending, sender, retrans
<1>12. ASSUME NEW n \in Msgs, RecvAck(n) PROVE WriteInv'
  BY <1>1, <1>2, <1>12 DEF RecvAck, sender, retrans
<1>13. CASE UNCHANGED <<sending, due, rtx, attempts, writes>>
  BY <1>2, <1>13
<1>. QED
  BY <1>3, <1>4, <1>5, <1>6, <1>7, <1>8, <1>9, <1>10, <1>11, <1>12, <1>13
  DEF Next, Send, SendLookup, Retransmit, RecvChat, RecvBlank, RecvDuplicate, RecvOverflow,
      RecvEarly, RecvNext, RecvUnchanged, Lose, Break, vars, sender, retrans

\* forgetPeer takes the maps before clearPending, and nothing brings the peer
\* back within a stream.
LEMMA ClearsStep ==
  ASSUME TypeOK, Clears, [Next]_vars
  PROVE  Clears'
<1> USE DEF Goroutines
<1>1. ASSUME NEW c \in Callers, Send(c) PROVE Clears'
  <2>1. /\ peer' = peer /\ pc \in [Goroutines -> {"idle", "looked", "writing", "failed", "clear", "read", "ended"}]
        /\ \E to \in {"idle", "looked", "writing", "failed"} : pc' = [pc EXCEPT ![c] = to]
    BY <1>1 DEF Send, SendLookup, SendTrack, SendTooBig, SendWrite, SendWriteFails, At,
                AfterFailure, TypeOK, TypeSender
  <2>. QED BY <2>1 DEF Clears, registered
<1>2. ASSUME NEW c \in Goroutines, ForgetPeer(c) PROVE Clears'
  BY <1>2 DEF ForgetPeer, Clears, registered
<1>3. ASSUME NEW c \in Goroutines, ClearPending(c) PROVE Clears'
  BY <1>3 DEF ClearPending, At, Clears, registered, TypeOK, TypeSender
<1>4. CASE UNCHANGED <<pc, peer>>
  BY <1>4 DEF Clears, registered
<1>. QED BY <1>1, <1>2, <1>3, <1>4
  DEF Next, Forgetting, Retransmit, RetransmitSnapshot, RetransmitWrite, RetransmitSkip,
      RetransmitCommit, RecvAck, RecvChat, RecvBlank, RecvDuplicate, RecvOverflow, RecvEarly,
      RecvNext, RecvUnchanged, Lose, Break, vars, sender

\* The sender's invariant, one step per action that can disturb it.
LEMMA SenderInv ==
  ASSUME TypeOK, Fresh, SInv, [Next]_vars
  PROVE  SInv'
<1>0. Clears'
  BY ClearsStep DEF SInv
<1> USE MaxMsgsAssumption, LimitsAssumption DEF TypeOK, TypeSender, TypeRetransmit, Msgs
<1>1. ASSUME NEW c \in Callers, NEW k \in Kinds, SendTrack(c, k) PROVE SInv'
  <2>1. NoSilentDrop'
    BY <1>1 DEF SendTrack, Assign, retrans, Fresh, Unused, SInv, NoSilentDrop, registered
  <2>2. OneOutcome'
    BY <1>1 DEF SendTrack, Assign, retrans, Fresh, Unused, SInv, OneOutcome, Pending
  <2>. QED BY <1>0, <2>1, <2>2 DEF SInv
<1>2. ASSUME NEW c \in Callers, NEW k \in Kinds, SendTooBig(c, k)
      PROVE  SInv'
  <2>1. NoSilentDrop'
    BY <1>2 DEF SendTooBig, AfterFailure, Assign, retrans, SInv,
                NoSilentDrop, registered
  <2>2. OneOutcome'
    BY <1>2 DEF SendTooBig, AfterFailure, Assign, retrans, Fresh, Unused, SInv,
                OneOutcome, Pending
  <2>. QED BY <1>0, <2>1, <2>2 DEF SInv
<1>3. ASSUME NEW c \in Callers, SendWrite(c) PROVE SInv'
  <2>1. NoSilentDrop' /\ OneOutcome'
    BY <1>3 DEF SendWrite, retrans, SInv, NoSilentDrop, registered, OneOutcome, Pending
  <2>. QED BY <1>0, <2>1 DEF SInv
<1>4. ASSUME NEW c \in Callers, SendWriteFails(c) PROVE SInv'
  <2>1. NoSilentDrop'
    BY <1>4 DEF SendWriteFails, retrans, SInv, NoSilentDrop, registered
  <2>2. OneOutcome'
    BY <1>4 DEF SendWriteFails, retrans, SInv, OneOutcome, Pending
  <2>. QED BY <1>0, <2>1, <2>2 DEF SInv
<1>5. ASSUME NEW S \in SUBSET Pending, RetransmitSnapshot(S) PROVE SInv'
  <2>1. NoSilentDrop' /\ OneOutcome'
    BY <1>5 DEF RetransmitSnapshot, sender, SInv, NoSilentDrop, registered,
                OneOutcome, Pending
  <2>. QED BY <1>0, <2>1 DEF SInv
<1>6. ASSUME NEW n \in due, RetransmitWrite(n) PROVE SInv'
  <2>1. NoSilentDrop' /\ OneOutcome'
    BY <1>6 DEF RetransmitWrite, sender, SInv, NoSilentDrop, registered,
                OneOutcome, Pending
  <2>. QED BY <1>0, <2>1 DEF SInv
<1>7. ASSUME NEW n \in due, RetransmitSkip(n) PROVE SInv'
  <2>1. NoSilentDrop' /\ OneOutcome'
    BY <1>7 DEF RetransmitSkip, sender, SInv, NoSilentDrop, registered,
                OneOutcome, Pending
  <2>. QED BY <1>0, <2>1 DEF SInv
<1>8. CASE RetransmitCommit
  <2>1. NoSilentDrop'
    <3>1. /\ UNCHANGED <<sendSeq, refused, acked, peer>> /\ rtx \in Msgs
          /\ \A x \in Msgs : attempts[x] > 0 => attempts'[x] > 0 \/ x \in reported'
          /\ reported \subseteq reported'
      BY <1>8 DEF RetransmitCommit, sender
    <3>. QED BY <3>1 DEF SInv, NoSilentDrop, registered
  <2>2. OneOutcome'
    <3>1. rtx \in Msgs /\ attempts \in [Msgs -> 0..maxPendingRetries]
      BY <1>8 DEF RetransmitCommit
    <3>2. \A x \in Pending' : x \in Pending
      BY <1>8, <3>1 DEF RetransmitCommit, Pending
    <3>3. \/ reported' = reported
          \/ /\ reported' = reported \cup {rtx}
             /\ rtx \in Pending /\ rtx \notin Pending'
      BY <1>8, <3>1 DEF RetransmitCommit, Pending
    <3>4. UNCHANGED <<refused, acked>>
      BY <1>8 DEF RetransmitCommit, sender
    <3> HIDE DEF TypeOK, TypeSender, TypeRetransmit, Msgs
    <3>. QED BY <3>2, <3>3, <3>4 DEF SInv, OneOutcome
  <2>. QED BY <1>0, <2>1, <2>2 DEF SInv
<1>9. ASSUME NEW c \in Goroutines, Forgetting(c) PROVE SInv'
  <2>1. UNCHANGED <<sendSeq, refused, reported, acked>>
    BY <1>9 DEF Forgetting, ForgetPeer, ClearPending, retrans
  <2>2. ForgetPeer(c) => NoSilentDrop' /\ OneOutcome'
    BY <2>1 DEF ForgetPeer, SInv, NoSilentDrop, registered, OneOutcome, Pending
  <2>3. ASSUME ClearPending(c) PROVE NoSilentDrop' /\ OneOutcome'
    <3>1. peer' = peer /\ ~registered /\ attempts' = [n \in Msgs |-> 0]
      BY <2>3 DEF ClearPending, At, SInv, Clears
    <3>2. NoSilentDrop'
      BY <3>1 DEF NoSilentDrop, registered
    <3>3. Pending' = {}
      BY <3>1 DEF Pending
    <3>4. OneOutcome'
      BY <2>1, <3>3, Zenon DEF SInv, OneOutcome
    <3>. QED BY <3>2, <3>4
  <2>. QED BY <1>0, <1>9, <2>2, <2>3 DEF Forgetting, SInv
<1>10. ASSUME NEW n \in Msgs, RecvAck(n) PROVE SInv'
  <2>1. NoSilentDrop'
    BY <1>10 DEF RecvAck, sender, retrans, SInv, NoSilentDrop, registered
  <2>2. OneOutcome'
    <3>1. attempts \in [Msgs -> 0..maxPendingRetries]
      OBVIOUS
    <3>2. Pending' = Pending \ {n}
      BY <1>10, <3>1 DEF RecvAck, Pending
    <3>3. acked' = acked \/ (acked' = acked \cup {n} /\ n \in Pending)
      BY <1>10 DEF RecvAck, Pending
    <3>4. UNCHANGED <<refused, reported>>
      BY <1>10 DEF RecvAck, sender, retrans
    <3> HIDE DEF TypeOK, TypeSender, TypeRetransmit, Msgs
    <3>. QED BY <3>2, <3>3, <3>4 DEF SInv, OneOutcome
  <2>. QED BY <1>0, <2>1, <2>2 DEF SInv
<1>11. CASE UNCHANGED <<sendSeq, refused, retrans, attempts, acked, peer>>
  BY <1>0, <1>11 DEF retrans, SInv, NoSilentDrop, registered, OneOutcome,
               Pending
<1>. QED
  BY <1>1, <1>2, <1>3, <1>4, <1>5, <1>6, <1>7, <1>8, <1>9, <1>10, <1>11
  DEF Next, Send, SendLookup, Retransmit, RecvChat, RecvBlank, RecvDuplicate, RecvOverflow,
      RecvEarly, RecvNext, RecvUnchanged, Lose, Break, vars, sender

-----------------------------------------------------------------------------
(* The invariant as a whole, and what follows from it.                     *)

IInv == /\ Fresh
        /\ ExactlyOnceInOrder /\ BufferSound /\ AckMeansKept
        /\ SInv /\ WriteInv

\* With nothing sent the books are empty.
LEMMA InvInit == Init => IInv
<1> SUFFICES ASSUME Init PROVE IInv
  OBVIOUS
<1>1. Fresh
  BY DEF Init, Fresh, Unused
<1>2. ExactlyOnceInOrder
  BY DEF Init, ExactlyOnceInOrder
<1>3. BufferSound
  BY LimitsAssumption, FS_EmptySet DEF Init, BufferSound
<1>4. AckMeansKept
  BY DEF Init, AckMeansKept
<1>5. SInv
  BY DEF Init, SInv, NoSilentDrop, OneOutcome, Pending, Clears, Goroutines
<1>6. WriteInv
  BY LimitsAssumption DEF Init, WriteInv, Bounded, Covered, One, Msgs
<1>. QED BY <1>1, <1>2, <1>3, <1>4, <1>5, <1>6 DEF IInv

\* The inductive invariant holds in every reachable state.
THEOREM Invariance == Spec => []IInv
<1>1. TypeOK /\ TypeOK' /\ IInv /\ [Next]_vars => IInv'
  BY ReceiverInv, FreshStep, AckInv, SenderInv, WriteStep DEF IInv
<1>. QED BY <1>1, InvInit, TypeCorrect, PTL DEF Spec

\* The remote user sees each message once and in order, whatever is
\* retransmitted, reordered or buffered (handleEnvelope, drainReceiveBuffer).
THEOREM InOrderDelivery == Spec => []ExactlyOnceInOrder
<1>1. IInv => ExactlyOnceInOrder
  BY DEF IInv
<1>. QED BY <1>1, Invariance, PTL

\* An acknowledged message is one the receiver delivered or still buffers.
THEOREM AckSafety == Spec => []AckMeansKept
<1>1. IInv => AckMeansKept
  BY DEF IInv
<1>. QED BY <1>1, Invariance, PTL

\* The receive buffer never exceeds its limit and never holds a message that
\* could be delivered.
THEOREM BufferSafety == Spec => []BufferSound
<1>1. IInv => BufferSound
  BY DEF IInv
<1>. QED BY <1>1, Invariance, PTL

\* While the peer is registered, no message the sender numbered disappears
\* from its books (sendChat, ackPending and retransmitDue).
THEOREM Accounting == Spec => []NoSilentDrop
<1>1. IInv => NoSilentDrop
  BY DEF IInv, SInv
<1>. QED BY <1>1, Invariance, PTL

\* And none is entered twice: no message is both acknowledged and given up, and
\* none with an outcome is still tracked, however acknowledgements race the
\* retransmission passes.
THEOREM SingleOutcome == Spec => []OneOutcome
<1>1. IInv => OneOutcome
  BY DEF IInv, SInv
<1>. QED BY <1>1, Invariance, PTL

\* A message is written at most maxPendingRetries + 1 times.
THEOREM RetryBound == Spec => []WriteBound
<1>1. TypeOK /\ IInv => WriteBound
  <2> SUFFICES ASSUME TypeOK, IInv, NEW n \in Msgs
               PROVE  writes[n] <= maxPendingRetries + 1
    BY DEF WriteBound
  <2>1. writes[n] \in Nat
    BY DEF TypeOK, TypeSender
  <2>. QED BY <2>1, LimitsAssumption DEF IInv, WriteInv, Bounded, One
<1>. QED BY <1>1, TypeCorrect, Invariance, PTL

-----------------------------------------------------------------------------
(* The promise to the users: ChatTransport implements ChatService.         *)

\* sendChat holds sendMu, so the message it writes is the last one.
SendsLast == sending # 0 => sending = sendSeq

\* So it is in every state.
LEMMA SendsLastAlways == Spec => []SendsLast
<1>1. Init => SendsLast
  BY DEF Init, SendsLast
<1>2. SendsLast /\ [Next]_vars => SendsLast'
  BY DEF SendsLast, Next, Send, Retransmit, SendLookup, SendTrack, SendTooBig, Assign, SendWrite,
         SendWriteFails, RetransmitSnapshot, RetransmitWrite, RetransmitSkip,
         RetransmitCommit, Forgetting, ForgetPeer, ClearPending, RecvAck, RecvChat, RecvBlank, RecvDuplicate,
         RecvOverflow, RecvEarly, RecvNext, RecvUnchanged, Lose, Break, vars, sender
<1>. QED BY <1>1, <1>2, PTL DEF Spec

KeptMsgs == {n \in Msgs : Kept(n)}

\* What the receiver does is to hold a message before its turn, to show one with
\* those that waited for it, or nothing that a user sees.
LEMMA ReceiverServes ==
  ASSUME TypeOK, TypeOK', IInv, NEW n \in Msgs, RecvChat(n)
  PROVE  Service!Hold(n) \/ (\E m \in Msgs : Service!Show(m)) \/ UNCHANGED Service!svars
<1> USE MaxMsgsAssumption
<1>1. /\ UNCHANGED <<sendSeq, refused, reported, acked, peer, attempts>>
      /\ Pending' = Pending
  BY DEF RecvChat, RecvBlank, RecvDuplicate, RecvOverflow, RecvEarly, RecvNext, RecvUnchanged,
         sender, retrans, Pending
<1>2. /\ recvSeq \in 0..MaxMsgs /\ sendSeq \in 0..MaxMsgs /\ n \in 1..MaxMsgs
      /\ buffer \subseteq Msgs /\ Len(delivered) = recvSeq
  BY DEF TypeOK, TypeSender, TypeReceiver, Msgs, IInv, ExactlyOnceInOrder
<1>3. n <= sendSeq
  <2>1. chatNet[n] > 0
    BY DEF RecvChat, RecvBlank, RecvDuplicate, RecvOverflow, RecvEarly, RecvNext, Arrive
  <2>. QED BY <1>2, <2>1 DEF IInv, Fresh, Unused
<1>4. CASE RecvBlank(n) \/ RecvDuplicate(n) \/ RecvOverflow(n)
  <2>1. UNCHANGED <<recvSeq, buffer, delivered>>
    BY <1>4 DEF RecvBlank, RecvDuplicate, RecvOverflow, receiver
  <2>2. KeptMsgs' = KeptMsgs
    BY <2>1 DEF KeptMsgs, Kept
  <2>. QED BY <1>1, <2>1, <2>2 DEF Service!svars, Service!outcomes, KeptMsgs
<1>5. CASE RecvEarly(n)
  <2>1. /\ n > recvSeq + 1 /\ buffer' = buffer \cup {n} /\ UNCHANGED <<recvSeq, delivered>>
    BY <1>5 DEF RecvEarly
  <2>2. KeptMsgs' = KeptMsgs \cup {n}
    BY <2>1 DEF KeptMsgs, Kept
  <2>3. CASE n \in KeptMsgs
    <3>1. KeptMsgs' = KeptMsgs
      BY <2>2, <2>3
    <3>. QED BY <1>1, <2>1, <3>1 DEF Service!svars, Service!outcomes, KeptMsgs
  <2>4. CASE n \notin KeptMsgs
    <3>1. n \in (Len(delivered) + 2)..sendSeq \ KeptMsgs
      BY <1>2, <1>3, <2>1, <2>4
    <3>. QED BY <1>1, <2>1, <2>2, <3>1 DEF Service!Hold, Service!outcomes, KeptMsgs
  <2>. QED BY <2>3, <2>4
<1>6. CASE RecvNext(n)
  <2> DEFINE m == DrainedUpTo(n)
  <2>1. /\ m \in n..MaxMsgs /\ (n + 1)..m \subseteq buffer /\ m + 1 \notin buffer
        /\ n = recvSeq + 1 /\ recvSeq' = m /\ buffer' = buffer \ (n..m)
    BY <1>6, DrainStops, NextDelivers DEF RecvNext
  <2>2. delivered' = [i \in 1..m |-> i]
    <3>1. ExactlyOnceInOrder'
      BY ReceiverInv DEF IInv, Next
    <3>. QED BY <2>1, <3>1 DEF ExactlyOnceInOrder
  <2> HIDE DEF m
  <2>3. m \in Msgs /\ m >= Len(delivered) + 1 /\ Len(delivered) + 1 <= sendSeq
    BY <1>2, <1>3, <2>1 DEF Msgs
  <2>4. (n + 1)..m \subseteq KeptMsgs /\ m + 1 \notin KeptMsgs
    BY <1>2, <2>1 DEF KeptMsgs, Kept, Msgs
  <2>5. \A x \in Msgs : Kept(x)' <=> Kept(x) \/ x = n
    BY <1>2, <2>1 DEF Kept, Msgs
  <2>6. KeptMsgs' = KeptMsgs \cup {n}
    BY <2>5 DEF KeptMsgs
  <2>7. Service!Show(m)
    BY <1>1, <1>2, <2>1, <2>2, <2>3, <2>4, <2>6 DEF Service!Show, Service!outcomes, KeptMsgs
  <2>. QED BY <2>3, <2>7
<1>. QED BY <1>4, <1>5, <1>6 DEF RecvChat

\* Steps of the sender and of the medium leave the receiver alone.
LEMMA ReceiverStays ==
  ASSUME UNCHANGED <<recvSeq, buffer, delivered>>
  PROVE  KeptMsgs' = KeptMsgs
BY DEF KeptMsgs, Kept

\* What the sender does is to take or refuse a message, to learn its outcome, to
\* give the peer up, or nothing that a user sees.
LEMMA SenderServes ==
  ASSUME TypeOK, IInv, SendsLast,
         \/ \E c \in Callers : Send(c)
         \/ \E c \in Goroutines : Forgetting(c)
         \/ Retransmit
         \/ \E n \in Msgs : RecvAck(n)
  PROVE  [Service!SNext]_(Service!svars)
<1> USE MaxMsgsAssumption
<1>1. UNCHANGED <<recvSeq, buffer, delivered>> /\ KeptMsgs' = KeptMsgs
  <2>1. UNCHANGED <<recvSeq, buffer, delivered>>
    BY DEF Send, Retransmit, SendLookup, SendTrack, SendTooBig, SendWrite, SendWriteFails,
           RetransmitSnapshot, RetransmitWrite, RetransmitSkip, RetransmitCommit,
           Forgetting, ForgetPeer, ClearPending, RecvAck, receiver
  <2>. QED BY <2>1, ReceiverStays
<1>2. /\ sendSeq \in 0..MaxMsgs /\ attempts \in [Msgs -> 0..maxPendingRetries]
      /\ sending \in 0..MaxMsgs /\ rtx \in 0..MaxMsgs
  BY DEF TypeOK, TypeSender, TypeRetransmit
<1>3. ASSUME NEW c \in Callers, NEW k \in Kinds, SendTrack(c, k) PROVE Service!Take
  <2>1. /\ sendSeq < MaxMsgs /\ sendSeq' = sendSeq + 1
        /\ attempts' = [attempts EXCEPT ![sendSeq + 1] = 1]
        /\ UNCHANGED <<refused, reported, acked, peer>>
    BY <1>3 DEF SendTrack, Assign, retrans
  <2>2. sendSeq + 1 \in Msgs
    BY <1>2, <2>1 DEF Msgs
  <2>3. Pending' = Pending \cup {sendSeq + 1}
    BY <1>2, <2>1, <2>2, LimitsAssumption DEF Pending
  <2>. QED BY <1>1, <2>1, <2>3 DEF Service!Take, Service!outcomes, KeptMsgs
<1>4. ASSUME NEW c \in Callers, NEW k \in Kinds, SendTooBig(c, k)
      PROVE  Service!RefuseNew
  <2>1. /\ sendSeq < MaxMsgs /\ sendSeq' = sendSeq + 1
        /\ refused' = refused \cup {sendSeq + 1} /\ UNCHANGED <<reported, acked, attempts, peer>>
    BY <1>4 DEF SendTooBig, Assign, retrans
  <2>2. Pending' = Pending
    BY <2>1 DEF Pending
  <2>. QED BY <1>1, <2>1, <2>2 DEF Service!RefuseNew, KeptMsgs
<1>5. ASSUME NEW c \in Callers, SendWrite(c) PROVE UNCHANGED Service!svars
  <2>1. UNCHANGED <<sendSeq, attempts, refused, reported, acked, peer>>
    BY <1>5 DEF SendWrite, retrans
  <2>. QED BY <1>1, <2>1 DEF Service!svars, Service!outcomes, Pending, KeptMsgs
<1>6. ASSUME NEW c \in Callers, SendWriteFails(c) PROVE Service!RefuseLast
  <2>1. /\ sending # 0 /\ refused' = refused \cup {sending}
        /\ UNCHANGED <<sendSeq, reported, acked, peer>>
        /\ attempts' = [attempts EXCEPT ![sending] = 0]
    BY <1>6 DEF SendWriteFails, retrans
  <2>2. sending = sendSeq /\ sendSeq > 0 /\ sending \in Msgs
    BY <1>2, <2>1 DEF SendsLast, Msgs
  <2>3. Pending' = Pending \ {sendSeq}
    BY <1>2, <2>1, <2>2 DEF Pending
  <2>. QED BY <1>1, <2>1, <2>2, <2>3 DEF Service!RefuseLast, KeptMsgs
<1>7. ASSUME NEW n \in Msgs, RecvAck(n)
      PROVE  Service!Acknowledge(n) \/ UNCHANGED Service!svars
  <2>1. /\ ackNet[n] > 0 /\ attempts' = [attempts EXCEPT ![n] = 0]
        /\ acked' = IF n \in Pending THEN acked \cup {n} ELSE acked
        /\ UNCHANGED <<sendSeq, refused, reported, peer>>
    BY <1>7 DEF RecvAck, sender, retrans, Pending
  <2>2. n \in KeptMsgs
    BY <2>1 DEF IInv, AckMeansKept, KeptMsgs
  <2>3. Pending' = Pending \ {n}
    BY <1>2, <2>1 DEF Pending
  <2>4. CASE n \in Pending
    BY <1>1, <2>1, <2>2, <2>3, <2>4 DEF Service!Acknowledge, KeptMsgs
  <2>5. CASE n \notin Pending
    <3>1. Pending' = Pending /\ acked' = acked
      BY <2>1, <2>3, <2>5
    <3>. QED BY <1>1, <2>1, <3>1 DEF Service!svars, Service!outcomes, KeptMsgs
  <2>. QED BY <2>4, <2>5
<1>8. ASSUME NEW c \in Goroutines, Forgetting(c) PROVE [Service!SNext]_(Service!svars)
  <2>1. UNCHANGED <<sendSeq, refused, reported, acked>>
    BY <1>8 DEF Forgetting, ForgetPeer, ClearPending, retrans
  <2>2. CASE ForgetPeer(c)
    <3>1. peer' = "forgotten" /\ Pending' = Pending
      BY <2>2 DEF ForgetPeer, Pending
    <3>2. peer = "known" \/ peer' = peer
      BY <3>1 DEF TypeOK, TypeSender
    <3>. QED BY <1>1, <2>1, <3>1, <3>2
             DEF Service!GiveUp, Service!SNext, Service!svars, Service!outcomes, KeptMsgs
  <2>3. CASE ClearPending(c)
    <3>1. peer = "forgotten" /\ peer' = peer
      BY <2>3 DEF ClearPending, At, IInv, SInv, Clears, registered, TypeOK, TypeSender
    <3>2. Pending' = {}
      BY <2>3 DEF ClearPending, Pending
    <3>. QED BY <1>1, <2>1, <3>1, <3>2
             DEF Service!Drop, Service!SNext, Service!outcomes, KeptMsgs
  <2>. QED BY <1>8, <2>2, <2>3 DEF Forgetting
<1>9. CASE RetransmitCommit
  <2>1. /\ rtx \in Msgs /\ UNCHANGED <<sendSeq, refused, acked, peer>>
        /\ \/ UNCHANGED <<attempts, reported>>
           \/ /\ attempts[rtx] > 0 /\ attempts' = [attempts EXCEPT ![rtx] = 0]
              /\ reported' = reported \cup {rtx}
           \/ /\ attempts[rtx] > 0 /\ attempts' = [attempts EXCEPT ![rtx] = @ + 1]
              /\ reported' = reported
    BY <1>2, <1>9 DEF RetransmitCommit, sender, Msgs
  <2>2. CASE attempts[rtx] > 0 /\ attempts' = [attempts EXCEPT ![rtx] = 0]
             /\ reported' = reported \cup {rtx}
    <3>1. rtx \in Pending /\ Pending' = Pending \ {rtx}
      BY <1>2, <2>1, <2>2 DEF Pending
    <3>2. Service!Report(rtx)
      BY <1>1, <2>1, <2>2, <3>1 DEF Service!Report, KeptMsgs
    <3>. QED BY <2>1, <3>2 DEF Service!SNext, Msgs
  <2>3. CASE \/ UNCHANGED <<attempts, reported>>
             \/ /\ attempts[rtx] > 0 /\ attempts' = [attempts EXCEPT ![rtx] = @ + 1]
                /\ reported' = reported
    <3>1. reported' = reported /\ \A x \in Msgs : attempts'[x] > 0 <=> attempts[x] > 0
      BY <1>2, <2>1, <2>3, LimitsAssumption
    <3>2. Pending' = Pending
      BY <3>1 DEF Pending
    <3>. QED BY <1>1, <2>1, <3>1, <3>2 DEF Service!svars, Service!outcomes, KeptMsgs
  <2>. QED BY <2>1, <2>2, <2>3
<1>10. ASSUME UNCHANGED <<sendSeq, attempts, refused, reported, acked, peer>>
       PROVE  UNCHANGED Service!svars
  BY <1>1, <1>10 DEF Service!svars, Service!outcomes, Pending, KeptMsgs
<1>11. \A c \in Callers : SendLookup(c) => UNCHANGED <<sendSeq, attempts, refused, reported, acked, peer>>
  BY DEF SendLookup, retrans
<1>12. Retransmit => RetransmitCommit
                     \/ UNCHANGED <<sendSeq, attempts, refused, reported, acked, peer>>
  BY DEF Retransmit, RetransmitSnapshot, RetransmitWrite, RetransmitSkip, sender
<1>. QED BY <1>3, <1>4, <1>5, <1>6, <1>7, <1>8, <1>9, <1>10, <1>11, <1>12
         DEF Send, Service!SNext, Msgs

\* ChatTransport implements ChatService: to its two users the retransmitting,
\* buffering transport over a medium that loses and reorders frames behaves as
\* if a message were taken, held, shown and settled in single steps, and nothing
\* they were told is ever taken back.
THEOREM ServiceRefinement == Spec => ImplementsService
<1>1. Init => Service!SInit
  <2> SUFFICES ASSUME Init PROVE Service!SInit
    OBVIOUS
  <2>1. Pending = {} /\ KeptMsgs = {}
    BY MaxMsgsAssumption DEF Init, Pending, KeptMsgs, Kept, Msgs
  <2>. QED BY <2>1 DEF Init, Service!SInit, KeptMsgs
<1>2. ASSUME TypeOK, TypeOK', IInv, SendsLast, [Next]_vars
      PROVE  [Service!SNext]_(Service!svars)
  <2>1. CASE \/ \E c \in Callers : Send(c)
             \/ \E c \in Goroutines : Forgetting(c)
             \/ Retransmit
             \/ \E n \in Msgs : RecvAck(n)
    BY <1>2, <2>1, SenderServes
  <2>2. ASSUME NEW n \in Msgs, RecvChat(n) PROVE [Service!SNext]_(Service!svars)
    BY <1>2, <2>2, ReceiverServes DEF Service!SNext, Msgs
  <2>3. ASSUME UNCHANGED <<sender, retrans, attempts, peer, acked, receiver>>
        PROVE  UNCHANGED Service!svars
    BY <2>3 DEF sender, retrans, receiver, Service!svars, Service!outcomes, Pending, Kept
  <2>4. ASSUME NEW n \in Msgs, Lose(n) PROVE UNCHANGED Service!svars
    BY <2>3, <2>4 DEF Lose
  <2>5. CASE Break \/ UNCHANGED vars
    BY <2>3, <2>5 DEF Break, vars
  <2>. QED BY <1>2, <2>1, <2>2, <2>4, <2>5 DEF Next
<1>. QED BY <1>1, <1>2, TypeCorrect, Invariance, SendsLastAlways, PTL
         DEF Spec, ImplementsService, Service!SSpec

\* While the peer is registered and nothing is pending, every message was
\* delivered, or there is a reason for it that the sender was told of or that
\* lies in a text: the books of sendChat, retransmitDue and handleEnvelope never
\* disagree at rest.  This is the safety half of DeliveredOrKnown.
Settled == registered /\ Pending = {} => \A n \in 1..sendSeq : n <= recvSeq \/ Hole(n)

\* At rest what was sent is delivered, or known to be missing: for any number of
\* messages, losses, retries and any buffer size.
THEOREM SettledIsDelivered == Spec => []Settled
<1>1. ASSUME TypeOK, IInv PROVE Settled
  <2> SUFFICES ASSUME registered, Pending = {}, NEW n \in 1..sendSeq, ~Hole(n), ~(n <= recvSeq)
               PROVE  FALSE
    BY DEF Settled
  <2>1. /\ sendSeq \in 0..MaxMsgs /\ recvSeq \in 0..MaxMsgs /\ MaxMsgs \in Nat
        /\ attempts \in [Msgs -> 0..maxPendingRetries]
    BY <1>1, MaxMsgsAssumption DEF TypeOK, TypeSender, TypeReceiver
  <2> DEFINE m == recvSeq + 1
  <2>2. m \in 1..n /\ m \in 1..sendSeq /\ m \in Msgs
    BY <2>1 DEF Msgs
  <2>3. m \notin refused \cup reported
    BY <2>2 DEF Hole
  <2>4. ~(attempts[m] > 0)
    BY <2>2 DEF Pending
  <2>5. m \in acked
    BY <1>1, <2>2, <2>3, <2>4 DEF IInv, SInv, NoSilentDrop
  <2>6. m \in buffer
    BY <1>1, <2>1, <2>2, <2>5 DEF IInv, AckMeansKept, Kept
  <2>. QED BY <1>1, <2>1, <2>6 DEF IInv, BufferSound
<1>. QED BY <1>1, TypeCorrect, Invariance, PTL

-----------------------------------------------------------------------------
(* The frames: clocks.                                                      *)

\* Validate compares the time stamp with the clock in one direction only: what
\* passed once passes ever after, so sendEnvelope never refuses a
\* retransmission unless the clock was set back.
THEOREM StaysValid ==
  ASSUME NEW e \in Envelopes, NEW now \in Int, NEW later \in Int,
         now <= later, Validate(e, now)
  PROVE  Validate(e, later)
<1>1. e.ts \in Int
  BY DEF Envelopes
<1>2. e.ts <= later + MaxFutureSkew
  BY <1>1 DEF Validate, MaxFutureSkew
<1> QED
  BY <1>2 DEF Validate

\* What the sender's Encode lets out, the receiver's Decode takes, if its clock
\* is at most MaxFutureSkew behind the sender's clock at the time of writing the
\* envelope, however far it is ahead.
THEOREM SkewTolerated ==
  ASSUME NEW e \in Envelopes, NEW size \in Nat, NEW now \in Int, NEW there \in Int,
         Marshalled(e, size), Encodes(e, size, now),
         e.ts <= there + MaxFutureSkew
  PROVE  Decodes(e, size, there)
<1>1. Validate(e, there)
  BY DEF Encodes, Validate
<1> QED
  BY <1>1 DEF Decodes, Encodes, Marshalled

\* An envelope refused for its time is accepted by a clock that has caught up:
\* the retransmission carries the old time stamp, so the frame was only lost.
THEOREM CatchesUp ==
  ASSUME NEW e \in Envelopes, NEW size \in Nat, NEW now \in Int,
         NEW early \in Int, NEW late \in Int,
         Marshalled(e, size), Encodes(e, size, now),
         ~Decodes(e, size, early), late >= e.ts - MaxFutureSkew
  PROVE  early < e.ts - MaxFutureSkew /\ Decodes(e, size, late)
<1>1. e.ts \in Int
  BY DEF Envelopes
<1>2. ~(e.ts <= early + MaxFutureSkew)
  BY SkewTolerated
<1>3. e.ts <= late + MaxFutureSkew
  BY <1>1 DEF MaxFutureSkew
<1>4. Decodes(e, size, late)
  BY <1>3, SkewTolerated
<1> QED
  BY <1>1, <1>2, <1>4 DEF MaxFutureSkew

-----------------------------------------------------------------------------
(* The frames: sizes.                                                       *)

\* The limits fit together for what this program sends: an envelope that
\* newEnvelope built and that passes Validate is never too large for Encode, so
\* that once sendChat has its envelope and tracks it, only the write can fail.
\* Of envelopes in general this does not hold: Validate measures the body before
\* json.Marshal escapes it, and Encode measures the result.
THEOREM OwnFits ==
  ASSUME NEW type, NEW a \in Nat, NEW b \in Nat, NEW nameLen \in Nat, NEW seq \in Nat,
         NEW bodyLen \in Nat, NEW now \in Int, NEW later \in Int, NEW size \in Nat, NEW e,
         e = NewEnvelope(type, a, b, nameLen, seq, bodyLen, now),
         Marshalled(e, size), Validate(e, later)
  PROVE  Encodes(e, size, later)
<1>1. /\ e.bodyLen = bodyLen /\ e.plain = 0 /\ e.idLen = 22 /\ e.convLen = 22
      /\ e.fromLen = nameLen
  BY DEF NewEnvelope, DigestLen
<1>2. bodyLen <= 48 * 1024 /\ nameLen <= 128
  BY <1>1 DEF Validate, MaxBodySize, MaxIDLength
<1>3. size <= bodyLen + 5 * 0 + 6 * (22 + 22 + nameLen) + 128
  BY <1>1 DEF Marshalled, Frame
<1>4. size <= 64 * 1024
  BY <1>2, <1>3
<1> QED
  BY <1>4 DEF Encodes, MaxEnvelopeSize

\* The only texts that newChatEnvelope refuses are those whose body is over the
\* limit: with a sequence number, a peer ID of usual length and a clock that
\* runs, nothing else in Validate can fail.
THEOREM OnlyTooBigRefused ==
  ASSUME NEW a \in Nat, NEW b \in Nat, NEW nameLen \in 1..MaxIDLength,
         NEW seq \in Nat \ {0}, NEW bodyLen \in Nat, NEW now \in Nat \ {0}
  PROVE  Validate(NewEnvelope("chat", a, b, nameLen, seq, bodyLen, now), now)
           <=> bodyLen <= MaxBodySize
BY DEF Validate, NewEnvelope, Version, MessageTypes, DigestLen, MaxIDLength, MaxFutureSkew,
       MaxBodySize

-----------------------------------------------------------------------------
(* The frames: digests of pairs.                                            *)

\* The order of the arguments of conversationID does not matter.
LEMMA SortedSymmetric ==
  ASSUME NEW a \in Nat, NEW b \in Nat
  PROVE  Sorted(a, b) = Sorted(b, a)
<1>1. CASE a < b
  BY <1>1 DEF Sorted
<1>2. CASE b < a
  BY <1>2 DEF Sorted
<1>3. CASE a = b
  BY <1>3
<1> QED
  BY <1>1, <1>2, <1>3

\* The sorted pair determines the two IDs.
LEMMA SortedPair ==
  ASSUME NEW a \in Nat, NEW b \in Nat, NEW c \in Nat, NEW d \in Nat,
         Sorted(a, b) = Sorted(c, d)
  PROVE  (a = c /\ b = d) \/ (a = d /\ b = c)
BY DEF Sorted

\* chat_envelope.go:57, "Both peers compute the same value regardless of who
\* initiated the stream": handleEnvelope admits what its peer built for it.
THEOREM PeersAgree ==
  ASSUME NEW a \in Nat, NEW b \in Nat, NEW type, NEW nameLen, NEW seq, NEW bodyLen, NEW now
  PROVE  Admitted(NewEnvelope(type, a, b, nameLen, seq, bodyLen, now), b, a)
BY SortedSymmetric DEF Admitted, NewEnvelope, conversationID

\* And nothing else: an envelope that some c built for some d is admitted by b
\* on the stream of a only if it is a's envelope for b.
THEOREM NoForeignEnvelope ==
  ASSUME NEW a \in Nat, NEW b \in Nat, NEW c \in Nat, NEW d \in Nat,
         NEW type, NEW nameLen, NEW seq, NEW bodyLen, NEW now,
         Admitted(NewEnvelope(type, c, d, nameLen, seq, bodyLen, now), b, a)
  PROVE  c = a /\ d = b
<1>1. c = a /\ Sorted(c, d) = Sorted(b, a)
  BY DEF Admitted, NewEnvelope, conversationID
<1>2. (c = b /\ d = a) \/ (c = a /\ d = b)
  BY <1>1, SortedPair
<1> QED
  BY <1>1, <1>2

\* README.md:53, "The number is symmetric": both peers see the same number.
THEOREM NumberSymmetric ==
  ASSUME NEW keyOf, NEW a \in Nat, NEW b \in Nat, a # b
  PROVE  safetyNumber(keyOf, a, b) = safetyNumber(keyOf, b, a)
<1>1. CASE a < b
  BY <1>1 DEF safetyNumber
<1>2. CASE b < a
  BY <1>2 DEF safetyNumber
<1> QED
  BY <1>1, <1>2

\* README.md:53, "and changes when either identity changes": two pairs have the
\* same number only if they have the same two keys, although a new identity
\* may change the order of the two.
THEOREM NumberChanges ==
  ASSUME NEW keyOf, NEW a \in Nat, NEW b \in Nat, NEW c \in Nat, NEW d \in Nat,
         safetyNumber(keyOf, a, b) = safetyNumber(keyOf, c, d)
  PROVE  {Entry(keyOf[a]), Entry(keyOf[b])} = {Entry(keyOf[c]), Entry(keyOf[d])}
<1> DEFINE k(p) == Entry(keyOf[p])
<1>1. safetyNumber(keyOf, a, b) \in {<<k(a), k(b)>>, <<k(b), k(a)>>}
  BY DEF safetyNumber
<1>2. safetyNumber(keyOf, c, d) \in {<<k(c), k(d)>>, <<k(d), k(c)>>}
  BY DEF safetyNumber
<1> HIDE DEF k
<1>3. (k(a) = k(c) /\ k(b) = k(d)) \/ (k(a) = k(d) /\ k(b) = k(c))
  BY <1>1, <1>2
<1>4. {k(a), k(b)} = {k(c), k(d)}
  BY <1>3
<1> QED
  BY <1>4 DEF k
=============================================================================
