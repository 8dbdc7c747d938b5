------------------------- MODULE StreamManagerProofs -------------------------
(* Registered streams and the order of delivery, for any number of streams, *)
(* messages and retries.                                                    *)
EXTENDS StreamManager, SequenceTheorems, TLAPS

-----------------------------------------------------------------------------
(* The invariant.  A message is known by its number, at most used, from when *)
(* it was made.                                                             *)

Positions == {"none", "read", "chat", "show", "shown", "ack", "drain", "lost",
              "clear", "close"}

\* Where a readLoop has nothing left to do with the maps, and where it has a
\* message in hand.
Gone == {"none", "clear", "close"}
Holding == {"chat", "show", "shown", "ack"}

Frames(k) == [type : {"chat", "ack"}, msg : 1..k, seq : Nat]
Chans(k) == [Streams -> [Nodes -> Seq(Frames(k))]]

TypeLinks == /\ registered \in [Nodes -> Streams \cup {0}]
             /\ at \in [Nodes -> [Streams -> Positions]]

TypeSender == /\ used \in 0..MaxMsgs /\ sendSeq \in Nat
              /\ op \in [pc : {"idle", "looked", "tracked", "failed", "clear"},
                         stream : Streams \cup {0}]
              /\ seqOf \in [Msgs -> Nat] /\ attempts \in [Msgs -> Nat]

TypeReceiver == /\ hand \in [Streams -> 0..used] /\ recvBuffer \in [Msgs -> 0..used]
                /\ delivered \in Seq(1..used) /\ base \in Nat /\ recvSeq \in Nat
                /\ late \in SUBSET Streams

TypeOK == TypeLinks /\ TypeSender /\ TypeReceiver /\ chan \in Chans(used)

\* sendChat has a stream and room for its message, and only messages that were
\* made are pending.
Sending == /\ op.pc \in {"looked", "tracked"} => op.stream \in Streams
           /\ op.pc = "looked" => used < MaxMsgs
           /\ op.pc = "tracked" => used > 0
           /\ \A m \in Msgs : attempts[m] > 0 => m <= used

\* A readLoop that handles a message has one, and an early message is buffered
\* under its own number.
Held == \A s \in Streams : at["b"][s] \in Holding => hand[s] # 0
Buffered == \A q \in Msgs : recvBuffer[q] # 0 => seqOf[recvBuffer[q]] = q

\* Unless a readLoop was handling a message at the last reset, only the loop of
\* the registered stream works with the numbers,
Alone == late = {} => \A s \in Streams : at["b"][s] \in Handling => s = registered["b"]

\* and recvSeq counts what was shown since, with the message about to be shown.
Counted ==
  late = {} =>
    /\ (\A s \in Streams : at["b"][s] # "show") => Len(delivered) = base + recvSeq
    /\ \A s \in Streams : at["b"][s] = "show" => /\ Len(delivered) + 1 = base + recvSeq
                                                 /\ Number(s) = recvSeq

ReceiverInv == TypeReceiver /\ Held /\ Buffered /\ Alone /\ Counted /\ InOrderPerReset

IInv == /\ TypeLinks /\ RegisteredIsRead /\ TypeSender /\ Sending
        /\ ReceiverInv /\ chan \in Chans(used)

-----------------------------------------------------------------------------
(* Frames on the streams.                                                   *)

\* What is on the streams stays known when another message is made.
LEMMA GrowChans ==
  ASSUME NEW k \in Nat, NEW c \in Chans(k)
  PROVE  c \in Chans(k + 1)
<1>1. Frames(k) \subseteq Frames(k + 1)
  BY DEF Frames
<1>2. Seq(Frames(k)) \subseteq Seq(Frames(k + 1))
  BY <1>1
<1> QED
  BY <1>2 DEF Chans

\* The frames that are written name a message that was made.
LEMMA FrameTypes ==
  ASSUME TypeOK
  PROVE  \A m \in 1..used : ChatFrame(m) \in Frames(used) /\ AckFrame(m) \in Frames(used)
<1>1. used \in Nat /\ 1..used \subseteq Msgs /\ \A m \in Msgs : seqOf[m] \in Nat
  BY BoundsAssumption DEF TypeOK, TypeSender, Msgs
<1> QED
  BY <1>1 DEF ChatFrame, AckFrame, Frames

\* The other end is an end.
LEMMA OtherNode == \A n \in Nodes : Other(n) \in Nodes
BY DEF Other, Nodes

\* Writing a frame.
LEMMA WrittenType ==
  ASSUME TypeOK, NEW s \in Streams \cup {0}, NEW n \in Nodes, NEW f \in Frames(used)
  PROVE  Written(s, n, f) \in Chans(used)
<1>1. CASE s = 0 \/ closed[s] # {}
  BY <1>1 DEF Written, TypeOK
<1>2. CASE ~(s = 0 \/ closed[s] # {})
  <2>1. s \in Streams /\ chan[s][n] \in Seq(Frames(used))
    BY <1>2 DEF TypeOK, Chans
  <2>2. Append(chan[s][n], f) \in Seq(Frames(used))
    BY <2>1, AppendProperties
  <2> QED
    BY <1>2, <2>1, <2>2 DEF Written, TypeOK, Chans
<1> QED
  BY <1>1, <1>2

\* Taking one.
LEMMA TakenType ==
  ASSUME TypeOK, NEW n \in Nodes, NEW s \in Streams, Incoming(n, s)
  PROVE  Taken(n, s) \in Chans(used) /\ Frame(n, s) \in Frames(used)
<1>1. chan[s][Other(n)] \in Seq(Frames(used)) /\ chan[s][Other(n)] # <<>>
  BY OtherNode DEF TypeOK, Chans, Incoming
<1>2. Tail(chan[s][Other(n)]) \in Seq(Frames(used)) /\ Head(chan[s][Other(n)]) \in Frames(used)
  BY <1>1, HeadTailProperties, EmptySeq
<1> QED
  BY <1>2, OtherNode DEF Taken, Frame, TypeOK, Chans

\* Closing an end drops what was written to it.
LEMMA CloseType ==
  ASSUME TypeOK, NEW n \in Nodes, NEW s \in Streams, Close(n, s)
  PROVE  chan' \in Chans(used)
BY OtherNode DEF Close, TypeOK, Chans

-----------------------------------------------------------------------------
(* Types, and the streams that are registered.                              *)

\* A readLoop that moves keeps its stream's entry if it can still forget the peer.
LEMMA MoveLinks ==
  ASSUME TypeLinks, RegisteredIsRead, NEW n \in Nodes, NEW s \in Streams,
         NEW to \in Positions, at' = [at EXCEPT ![n][s] = to], UNCHANGED registered,
         to \notin Gone \/ at[n][s] \in Gone
  PROVE  TypeLinks' /\ RegisteredIsRead'
BY DEF TypeLinks, RegisteredIsRead, Gone

\* One that forgets the peer leaves nothing registered.
LEMMA ForgetLinks ==
  ASSUME TypeLinks, RegisteredIsRead, NEW n \in Nodes, NEW s \in Streams,
         NEW to \in Positions, at' = [at EXCEPT ![n][s] = to], ForgetPeer(n)
  PROVE  TypeLinks' /\ RegisteredIsRead'
BY DEF TypeLinks, RegisteredIsRead, ForgetPeer

\* A stream is registered with a readLoop, and forgotten before its loop ends.
LEMMA LinksStep ==
  ASSUME TypeLinks, RegisteredIsRead, [Next]_vars
  PROVE  TypeLinks' /\ RegisteredIsRead'
<1> DEFINE Goal == TypeLinks' /\ RegisteredIsRead'
<1> SUFFICES Goal
  OBVIOUS
<1>1. ASSUME UNCHANGED <<registered, at>> PROVE Goal
  BY <1>1 DEF TypeLinks, RegisteredIsRead
<1>2. ASSUME NEW n \in Nodes, NEW s \in Streams, AddStream(n, s) PROVE Goal
  BY <1>2 DEF AddStream, TypeLinks, RegisteredIsRead, Positions
<1>3. ASSUME NEW n \in Nodes, NEW s \in Streams, ReadEnd(n, s) \/ LostForgets(n, s)
      PROVE  Goal
  <2>1. Forgotten(n, s) \in Positions
    BY DEF Forgotten, Last, Positions
  <2> QED
    BY <1>3, <2>1, ForgetLinks DEF ReadEnd, LostForgets, Goes
<1>4. ASSUME NEW n \in Nodes, NEW s \in Streams, ReadReturn(n, s) PROVE Goal
  BY <1>4, MoveLinks DEF ReadReturn, Goes, Positions, Gone
<1>5. ASSUME NEW s \in Streams, ReadClears(s) PROVE Goal
  <2>1. Last("a", s) \in Positions /\ "a" \in Nodes
    BY DEF Last, Positions, Nodes
  <2> QED
    BY <1>5, <2>1, MoveLinks DEF ReadClears, Goes, Gone
<1>6. ASSUME NEW n \in Nodes, NEW s \in Streams, ReadSessionLost(n, s) \/ ControlLost(n, s)
      PROVE  Goal
  BY <1>6, MoveLinks DEF ReadSessionLost, ControlLost, Goes, Positions, Gone
<1>7. ASSUME NEW s \in Streams, ReadChat(s) \/ Handle(s) PROVE Goal
  <2>1. PICK to \in {"chat", "ack", "show", "shown", "drain", "read"} :
          at' = [at EXCEPT !["b"][s] = to]
    BY <1>7 DEF ReadChat, Handle, HandleDuplicate, HandleEarly, HandleNext, Show,
       Acknowledge, Drain, Goes
  <2>2. UNCHANGED registered
    BY <1>7 DEF ReadChat, Handle, HandleDuplicate, HandleEarly, HandleNext, Show,
       Acknowledge, Drain, HandleUnchanged
  <2> QED
    BY <2>1, <2>2, MoveLinks DEF Positions, Gone, Nodes
<1>8. ASSUME NEW n \in Nodes, NEW s \in Streams, ReadSkipped(n, s) \/ ReadAck(s) \/ Abandon(n, s)
      PROVE  Goal
  BY <1>1, <1>8 DEF ReadSkipped, ReadAck, Abandon
<1>9. ASSUME NEW n \in Nodes, Dial(n) \/ Disconnect(n) PROVE Goal
  BY <1>1, <1>9 DEF Dial, Disconnect
<1>10. ASSUME NEW s \in Streams, Break(s) PROVE Goal
  BY <1>1, <1>10 DEF Break
<1>11. ASSUME NEW m \in Msgs, NEW err \in BOOLEAN, Retransmit(m, err) PROVE Goal
  BY <1>1, <1>11 DEF Retransmit
<1>12. CASE Send
  <2>1. CASE InputForgets
    BY <2>1 DEF InputForgets, ForgetPeer, TypeLinks, RegisteredIsRead, Nodes
  <2> QED
    BY <1>1, <1>12, <2>1 DEF Send, SendLookup, SendTrack, SendWrite, SendTooBig,
       SendWriteFails, InputClears
<1>13. CASE UNCHANGED vars
  BY <1>1, <1>13 DEF vars
<1> HIDE DEF Goal
<1>14. ASSUME NEW n \in Nodes, NEW s \in Streams, Read(n, s) PROVE Goal
  BY <1>3, <1>4, <1>5, <1>6, <1>7, <1>8, <1>14 DEF Read
<1> QED
  BY <1>2, <1>6, <1>8, <1>9, <1>10, <1>11, <1>12, <1>13, <1>14 DEF Next

-----------------------------------------------------------------------------
(* The sender.                                                              *)

\* No message is made, and none becomes pending.
SenderQuiet == /\ UNCHANGED <<op, used, seqOf>> /\ sendSeq' \in {sendSeq, 0}
               /\ attempts' \in [Msgs -> Nat]
               /\ \A m \in Msgs : attempts'[m] > 0 => attempts[m] > 0

\* Entries that are removed stay well typed, and none is added.
LEMMA Removed ==
  ASSUME attempts \in [Msgs -> Nat], NEW ms,
         attempts' = [m \in Msgs |-> IF m \in ms THEN 0 ELSE attempts[m]]
  PROVE  /\ attempts' \in [Msgs -> Nat]
         /\ \A m \in Msgs : attempts'[m] > 0 => attempts[m] > 0
<1>1. attempts' \in [Msgs -> Nat] /\ \A m \in Msgs : attempts'[m] = 0 \/ attempts'[m] = attempts[m]
  OBVIOUS
<1>2. ~(0 > 0)
  OBVIOUS
<1> QED
  BY <1>1, <1>2, Zenon

\* A call of sendChat has room for its message until it has made it.
LEMMA SenderStep ==
  ASSUME TypeLinks, TypeSender, Sending, [Next]_vars
  PROVE  TypeSender' /\ Sending'
<1> DEFINE Goal == TypeSender' /\ Sending'
<1> SUFFICES Goal
  OBVIOUS
<1>0. /\ used \in Nat /\ MaxMsgs \in Nat /\ used <= MaxMsgs /\ sendSeq \in Nat
      /\ attempts \in [Msgs -> Nat] /\ seqOf \in [Msgs -> Nat]
  BY BoundsAssumption DEF TypeSender
<1>1. ASSUME SenderQuiet PROVE Goal
  BY <1>0, <1>1 DEF SenderQuiet, TypeSender, Sending
<1>2. ASSUME UNCHANGED <<chat, books>> PROVE Goal
  BY <1>0, <1>1, <1>2 DEF SenderQuiet, chat, books
<1>3. ASSUME ClearPending
      PROVE  /\ attempts' \in [Msgs -> Nat]
             /\ \A m \in Msgs : attempts'[m] > 0 => attempts[m] > 0
  BY <1>0, <1>3, Removed DEF ClearPending
<1>4. ASSUME NEW x, attempts' = [attempts EXCEPT ![x] = 0]
      PROVE  /\ attempts' \in [Msgs -> Nat]
             /\ \A m \in Msgs : attempts'[m] > 0 => attempts[m] > 0
  <2>1. attempts' = [m \in Msgs |-> IF m \in {x} THEN 0 ELSE attempts[m]]
    BY <1>0, <1>4
  <2> QED
    BY <1>0, <2>1, Removed
<1>5. ASSUME NEW n \in Nodes, ResetSequences(n), UNCHANGED <<chat, attempts>> PROVE Goal
  <2>1. sendSeq' \in {sendSeq, 0}
    BY <1>5 DEF ResetSequences
  <2> QED
    BY <1>0, <1>1, <1>5, <2>1 DEF SenderQuiet, chat
<1>6. CASE SendLookup
  <2>1. registered["a"] \in Streams
    BY <1>6 DEF SendLookup, TypeLinks, Nodes
  <2>2. /\ op' = [pc |-> "looked", stream |-> registered["a"]] /\ used < MaxMsgs
        /\ UNCHANGED <<used, seqOf, sendSeq, attempts>>
    BY <1>6 DEF SendLookup, books
  <2> QED
    BY <1>0, <2>1, <2>2 DEF TypeSender, Sending
<1>7. CASE SendTrack
  <2>1. /\ op.pc = "looked" /\ used < MaxMsgs /\ op.stream \in Streams
        /\ op' = [pc |-> "tracked", stream |-> op.stream]
        /\ used' = used + 1 /\ sendSeq' = sendSeq + 1
        /\ seqOf' = [seqOf EXCEPT ![used + 1] = sendSeq + 1]
        /\ attempts' = [attempts EXCEPT ![used + 1] = 1]
    BY <1>7 DEF SendTrack, Sending
  <2>2. sendSeq + 1 \in Nat /\ used + 1 \in 0..MaxMsgs /\ used + 1 > 0
    BY <1>0, <2>1
  <2>3. seqOf' \in [Msgs -> Nat] /\ attempts' \in [Msgs -> Nat]
    BY <1>0, <2>1, <2>2
  <2>4. \A m \in Msgs : attempts'[m] > 0 => m <= used + 1
    BY <1>0, <2>1 DEF Sending, Msgs
  <2> QED
    BY <2>1, <2>2, <2>3, <2>4 DEF TypeSender, Sending
<1>8. ASSUME NEW caller, SendTooBig(caller) PROVE Goal
  <2>1. /\ op.pc = "looked" /\ used < MaxMsgs /\ used' = used + 1
        /\ UNCHANGED <<seqOf, attempts>> /\ sendSeq' = sendSeq + 1
        /\ op' \in {Idle, [pc |-> "failed", stream |-> 0]}
    BY <1>8 DEF SendTooBig, AfterFailure, Sending
  <2>2. sendSeq + 1 \in Nat /\ used + 1 \in 0..MaxMsgs
    BY <1>0, <2>1
  <2>3. \A m \in Msgs : attempts[m] > 0 => m <= used + 1
    BY <1>0 DEF Sending, Msgs
  <2> QED
    BY <1>0, <2>1, <2>2, <2>3 DEF TypeSender, Sending, Idle
<1>9. CASE SendWrite
  BY <1>0, <1>9 DEF SendWrite, Idle, books, TypeSender, Sending
<1>10. ASSUME NEW caller, SendWriteFails(caller) PROVE Goal
  <2>1. /\ UNCHANGED <<used, seqOf, sendSeq>> /\ attempts' = [attempts EXCEPT ![used] = 0]
        /\ op' \in {Idle, [pc |-> "failed", stream |-> 0]}
    BY <1>10 DEF SendWriteFails, AfterFailure
  <2>2. /\ attempts' \in [Msgs -> Nat]
        /\ \A m \in Msgs : attempts'[m] > 0 => attempts[m] > 0
    BY <1>4, <2>1
  <2> QED
    BY <1>0, <2>1, <2>2 DEF TypeSender, Sending, Idle
<1>11. CASE InputForgets
  <2>1. /\ UNCHANGED <<used, seqOf, attempts>> /\ sendSeq' = 0
        /\ op' = [pc |-> "clear", stream |-> 0]
    BY <1>11 DEF InputForgets, ForgetPeer, ResetSequences
  <2> QED
    BY <1>0, <2>1 DEF TypeSender, Sending
<1>12. CASE InputClears
  <2>1. /\ UNCHANGED <<used, seqOf, sendSeq>> /\ op' = Idle
        /\ attempts' \in [Msgs -> Nat]
        /\ \A m \in Msgs : attempts'[m] > 0 => attempts[m] > 0
    BY <1>3, <1>12 DEF InputClears
  <2> QED
    BY <1>0, <2>1 DEF TypeSender, Sending, Idle
<1>13. ASSUME NEW n \in Nodes, NEW s \in Streams,
              AddStream(n, s) \/ ReadEnd(n, s) \/ LostForgets(n, s)
       PROVE  Goal
  BY <1>5, <1>13 DEF AddStream, ReadEnd, LostForgets, ForgetPeer
<1>14. ASSUME NEW s \in Streams, ReadClears(s) PROVE Goal
  BY <1>0, <1>1, <1>3, <1>14 DEF ReadClears, SenderQuiet, chat
<1>15. ASSUME NEW s \in Streams, ReadAck(s) PROVE Goal
  <2>1. /\ attempts' = [attempts EXCEPT ![Frame("a", s).msg] = 0]
        /\ UNCHANGED <<op, used, seqOf, sendSeq>>
    BY <1>15 DEF ReadAck, chat
  <2> QED
    BY <1>0, <1>1, <1>4, <2>1 DEF SenderQuiet
<1>16. ASSUME NEW m \in Msgs, NEW err \in BOOLEAN, Retransmit(m, err) PROVE Goal
  BY <1>0, <1>1, <1>16 DEF Retransmit, SenderQuiet, chat
<1>17. ASSUME NEW n \in Nodes, NEW s \in Streams,
              \/ Abandon(n, s) \/ ControlLost(n, s) \/ ReadReturn(n, s)
              \/ ReadSessionLost(n, s) \/ ReadSkipped(n, s) \/ ReadChat(s) \/ Handle(s)
       PROVE  Goal
  BY <1>2, <1>17 DEF Abandon, ControlLost, ReadReturn, ReadSessionLost, ReadSkipped,
     ReadChat, Handle, HandleDuplicate, HandleEarly, HandleNext, Show, Acknowledge, Drain,
     HandleUnchanged
<1>18. ASSUME NEW n \in Nodes, Dial(n) \/ Disconnect(n) PROVE Goal
  BY <1>2, <1>18 DEF Dial, Disconnect
<1>19. ASSUME NEW s \in Streams, Break(s) PROVE Goal
  BY <1>2, <1>19 DEF Break
<1>20. CASE UNCHANGED vars
  BY <1>2, <1>20 DEF vars
<1> HIDE DEF Goal
<1>21. CASE Send
  BY <1>6, <1>7, <1>8, <1>9, <1>10, <1>11, <1>12, <1>21 DEF Send
<1>22. ASSUME NEW n \in Nodes, NEW s \in Streams, Read(n, s) PROVE Goal
  BY <1>13, <1>14, <1>15, <1>17, <1>22 DEF Read
<1> QED
  BY <1>13, <1>16, <1>17, <1>18, <1>19, <1>20, <1>21, <1>22 DEF Next

-----------------------------------------------------------------------------
(* The receiver.                                                            *)

\* Numbers are never changed once a message is made.
NumbersKept == used' >= used /\ \A m \in 1..used : seqOf'[m] = seqOf[m]

Busy == Handling \cup {"ack"}

\* No readLoop of "b" goes to a message or, without a reset, away from one.
SamePlaces == /\ registered'["b"] = registered["b"] /\ UNCHANGED inbox
              /\ \A s \in Streams : \/ at'["b"][s] = at["b"][s]
                                    \/ at'["b"][s] \notin Busy /\ at["b"][s] \notin Busy
NewNumbers == /\ recvSeq' = 0 /\ recvBuffer' = NoBuffer /\ base' = Len(delivered)
              /\ late' = {s \in Streams : at["b"][s] \in Handling}
              /\ \A s \in Streams : at'["b"][s] = at["b"][s] \/ at'["b"][s] \notin Busy

\* Nothing is read or shown; the numbers may be reset.
ReceiverQuiet == /\ NumbersKept /\ hand' = hand /\ delivered' = delivered
                 /\ SamePlaces \/ NewNumbers

\* What was made before keeps its number wherever it is.
LEMMA KeptNumbers ==
  ASSUME TypeReceiver, NumbersKept, used \in Nat, used' \in Nat
  PROVE  /\ \A i \in 1..Len(delivered) : seqOf'[delivered[i]] = seqOf[delivered[i]]
         /\ \A s \in Streams : hand[s] # 0 => seqOf'[hand[s]] = seqOf[hand[s]]
         /\ \A q \in Msgs : recvBuffer[q] # 0 => seqOf'[recvBuffer[q]] = seqOf[recvBuffer[q]]
         /\ hand \in [Streams -> 0..used'] /\ recvBuffer \in [Msgs -> 0..used']
         /\ delivered \in Seq(1..used') /\ Len(delivered) \in Nat
<1>1. \A i \in 1..Len(delivered) : delivered[i] \in 1..used
  BY ElementOfSeq DEF TypeReceiver
<1>2. \A s \in Streams : hand[s] # 0 => hand[s] \in 1..used
  BY DEF TypeReceiver
<1>3. \A q \in Msgs : recvBuffer[q] # 0 => recvBuffer[q] \in 1..used
  BY DEF TypeReceiver
<1>4. 0..used \subseteq 0..used' /\ 1..used \subseteq 1..used'
  BY DEF NumbersKept
<1>5. Seq(1..used) \subseteq Seq(1..used')
  BY <1>4
<1> QED
  BY <1>1, <1>2, <1>3, <1>4, <1>5, LenProperties DEF TypeReceiver, NumbersKept

\* Resetting the numbers begins a new run of them, and what was made before stays
\* in order.
LEMMA QuietKeeps ==
  ASSUME ReceiverInv, ReceiverQuiet, used \in Nat, used' \in Nat
  PROVE  ReceiverInv'
<1> USE DEF ReceiverInv
<1>1. NumbersKept /\ hand' = hand /\ delivered' = delivered
  BY DEF ReceiverQuiet
<1>2. /\ \A i \in 1..Len(delivered) : seqOf'[delivered[i]] = seqOf[delivered[i]]
      /\ \A s \in Streams : hand[s] # 0 => seqOf'[hand[s]] = seqOf[hand[s]]
      /\ \A q \in Msgs : recvBuffer[q] # 0 => seqOf'[recvBuffer[q]] = seqOf[recvBuffer[q]]
      /\ hand \in [Streams -> 0..used'] /\ recvBuffer \in [Msgs -> 0..used']
      /\ delivered \in Seq(1..used') /\ Len(delivered) \in Nat
  BY <1>1, KeptNumbers
<1>3. base \in Nat /\ recvSeq \in Nat
  BY DEF TypeReceiver
<1>4. CASE SamePlaces
  <2>1. UNCHANGED <<recvSeq, recvBuffer, base, late>>
    BY <1>4 DEF SamePlaces, inbox
  <2>2. TypeReceiver'
    BY <1>1, <1>2, <2>1 DEF TypeReceiver
  <2>3. Held'
    BY <1>1, <1>4 DEF Held, SamePlaces, Busy, Handling, Holding
  <2>4. Buffered'
    BY <1>2, <2>1 DEF Buffered
  <2>5. Alone'
    BY <1>4, <2>1 DEF Alone, SamePlaces, Busy
  <2>6. Counted'
    <3> SUFFICES ASSUME late = {}
                 PROVE  /\ (\A s \in Streams : at'["b"][s] # "show") => Len(delivered) = base + recvSeq
                        /\ \A s \in Streams : at'["b"][s] = "show" =>
                             /\ Len(delivered) + 1 = base + recvSeq
                             /\ seqOf'[hand[s]] = recvSeq
      BY <1>1, <2>1 DEF Counted, Number
    <3>1. \A s \in Streams : at'["b"][s] = "show" <=> at["b"][s] = "show"
      BY <1>4 DEF SamePlaces, Busy, Handling
    <3>2. \A s \in Streams : at["b"][s] = "show" => hand[s] # 0
      BY DEF Held, Holding
    <3> QED
      BY <1>2, <3>1, <3>2 DEF Counted, Number
  <2>7. InOrderPerReset'
    <3> SUFFICES ASSUME late = {}, NEW i \in (base + 1)..Len(delivered)
                 PROVE  seqOf'[delivered[i]] = i - base
      BY <1>1, <2>1 DEF InOrderPerReset
    <3>1. i \in 1..Len(delivered)
      BY <1>2, <1>3
    <3> QED
      BY <1>2, <3>1 DEF InOrderPerReset
  <2> QED
    BY <2>2, <2>3, <2>4, <2>5, <2>6, <2>7
<1>5. CASE NewNumbers
  <2>1. /\ recvSeq' = 0 /\ recvBuffer' = NoBuffer /\ base' = Len(delivered)
        /\ late' = {s \in Streams : at["b"][s] \in Handling}
        /\ \A s \in Streams : at'["b"][s] = at["b"][s] \/ at'["b"][s] \notin Busy
    BY <1>5 DEF NewNumbers
  <2>2. TypeReceiver'
    BY <1>1, <1>2, <2>1 DEF TypeReceiver, NoBuffer
  <2>3. Held'
    BY <1>1, <2>1 DEF Held, Busy, Handling, Holding
  <2>4. Buffered'
    BY <2>1 DEF Buffered, NoBuffer
  <2>5. late' = {} => \A s \in Streams : at'["b"][s] \notin Handling
    BY <2>1 DEF Busy
  <2>6. Alone'
    BY <2>5 DEF Alone
  <2>7. Counted'
    <3>1. late' = {} => \A s \in Streams : at'["b"][s] # "show"
      BY <2>5 DEF Handling
    <3>2. Len(delivered') = base' + recvSeq'
      BY <1>1, <1>2, <2>1
    <3> QED
      BY <3>1, <3>2 DEF Counted
  <2>8. InOrderPerReset'
    <3>1. (base' + 1)..Len(delivered') = {}
      BY <1>1, <1>2, <2>1
    <3> QED
      BY <3>1 DEF InOrderPerReset
  <2> QED
    BY <2>2, <2>3, <2>4, <2>6, <2>7, <2>8
<1> QED
  BY <1>4, <1>5 DEF ReceiverQuiet

\* The steps of the handler.  Only one loop is among them, unless some were late.
LEMMA OnlyOne ==
  ASSUME ReceiverInv, late = {}, NEW s \in Streams, at["b"][s] \in Handling,
         NEW t \in Streams, at["b"][t] \in Handling
  PROVE  t = s
BY DEF ReceiverInv, Alone

\* A readLoop at "b" moves.
LEMMA Moves ==
  ASSUME TypeLinks, NEW s \in Streams, NEW from, NEW to, Goes("b", s, from, to)
  PROVE  /\ at["b"][s] = from /\ at'["b"][s] = to
         /\ \A t \in Streams \ {s} : at'["b"][t] = at["b"][t]
BY DEF Goes, TypeLinks, Nodes

\* A message is read, or found to be a duplicate or early.
LEMMA HandStep ==
  ASSUME IInv, NEW s \in Streams, ReadChat(s) \/ HandleDuplicate(s) \/ HandleEarly(s)
  PROVE  ReceiverInv'
<1> USE DEF IInv, ReceiverInv
<1>1. UNCHANGED <<used, seqOf, registered, recvSeq, base, late, delivered>>
  BY DEF ReadChat, HandleDuplicate, HandleEarly, HandleUnchanged, chat, inbox
<1>2. /\ at["b"][s] \in {"read", "chat"} /\ at'["b"][s] \in {"chat", "ack"}
      /\ at'["b"][s] = "chat" => registered["b"] = s
      /\ \A t \in Streams \ {s} : at'["b"][t] = at["b"][t]
  BY Moves DEF ReadChat, HandleDuplicate, HandleEarly
<1>3. used \in Nat /\ \A m \in 1..used : m \in Msgs
  BY BoundsAssumption DEF TypeSender, Msgs
<1>4. /\ hand' \in [Streams -> 0..used] /\ hand'[s] # 0
      /\ \A t \in Streams \ {s} : hand'[t] = hand[t]
  <2>1. CASE ReadChat(s)
    <3>1. Frame("b", s) \in Frames(used)
      BY <2>1, TakenType DEF ReadChat, Nodes, TypeOK
    <3>2. Frame("b", s).msg \in 1..used
      BY <3>1 DEF Frames
    <3>3. hand' = [hand EXCEPT ![s] = Frame("b", s).msg]
      BY <2>1 DEF ReadChat
    <3> HIDE DEF Frame
    <3> QED
      BY <1>3, <3>2, <3>3 DEF TypeReceiver
  <2>2. CASE HandleDuplicate(s) \/ HandleEarly(s)
    <3>1. at["b"][s] = "chat" /\ hand' = hand
      BY <2>2 DEF HandleDuplicate, HandleEarly, Goes
    <3> QED
      BY <3>1 DEF TypeReceiver, Held, Holding
  <2> QED
    BY <2>1, <2>2
<1>5. /\ recvBuffer' \in [Msgs -> 0..used]
      /\ \A q \in Msgs : recvBuffer'[q] # 0 => seqOf[recvBuffer'[q]] = q
  <2>1. CASE UNCHANGED recvBuffer
    BY <2>1 DEF TypeReceiver, Buffered
  <2>2. CASE HandleEarly(s)
    <3>1. recvBuffer' = [recvBuffer EXCEPT ![Number(s)] = hand[s]]
      BY <2>2 DEF HandleEarly
    <3>2. hand[s] \in 0..used
      BY DEF TypeReceiver
    <3> QED
      BY <3>1, <3>2 DEF TypeReceiver, Buffered, Number
  <2> QED
    BY <2>1, <2>2 DEF ReadChat, HandleDuplicate, inbox
<1>6. TypeReceiver'
  BY <1>1, <1>4, <1>5 DEF TypeReceiver
<1>7. Held' /\ Buffered'
  BY <1>1, <1>2, <1>4, <1>5 DEF Held, Buffered
<1>8. Alone'
  BY <1>1, <1>2 DEF Alone, Handling
<1>9. Counted'
  BY <1>1, <1>2, <1>4 DEF Counted, Number
<1>10. InOrderPerReset'
  BY <1>1 DEF InOrderPerReset
<1> QED
  BY <1>6, <1>7, <1>8, <1>9, <1>10

\* The next number is taken, from the stream or from the buffer; it is shown next.
LEMMA TakeStep ==
  ASSUME IInv, NEW s \in Streams, NEW m \in 1..used, seqOf[m] = recvSeq + 1,
         at["b"][s] \in {"chat", "drain"}, at'["b"][s] = "show",
         \A t \in Streams \ {s} : at'["b"][t] = at["b"][t],
         hand' = [hand EXCEPT ![s] = m], recvSeq' = recvSeq + 1,
         recvBuffer' \in [Msgs -> 0..used],
         \A q \in Msgs : recvBuffer'[q] # 0 => seqOf[recvBuffer'[q]] = q,
         UNCHANGED <<used, seqOf, registered, base, late, delivered>>
  PROVE  ReceiverInv'
<1> USE DEF IInv, ReceiverInv
<1>1. /\ used \in Nat /\ recvSeq \in Nat /\ base \in Nat /\ Len(delivered) \in Nat
  BY LenProperties, BoundsAssumption DEF TypeSender, TypeReceiver
<1>2. hand'[s] = m /\ \A t \in Streams \ {s} : hand'[t] = hand[t]
  BY DEF TypeReceiver
<1>3. TypeReceiver'
  BY <1>1 DEF TypeReceiver
<1>4. Held' /\ Buffered'
  BY <1>1, <1>2 DEF Held, Buffered
<1>5. Alone'
  BY DEF Alone, Handling
<1>6. Counted'
  <2> SUFFICES ASSUME late = {}
               PROVE  \A t \in Streams : at'["b"][t] = "show" =>
                        /\ Len(delivered) + 1 = base + (recvSeq + 1)
                        /\ seqOf[hand'[t]] = recvSeq + 1
    BY DEF Counted, Number
  <2>1. \A t \in Streams \ {s} : at["b"][t] \notin Handling
    BY OnlyOne DEF Handling
  <2>2. Len(delivered) = base + recvSeq
    BY <2>1 DEF Counted, Handling
  <2> QED
    BY <1>1, <1>2, <2>1, <2>2 DEF Handling
<1>7. InOrderPerReset'
  BY DEF InOrderPerReset
<1> QED
  BY <1>3, <1>4, <1>5, <1>6, <1>7

\* The message is shown, in its turn.
LEMMA ShowStep ==
  ASSUME IInv, NEW s \in Streams, Show(s)
  PROVE  ReceiverInv'
<1> USE DEF IInv, ReceiverInv
<1>1. /\ UNCHANGED <<used, seqOf, registered, base, late, recvSeq, recvBuffer, hand>>
      /\ delivered' = Append(delivered, hand[s])
  BY DEF Show, HandleUnchanged, chat
<1>2. /\ at["b"][s] = "show" /\ at'["b"][s] = "shown"
      /\ \A t \in Streams \ {s} : at'["b"][t] = at["b"][t]
  BY Moves DEF Show
<1>3. /\ used \in Nat /\ recvSeq \in Nat /\ base \in Nat /\ Len(delivered) \in Nat
      /\ hand[s] \in 1..used
  BY <1>2, LenProperties, BoundsAssumption DEF TypeSender, TypeReceiver, Held, Holding
<1>4. /\ delivered' \in Seq(1..used) /\ Len(delivered') = Len(delivered) + 1
      /\ \A i \in 1..Len(delivered) : delivered'[i] = delivered[i]
      /\ delivered'[Len(delivered) + 1] = hand[s]
  BY <1>1, <1>3, AppendProperties DEF TypeReceiver
<1>5. TypeReceiver'
  BY <1>1, <1>4 DEF TypeReceiver
<1>6. Held' /\ Buffered'
  BY <1>1, <1>2, <1>3 DEF Held, Buffered
<1>7. Alone'
  BY <1>1, <1>2 DEF Alone, Handling
<1>8. late = {} => /\ Len(delivered) + 1 = base + recvSeq /\ seqOf[hand[s]] = recvSeq
                   /\ \A t \in Streams : at'["b"][t] # "show"
  <2> SUFFICES ASSUME late = {}
               PROVE  /\ Len(delivered) + 1 = base + recvSeq /\ seqOf[hand[s]] = recvSeq
                      /\ \A t \in Streams : at'["b"][t] # "show"
    OBVIOUS
  <2>1. \A t \in Streams \ {s} : at["b"][t] \notin Handling
    BY <1>2, OnlyOne DEF Handling
  <2> QED
    BY <1>2, <2>1 DEF Counted, Number, Handling
<1>9. Counted'
  BY <1>1, <1>4, <1>8 DEF Counted
<1>10. InOrderPerReset'
  <2> SUFFICES ASSUME late = {}, NEW i \in (base + 1)..(Len(delivered) + 1)
               PROVE  seqOf[delivered'[i]] = i - base
    BY <1>1, <1>4 DEF InOrderPerReset
  <2>1. CASE i = Len(delivered) + 1
    BY <1>3, <1>4, <1>8, <2>1
  <2>2. CASE i # Len(delivered) + 1
    <3>1. i \in 1..Len(delivered) /\ i \in (base + 1)..Len(delivered)
      BY <1>3, <2>2
    <3> QED
      BY <1>4, <3>1 DEF InOrderPerReset
  <2> QED
    BY <2>1, <2>2
<1> QED
  BY <1>5, <1>6, <1>7, <1>9, <1>10

\* The acknowledgement, or the end of a drain.
LEMMA DoneStep ==
  ASSUME IInv, NEW s \in Streams, at["b"][s] \in {"ack", "shown", "drain"},
         at'["b"][s] \in {"read", "drain"}, at["b"][s] # "shown" => at'["b"][s] = "read",
         \A t \in Streams \ {s} : at'["b"][t] = at["b"][t],
         hand' \in {hand, [hand EXCEPT ![s] = 0]},
         UNCHANGED <<used, seqOf, registered, base, late, recvSeq, recvBuffer, delivered>>
  PROVE  ReceiverInv'
<1> USE DEF IInv, ReceiverInv
<1>1. used \in Nat
  BY BoundsAssumption DEF TypeSender
<1>2. hand' \in [Streams -> 0..used] /\ \A t \in Streams \ {s} : hand'[t] = hand[t]
  BY <1>1 DEF TypeReceiver
<1>3. TypeReceiver'
  BY <1>2 DEF TypeReceiver
<1>4. Held' /\ Buffered'
  BY <1>2 DEF Held, Buffered, Holding
<1>5. Alone'
  BY DEF Alone, Handling
<1>6. Counted'
  BY <1>2 DEF Counted, Number
<1>7. InOrderPerReset'
  BY DEF InOrderPerReset
<1> QED
  BY <1>3, <1>4, <1>5, <1>6, <1>7

\* Every step of a readLoop with a chat message keeps the order.
LEMMA HandleStep ==
  ASSUME IInv, NEW s \in Streams, ReadChat(s) \/ Handle(s)
  PROVE  ReceiverInv' /\ used' = used /\ chan' \in Chans(used)
<1>0. used \in Nat /\ TypeOK /\ \A m \in 1..used : m \in Msgs
  BY BoundsAssumption DEF IInv, ReceiverInv, TypeOK, TypeSender, Msgs
<1>1. used' = used
  BY DEF ReadChat, Handle, HandleDuplicate, HandleEarly, HandleNext, Show, Acknowledge,
     Drain, HandleUnchanged, chat
<1>2. CASE ReadChat(s) \/ HandleDuplicate(s) \/ HandleEarly(s)
  <2>1. ReceiverInv'
    BY <1>2, HandStep
  <2>2. chan' \in Chans(used)
    BY <1>0, <1>2, TakenType DEF ReadChat, HandleDuplicate, HandleEarly, TypeOK, Nodes
  <2> QED
    BY <1>1, <2>1, <2>2
<1>3. CASE HandleNext(s)
  <2>1. /\ at["b"][s] = "chat" /\ at'["b"][s] = "show"
        /\ \A t \in Streams \ {s} : at'["b"][t] = at["b"][t]
    BY <1>0, <1>3, Moves DEF HandleNext, TypeOK
  <2>2. /\ seqOf[hand[s]] = recvSeq + 1 /\ recvSeq' = recvSeq + 1 /\ hand' = hand
        /\ UNCHANGED <<used, seqOf, registered, base, late, delivered, recvBuffer, chan>>
    BY <1>3 DEF HandleNext, HandleUnchanged, Number, chat
  <2>3. hand[s] \in 1..used
    BY <1>0, <2>1 DEF TypeOK, TypeReceiver, IInv, ReceiverInv, Held, Holding
  <2>4. hand' = [hand EXCEPT ![s] = hand[s]]
    BY <1>0, <2>2 DEF TypeOK, TypeReceiver
  <2>5. ReceiverInv'
    BY <2>1, <2>2, <2>3, <2>4, TakeStep DEF IInv, ReceiverInv, TypeReceiver, Buffered
  <2> QED
    BY <1>0, <1>1, <2>2, <2>5 DEF TypeOK
<1>4. CASE Show(s)
  BY <1>0, <1>1, <1>4, ShowStep DEF Show, TypeOK
<1>5. CASE Acknowledge(s)
  <2>1. /\ at["b"][s] \in {"ack", "shown"} /\ at'["b"][s] \in {"read", "drain"}
        /\ at["b"][s] # "shown" => at'["b"][s] = "read"
        /\ \A t \in Streams \ {s} : at'["b"][t] = at["b"][t]
    BY <1>0, <1>5, Moves DEF Acknowledge, TypeOK
  <2>2. /\ hand' = [hand EXCEPT ![s] = 0]
        /\ UNCHANGED <<used, seqOf, registered, base, late, recvSeq, recvBuffer, delivered>>
        /\ chan' = Written(registered["b"], "b", AckFrame(hand[s]))
    BY <1>5 DEF Acknowledge, HandleUnchanged, chat
  <2>3. ReceiverInv'
    BY <2>1, <2>2, DoneStep
  <2>4. hand[s] \in 1..used
    BY <1>0, <2>1 DEF TypeOK, TypeReceiver, IInv, ReceiverInv, Held, Holding
  <2>5. registered["b"] \in Streams \cup {0} /\ "b" \in Nodes
    BY <1>0 DEF TypeOK, TypeLinks, Nodes
  <2>6. AckFrame(hand[s]) \in Frames(used)
    BY <1>0, <2>4, FrameTypes
  <2> QED
    BY <1>0, <1>1, <2>2, <2>3, <2>5, <2>6, WrittenType
<1>6. CASE Drain(s)
  <2>1. UNCHANGED <<used, seqOf, registered, base, late, delivered, chan>>
    BY <1>6 DEF Drain, HandleUnchanged, chat
  <2>2. ASSUME recvSeq + 1 \in Msgs, recvBuffer[recvSeq + 1] # 0, Goes("b", s, "drain", "show"),
               hand' = [hand EXCEPT ![s] = recvBuffer[recvSeq + 1]],
               recvBuffer' = [recvBuffer EXCEPT ![recvSeq + 1] = 0], recvSeq' = recvSeq + 1
        PROVE  ReceiverInv'
    <3>1. /\ at["b"][s] = "drain" /\ at'["b"][s] = "show"
          /\ \A t \in Streams \ {s} : at'["b"][t] = at["b"][t]
      BY <1>0, <2>2, Moves DEF TypeOK
    <3>2. recvBuffer[recvSeq + 1] \in 1..used /\ seqOf[recvBuffer[recvSeq + 1]] = recvSeq + 1
      BY <1>0, <2>2 DEF TypeOK, TypeReceiver, IInv, ReceiverInv, Buffered
    <3>3. /\ recvBuffer' \in [Msgs -> 0..used]
          /\ \A q \in Msgs : recvBuffer'[q] # 0 => seqOf[recvBuffer'[q]] = q
      BY <1>0, <2>2 DEF TypeOK, TypeReceiver, IInv, ReceiverInv, Buffered
    <3> QED
      BY <2>1, <2>2, <3>1, <3>2, <3>3, TakeStep
  <2>3. ASSUME Goes("b", s, "drain", "read"), UNCHANGED <<hand, recvBuffer, recvSeq>>
        PROVE  ReceiverInv'
    <3>1. /\ at["b"][s] = "drain" /\ at'["b"][s] = "read"
          /\ \A t \in Streams \ {s} : at'["b"][t] = at["b"][t]
      BY <1>0, <2>3, Moves DEF TypeOK
    <3> QED
      BY <2>1, <2>3, <3>1, DoneStep
  <2>4. ReceiverInv'
    BY <1>6, <2>2, <2>3 DEF Drain
  <2> QED
    BY <1>0, <1>1, <2>1, <2>4 DEF TypeOK
<1> QED
  BY <1>2, <1>3, <1>4, <1>5, <1>6 DEF Handle

\* Every other step is quiet at the receiver, and writes only frames of messages
\* that were made.
LEMMA OtherStep ==
  ASSUME IInv, [Next]_vars, ~\E s \in Streams : ReadChat(s) \/ Handle(s)
  PROVE  ReceiverQuiet /\ used' \in {used, used + 1} /\ chan' \in Chans(used')
<1> DEFINE Goal == ReceiverQuiet /\ used' \in {used, used + 1} /\ chan' \in Chans(used')
           Same == UNCHANGED <<used, seqOf, hand, delivered>>
<1> SUFFICES Goal
  OBVIOUS
<1>1. /\ used \in Nat /\ 1..used \subseteq Msgs /\ TypeOK /\ "a" \in Nodes
      /\ TypeLinks /\ chan \in Chans(used)
  BY BoundsAssumption DEF IInv, ReceiverInv, TypeOK, TypeSender, Msgs, Nodes
<1>2. chan \in Chans(used + 1)
  BY <1>1, GrowChans
<1>3. ASSUME chan' \in Chans(used), Same, SamePlaces \/ NewNumbers PROVE Goal
  BY <1>1, <1>3 DEF ReceiverQuiet, NumbersKept
<1>4. ASSUME UNCHANGED <<registered, at, inbox>> PROVE SamePlaces
  BY <1>4 DEF SamePlaces
<1>5. ASSUME NEW n \in Nodes, NEW s \in Streams, NEW to, to \notin Busy,
             at' = [at EXCEPT ![n][s] = to], ResetSequences(n),
             n = "b" \/ UNCHANGED registered["b"]
      PROVE  SamePlaces \/ NewNumbers
  <2>1. CASE n = "a"
    BY <1>1, <1>5, <2>1 DEF ResetSequences, SamePlaces, inbox, TypeLinks, Nodes
  <2>2. CASE n = "b"
    BY <1>1, <1>5, <2>2 DEF ResetSequences, NewNumbers, TypeLinks, Nodes
  <2> QED
    BY <2>1, <2>2 DEF Nodes
<1>6. ASSUME NEW n \in Nodes, NEW s \in Streams, NEW to, to \notin Busy,
             at[n][s] \notin Busy, at' = [at EXCEPT ![n][s] = to], UNCHANGED <<registered, inbox>>
      PROVE  SamePlaces
  BY <1>1, <1>6 DEF SamePlaces, TypeLinks, Nodes
<1>7. ASSUME NEW n \in Nodes, NEW s \in Streams, AddStream(n, s) PROVE Goal
  <2>1. SamePlaces \/ NewNumbers
    <3>1. "read" \notin Busy
      BY DEF Busy, Handling
    <3>2. n = "b" \/ registered'["b"] = registered["b"]
      BY <1>1, <1>7 DEF AddStream, TypeLinks, Nodes
    <3> QED
      BY <1>5, <1>7, <3>1, <3>2 DEF AddStream
  <2> QED
    BY <1>1, <1>3, <1>7, <2>1 DEF AddStream, chat
<1>8. ASSUME NEW n \in Nodes, NEW s \in Streams, ReadEnd(n, s) \/ LostForgets(n, s) PROVE Goal
  <2>1. SamePlaces \/ NewNumbers
    <3>1. Forgotten(n, s) \notin Busy
      BY DEF Forgotten, Last, Busy, Handling
    <3>2. n = "b" \/ registered'["b"] = registered["b"]
      BY <1>1, <1>8 DEF ReadEnd, LostForgets, ForgetPeer, TypeLinks, Nodes
    <3> QED
      BY <1>5, <1>8, <3>1, <3>2 DEF ReadEnd, LostForgets, ForgetPeer, Goes
  <2> QED
    BY <1>1, <1>3, <1>8, <2>1 DEF ReadEnd, LostForgets, chat
<1>9. ASSUME NEW n \in Nodes, NEW s \in Streams,
             ReadSessionLost(n, s) \/ ControlLost(n, s) \/ ReadReturn(n, s)
      PROVE  Goal
  <2>1. Close(n, s) /\ Same /\ UNCHANGED <<registered, inbox>>
    BY <1>9 DEF ReadSessionLost, ControlLost, ReadReturn, chat
  <2>2. PICK to \in {"lost", "none"} : at[n][s] \in {"read", "close"} /\ at' = [at EXCEPT ![n][s] = to]
    BY <1>9 DEF ReadSessionLost, ControlLost, ReadReturn, Goes
  <2>3. SamePlaces
    BY <1>6, <2>1, <2>2 DEF Busy, Handling
  <2> QED
    BY <1>1, <1>3, <2>1, <2>3, CloseType
<1>10. ASSUME NEW s \in Streams, ReadClears(s) PROVE Goal
  <2>1. /\ Same /\ UNCHANGED <<registered, inbox, chan>> /\ at["a"][s] = "clear"
        /\ at' = [at EXCEPT !["a"][s] = Last("a", s)]
    BY <1>10 DEF ReadClears, Goes, chat
  <2>2. SamePlaces
    BY <1>1, <1>6, <2>1 DEF Busy, Handling, Last
  <2> QED
    BY <1>1, <1>3, <2>1, <2>2
<1>11. ASSUME NEW n \in Nodes, NEW s \in Streams, ReadSkipped(n, s) PROVE Goal
  <2>1. Same /\ UNCHANGED <<registered, at, inbox>> /\ chan' \in Chans(used)
    BY <1>1, <1>11, TakenType DEF ReadSkipped, chat
  <2> QED
    BY <1>3, <1>4, <2>1
<1>12. ASSUME NEW s \in Streams, ReadAck(s) PROVE Goal
  <2>1. Same /\ UNCHANGED <<registered, at, inbox>> /\ chan' \in Chans(used)
    BY <1>1, <1>12, TakenType DEF ReadAck, chat
  <2> QED
    BY <1>3, <1>4, <2>1
<1>13. ASSUME NEW n \in Nodes, Dial(n) PROVE Goal
  BY <1>1, <1>3, <1>4, <1>13 DEF Dial, chat
<1>14. ASSUME NEW n \in Nodes, Disconnect(n) PROVE Goal
  <2>1. registered[n] \in Streams /\ Close(n, registered[n])
    BY <1>1, <1>14 DEF Disconnect, TypeLinks
  <2>2. chan' \in Chans(used)
    BY <1>1, <2>1, CloseType
  <2> QED
    BY <1>3, <1>4, <1>14, <2>2 DEF Disconnect, chat
<1>15. ASSUME NEW n \in Nodes, NEW s \in Streams, Abandon(n, s) PROVE Goal
  BY <1>1, <1>3, <1>4, <1>15 DEF Abandon, chat
<1>16. ASSUME NEW s \in Streams, Break(s) PROVE Goal
  <2>1. chan' \in Chans(used)
    BY <1>1, <1>16 DEF Break, Chans
  <2> QED
    BY <1>3, <1>4, <1>16, <2>1 DEF Break, chat
<1>17. ASSUME NEW m \in Msgs, NEW err \in BOOLEAN, Retransmit(m, err) PROVE Goal
  <2>1. registered["a"] \in Streams \cup {0} /\ m \in 1..used
    BY <1>1, <1>17 DEF Retransmit, TypeLinks, Sending, IInv, Msgs
  <2>2. Written(registered["a"], "a", ChatFrame(m)) \in Chans(used)
    BY <1>1, <2>1, FrameTypes, WrittenType
  <2>3. chan' \in Chans(used)
    BY <1>1, <1>17, <2>2 DEF Retransmit
  <2> QED
    BY <1>3, <1>4, <1>17, <2>3 DEF Retransmit, chat
<1>18. CASE SendLookup
  BY <1>1, <1>3, <1>4, <1>18 DEF SendLookup
<1>19. CASE SendTrack
  <2>1. NumbersKept
    BY <1>1, <1>19 DEF SendTrack, NumbersKept, IInv, TypeSender
  <2> QED
    BY <1>2, <1>4, <1>19, <2>1 DEF SendTrack, ReceiverQuiet
<1>20. ASSUME NEW caller, SendTooBig(caller) PROVE Goal
  <2>1. NumbersKept
    BY <1>1, <1>20 DEF SendTooBig, NumbersKept
  <2> QED
    BY <1>2, <1>4, <1>20, <2>1 DEF SendTooBig, ReceiverQuiet
<1>21. CASE SendWrite
  <2>1. op.stream \in Streams \cup {0} /\ used \in 1..used
    BY <1>1, <1>21 DEF SendWrite, Sending, IInv
  <2>2. Written(op.stream, "a", ChatFrame(used)) \in Chans(used)
    BY <1>1, <2>1, FrameTypes, WrittenType
  <2> QED
    BY <1>3, <1>4, <1>21, <2>2 DEF SendWrite
<1>22. ASSUME NEW caller, SendWriteFails(caller) PROVE Goal
  BY <1>1, <1>3, <1>4, <1>22 DEF SendWriteFails
<1>23. CASE InputForgets
  <2>1. SamePlaces
    BY <1>1, <1>23 DEF InputForgets, ForgetPeer, ResetSequences, SamePlaces, inbox, TypeLinks, Nodes
  <2> QED
    BY <1>1, <1>3, <1>23, <2>1 DEF InputForgets
<1>24. CASE InputClears
  BY <1>1, <1>3, <1>4, <1>24 DEF InputClears
<1>25. CASE UNCHANGED vars
  BY <1>1, <1>3, <1>4, <1>25 DEF vars, chat
<1> HIDE DEF Goal, Same
<1>26. CASE Send
  BY <1>18, <1>19, <1>20, <1>21, <1>22, <1>23, <1>24, <1>26 DEF Send
<1>27. ASSUME NEW n \in Nodes, NEW s \in Streams, Read(n, s) PROVE Goal
  BY <1>8, <1>9, <1>10, <1>11, <1>12, <1>27 DEF Read
<1> QED
  BY <1>7, <1>9, <1>13, <1>14, <1>15, <1>16, <1>17, <1>25, <1>26, <1>27 DEF Next

-----------------------------------------------------------------------------
(* The theorems.                                                            *)

\* Nothing is registered, made or shown at first.
LEMMA InitIInv == Init => IInv
<1> SUFFICES ASSUME Init PROVE IInv
  OBVIOUS
<1> USE BoundsAssumption DEF Init
<1>1. TypeLinks /\ RegisteredIsRead
  BY DEF TypeLinks, RegisteredIsRead, Positions
<1>2. TypeSender /\ Sending
  BY DEF TypeSender, Sending, Idle
<1>3. ReceiverInv
  <2>1. 0 \in 0..0 /\ <<>> \in Seq(1..0) /\ Len(<<>>) = 0
    OBVIOUS
  <2>2. TypeReceiver
    BY <2>1 DEF TypeReceiver, NoBuffer
  <2>3. \A s \in Streams : at["b"][s] = "none"
    BY DEF Nodes
  <2>4. Held /\ Buffered /\ Alone
    BY <2>3 DEF Held, Holding, Buffered, NoBuffer, Alone, Handling
  <2>5. Counted /\ InOrderPerReset
    BY <2>1, <2>3 DEF Counted, InOrderPerReset
  <2> QED
    BY <2>2, <2>4, <2>5 DEF ReceiverInv
<1>4. chan \in Chans(used)
  <2>1. <<>> \in Seq(Frames(used))
    OBVIOUS
  <2> QED
    BY <2>1 DEF Chans
<1> QED
  BY <1>1, <1>2, <1>3, <1>4 DEF IInv

\* Every step keeps the invariant.
LEMMA NextIInv == IInv /\ [Next]_vars => IInv'
<1> SUFFICES ASSUME IInv, [Next]_vars PROVE IInv'
  OBVIOUS
<1>1. TypeLinks' /\ RegisteredIsRead' /\ TypeSender' /\ Sending'
  BY LinksStep, SenderStep DEF IInv
<1>2. ReceiverInv' /\ chan' \in Chans(used')
  <2>1. CASE \E s \in Streams : ReadChat(s) \/ Handle(s)
    BY <2>1, HandleStep
  <2>2. CASE ~\E s \in Streams : ReadChat(s) \/ Handle(s)
    <3>1. ReceiverQuiet /\ used' \in {used, used + 1} /\ chan' \in Chans(used')
      BY <2>2, OtherStep
    <3>2. used \in Nat /\ used' \in Nat /\ ReceiverInv
      BY <3>1, BoundsAssumption DEF IInv, TypeSender
    <3> QED
      BY <3>1, <3>2, QuietKeeps
  <2> QED
    BY <2>1, <2>2
<1> QED
  BY <1>1, <1>2 DEF IInv

\* The invariant is inductive.
THEOREM Invariance == Spec => []IInv
BY InitIInv, NextIInv, PTL DEF Spec

\* With any number of streams dialled from both sides, replaced, closed and
\* broken: a stream in sm.streams always has a readLoop that will still forget
\* the peer when the stream ends.
THEOREM RegisteredAlwaysRead == Spec => []RegisteredIsRead
<1>1. IInv => RegisteredIsRead
  BY DEF IInv
<1> QED
  BY <1>1, Invariance, PTL

\* Since a reset that met no readLoop in the middle of a message, the receiver
\* shows the numbers 1, 2, 3, ... in order, although taking a number and showing
\* the message are separate steps, whatever is buffered, and whatever is
\* retransmitted on other streams.
THEOREM OrderPerReset == Spec => []InOrderPerReset
<1>1. IInv => InOrderPerReset
  BY DEF IInv, ReceiverInv
<1> QED
  BY <1>1, Invariance, PTL
=============================================================================
