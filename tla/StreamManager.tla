--------------------------- MODULE StreamManager ----------------------------
(***************************************************************************)
(* The life of the streams between two nodes (main.go, chat_envelope.go):  *)
(* both may dial, each registers a stream when its own handshake is done,  *)
(* every registered stream has a readLoop, and streams end by a local      *)
(* close, by the remote end or with the connection.  Node "a" sends chat   *)
(* messages to node "b" over whatever stream it has registered, and the    *)
(* retransmission loop outlives the streams.                               *)
(*                                                                         *)
(* A stream is reliable and ordered while it is open.  Its session is      *)
(* named by the stream: a frame sealed on stream s opens only where s is   *)
(* the registered stream, because readLoop decrypts with the session       *)
(* registered at that moment.  What was decrypted is handled in later      *)
(* steps, one for each lock that handleEnvelope takes, with the sequence   *)
(* state there is by then; forgetPeer, too, takes its two locks one after  *)
(* the other.  Message texts, the receive buffer's limit and the races     *)
(* inside one retransmission pass are in ChatTransport.                    *)
(***************************************************************************)
EXTENDS Integers, Sequences, FiniteSets

CONSTANTS MaxStreams,         \* bound on the streams ever dialled
          MaxMsgs,            \* bound on the messages sent
          MaxEvents,          \* bound on the messages and the streams ended from
                              \* outside (refused, disconnected, broken), together
          maxPendingRetries,  \* 5 in the code
          Dialers,            \* the nodes that dial
          Callers             \* who calls sendChat: "cli", "web"

ASSUME BoundsAssumption == MaxStreams \in Nat /\ MaxMsgs \in Nat /\ MaxEvents \in Nat
ASSUME RetriesAssumption == maxPendingRetries \in Nat \ {0}
ASSUME DialersAssumption == /\ Dialers \subseteq {"a", "b"}
                            /\ Callers \subseteq {"cli", "web"}

VARIABLES dialled,     \* streams 1..dialled exist
          joined,      \* joined[s]: the ends whose AddStream registered s
          closed,      \* closed[s]: the ends that closed s
          ends,        \* streams ended from outside so far
          registered,  \* registered[n]: sm.streams and sm.sessions, or 0
          at,          \* at[n][s]: where n's readLoop of s is
          chan,        \* chan[s][n]: frames n wrote on s, not yet read
          sendSeq,     \* sequence number at "a" for its current stream
          op,          \* the sendChat call in progress at "a"
          used,        \* messages created so far; their IDs are 1..used
          seqOf,       \* seqOf[m]: the sequence number in m's envelope
          attempts,    \* attempts[m] of the pending entry, 0: not pending
          hand,        \* hand[s]: the message b's readLoop of s is handling, or 0
          recvSeq,     \* last sequence number delivered at "b"
          recvBuffer,  \* recvBuffer[q]: the early message number q, or 0
          delivered,   \* the messages shown at "b"
          base,        \* how many were shown when "b" last reset its numbers
          late         \* b's readLoops that were handling a message then

links  == <<dialled, joined, ends>>
chat   == <<op, used, seqOf>>
books  == <<sendSeq, attempts>>
inbox  == <<recvSeq, recvBuffer, base, late>>
vars   == <<links, closed, registered, at, chan, chat, books, hand, inbox, delivered>>

Nodes == {"a", "b"}
Other(n) == IF n = "a" THEN "b" ELSE "a"
Streams == 1..MaxStreams
Msgs == 1..MaxMsgs
NoBuffer == [q \in Msgs |-> 0]
Idle == [pc |-> "idle", stream |-> 0]

ChatFrame(m) == [type |-> "chat", msg |-> m, seq |-> seqOf[m]]
AckFrame(m) == [type |-> "ack", msg |-> m, seq |-> 0]

Init ==
  /\ dialled = 0 /\ ends = 0
  /\ joined = [s \in Streams |-> {}] /\ closed = [s \in Streams |-> {}]
  /\ registered = [n \in Nodes |-> 0]
  /\ at = [n \in Nodes |-> [s \in Streams |-> "none"]]
  /\ chan = [s \in Streams |-> [n \in Nodes |-> <<>>]]
  /\ sendSeq = 0 /\ op = Idle /\ used = 0
  /\ seqOf = [m \in Msgs |-> 0] /\ attempts = [m \in Msgs |-> 0]
  /\ hand = [s \in Streams |-> 0]
  /\ recvSeq = 0 /\ recvBuffer = NoBuffer /\ delivered = <<>> /\ base = 0
  /\ late = {}

-----------------------------------------------------------------------------
(* Streams.                                                                *)

\* connectToPeer and ReconnectPeer: refused if a stream is registered, else a
\* new stream is opened and the request sent.
Dial(n) ==
  /\ n \in Dialers /\ registered[n] = 0 /\ dialled < MaxStreams
  /\ dialled' = dialled + 1
  /\ UNCHANGED <<joined, ends, closed, registered, at, chan, chat, books,
                 inbox, hand, delivered>>

\* The messages begun and the streams ended so far.
Events == used + ends + (IF op.pc = "looked" THEN 1 ELSE 0)

\* One more stream ends.
AnEnd == /\ Events < MaxEvents /\ ends' = ends + 1
         /\ UNCHANGED <<dialled, joined>>

\* Rejected, timed out, or the handshake failed: the end closes its stream.
Abandon(n, s) ==
  /\ AnEnd
  /\ s <= dialled /\ n \notin joined[s] /\ n \notin closed[s]
  /\ closed' = [closed EXCEPT ![s] = @ \cup {n}]
  /\ UNCHANGED <<registered, at, chan, chat, books, inbox, hand, delivered>>

\* Where a readLoop still works with the numbers: a message decrypted and not
\* handled, handled and not shown, and what comes before the buffer is drained.
Handling == {"chat", "show", "shown", "drain"}

\* What AddStream and forgetPeer reset of the per-peer chat state.
ResetSequences(n) ==
  /\ sendSeq' = IF n = "a" THEN 0 ELSE sendSeq
  /\ recvSeq' = IF n = "b" THEN 0 ELSE recvSeq
  /\ recvBuffer' = IF n = "b" THEN NoBuffer ELSE recvBuffer
  /\ base' = IF n = "b" THEN Len(delivered) ELSE base
  /\ late' = IF n = "b" THEN {s \in Streams : at["b"][s] \in Handling} ELSE late

Joins(n, s) ==
  /\ s <= dialled /\ n \notin joined[s] /\ n \notin closed[s]
  /\ Other(n) \in joined[s] \/ Other(n) \notin closed[s]
  /\ joined' = [joined EXCEPT ![s] = @ \cup {n}]

\* Slip for RegisteredIsRead: the readLoop is only started for a first stream.
AddStreamOneReader(n, s) ==
  /\ Joins(n, s)
  /\ registered' = [registered EXCEPT ![n] = s]
  /\ at' = IF registered[n] # 0 THEN at ELSE [at EXCEPT ![n][s] = "read"]
  /\ ResetSequences(n)
  /\ UNCHANGED <<dialled, ends, closed, chan, chat, attempts, hand, delivered>>

\* AddStream: the handshake succeeded; the stream replaces whatever was
\* registered, the sequence numbers restart and a readLoop starts.  Pending
\* messages stay.  The nickname it sends is a control frame: see ControlLost.
AddStream(n, s) ==
  /\ Joins(n, s)
  /\ registered' = [registered EXCEPT ![n] = s]
  /\ at' = [at EXCEPT ![n][s] = "read"]
  /\ ResetSequences(n)
  /\ UNCHANGED <<dialled, ends, closed, chan, chat, attempts, hand, delivered>>

\* Writing f at end n on stream s: lost if an end is closed, or if there is no
\* stream.
Written(s, n, f) == IF s = 0 \/ closed[s] # {} THEN chan
                    ELSE [chan EXCEPT ![s][n] = Append(@, f)]

\* forgetPeer under mu; it knows the peer and not the stream.
ForgetPeer(n) ==
  /\ registered' = [registered EXCEPT ![n] = 0]
  /\ ResetSequences(n)

\* Then clearPending, under pendingMu, at "a"; "b" has sent nothing.
ClearPending == attempts' = [m \in Msgs |-> 0]

\* End n closes s: frames written to it are never read.
Close(n, s) == /\ closed' = [closed EXCEPT ![s] = @ \cup {n}]
               /\ chan' = [chan EXCEPT ![s][Other(n)] = <<>>]

\* /disconnect: only closes the stream; the readLoop does the rest.
Disconnect(n) ==
  /\ AnEnd
  /\ registered[n] # 0 /\ n \notin closed[registered[n]]
  /\ Close(n, registered[n])
  /\ UNCHANGED <<registered, at, chat, books, inbox, hand, delivered>>

\* The connection under a stream fails: both ends see an error.
Break(s) ==
  /\ AnEnd
  /\ s <= dialled /\ closed[s] # Nodes
  /\ closed' = [closed EXCEPT ![s] = Nodes]
  /\ chan' = [chan EXCEPT ![s] = [n \in Nodes |-> <<>>]]
  /\ UNCHANGED <<registered, at, chat, books, inbox, hand, delivered>>

-----------------------------------------------------------------------------
(* Chat: the sender "a".                                                   *)

\* sendChat reads the stream and session, then waits for sendMu.
SendLookup ==
  /\ op.pc = "idle" /\ used < MaxMsgs /\ Events < MaxEvents
  /\ registered["a"] # 0
  /\ op' = [pc |-> "looked", stream |-> registered["a"]]
  /\ UNCHANGED <<links, closed, registered, at, chan, used, seqOf,
                 books, inbox, hand, delivered>>

\* Under sendMu: the next sequence number, the envelope, trackPending.
SendTrack ==
  /\ op.pc = "looked"
  /\ op' = [pc |-> "tracked", stream |-> op.stream]
  /\ used' = used + 1
  /\ sendSeq' = sendSeq + 1
  /\ seqOf' = [seqOf EXCEPT ![used + 1] = sendSeq + 1]
  /\ attempts' = [attempts EXCEPT ![used + 1] = 1]
  /\ UNCHANGED <<links, closed, registered, at, chan, inbox, hand, delivered>>

\* Where the caller of a failed sendChat goes on: the command line to
\* forgetPeer, which does not close the stream; a web client only shows the error.
AfterFailure(caller) == IF caller = "cli" THEN [pc |-> "failed", stream |-> 0] ELSE Idle

\* The envelope is too large: the number is spent.
SendTooBig(caller) ==
  /\ op.pc = "looked"
  /\ op' = AfterFailure(caller)
  /\ used' = used + 1 /\ sendSeq' = sendSeq + 1
  /\ UNCHANGED <<links, closed, registered, at, chan, seqOf, attempts,
                 inbox, hand, delivered>>

SendWrite ==
  /\ op.pc = "tracked" /\ "a" \notin closed[op.stream]
  /\ chan' = Written(op.stream, "a", ChatFrame(used))
  /\ op' = Idle
  /\ UNCHANGED <<links, closed, registered, at, used, seqOf, books,
                 inbox, hand, delivered>>

\* The write fails: ackPending.
SendWriteFails(caller) ==
  /\ op.pc = "tracked" /\ closed[op.stream] # {}
  /\ op' = AfterFailure(caller)
  /\ attempts' = [attempts EXCEPT ![used] = 0]
  /\ UNCHANGED <<links, closed, registered, at, chan, used, seqOf, sendSeq,
                 inbox, hand, delivered>>

\* HandleInput after a failure: forgetPeer in its two steps.
InputForgets ==
  /\ op.pc = "failed"
  /\ op' = [pc |-> "clear", stream |-> 0]
  /\ ForgetPeer("a")
  /\ UNCHANGED <<links, closed, at, chan, used, seqOf, attempts, hand, delivered>>
InputClears ==
  /\ op.pc = "clear" /\ op' = Idle
  /\ ClearPending
  /\ UNCHANGED <<links, closed, registered, at, chan, used, seqOf, sendSeq,
                 inbox, hand, delivered>>

\* A write on stream s of "a" fails surely if "a" closed it, and perhaps if "b" did.
MayFail(s) == IF closed[s] = {} THEN {FALSE}
              ELSE IF "a" \in closed[s] THEN {TRUE} ELSE BOOLEAN

\* retransmitDue for one message, on the stream registered now; passed over
\* while there is none.  It is given up at the limit, or when the write fails.
Retransmit(m, err) ==
  /\ attempts[m] > 0 /\ registered["a"] # 0
  /\ err \in MayFail(registered["a"])
  /\ chan' = IF err THEN chan ELSE Written(registered["a"], "a", ChatFrame(m))
  /\ attempts' = [attempts EXCEPT
       ![m] = IF err \/ @ >= maxPendingRetries THEN 0 ELSE @ + 1]
  /\ UNCHANGED <<links, closed, registered, at, chat, sendSeq, inbox, hand,
                 delivered>>

-----------------------------------------------------------------------------
(* readLoop of stream s at end n: it reads a line, fetches the registered  *)
(* session, decrypts with it and then handles the envelope.                *)

Goes(n, s, from, to) == at[n][s] = from /\ at' = [at EXCEPT ![n][s] = to]

Incoming(n, s) == n \notin closed[s] /\ chan[s][Other(n)] # <<>>
Frame(n, s) == Head(chan[s][Other(n)])
Taken(n, s) == [chan EXCEPT ![s][Other(n)] = Tail(@)]

Ended(n, s) == \/ n \in closed[s]
               \/ Other(n) \in closed[s] /\ chan[s][Other(n)] = <<>>

\* After forgetPeer the stream is closed, if it is not yet, and readLoop returns.
Last(n, s) == IF n \in closed[s] THEN "none" ELSE "close"
Forgotten(n, s) == IF n = "a" THEN "clear" ELSE Last(n, s)

\* Slip for DeadStreamForgotten: after an error other than io.EOF, on a broken
\* connection or a stream closed here, readLoop tries again.
ReadEndOnlyEOF(n, s) ==
  /\ Goes(n, s, "read", Forgotten(n, s)) /\ Ended(n, s) /\ n \notin closed[s]
  /\ ForgetPeer(n)
  /\ UNCHANGED <<links, closed, chan, chat, attempts, hand, delivered>>

\* readLoop meets the end of its stream and forgets the peer.
ReadEnd(n, s) ==
  /\ Goes(n, s, "read", Forgotten(n, s)) /\ Ended(n, s)
  /\ ForgetPeer(n)
  /\ UNCHANGED <<links, closed, chan, chat, attempts, hand, delivered>>

\* Slip for HalfOpenHeals: the frame is skipped and the stream read on.
ReadSessionLostIgnored(n, s) ==
  /\ Goes(n, s, "read", "read") /\ Incoming(n, s) /\ registered[n] = 0
  /\ chan' = Taken(n, s)
  /\ UNCHANGED <<links, closed, registered, chat, books, inbox, hand, delivered>>

\* No session is registered: the stream is closed; the peer is forgotten later,
\* whatever stream is registered by then.
ReadSessionLost(n, s) ==
  /\ Goes(n, s, "read", "lost") /\ Incoming(n, s) /\ registered[n] = 0
  /\ Close(n, s)
  /\ UNCHANGED <<links, registered, chat, books, inbox, hand, delivered>>
LostForgets(n, s) ==
  /\ Goes(n, s, "lost", Forgotten(n, s))
  /\ ForgetPeer(n)
  /\ UNCHANGED <<links, closed, chan, chat, attempts, hand, delivered>>

ReadClears(s) ==
  /\ Goes("a", s, "clear", Last("a", s))
  /\ ClearPending
  /\ UNCHANGED <<links, closed, registered, chan, chat, sendSeq, inbox, hand, delivered>>
ReadReturn(n, s) ==
  /\ Goes(n, s, "close", "none")
  /\ Close(n, s)
  /\ UNCHANGED <<links, registered, chat, books, inbox, hand, delivered>>

\* The same for a control frame: the nickname that AddStream sends on whatever
\* stream is registered when it looks, or a latency message.  Control frames
\* change nothing modelled here and are not kept in chan; one may come any time,
\* after the frames in chan, on a stream that the other end has registered once.
ControlLost(n, s) ==
  /\ Goes(n, s, "read", "lost") /\ n \notin closed[s] /\ registered[n] = 0
  /\ Other(n) \in joined[s] /\ chan[s][Other(n)] = <<>>
  /\ Close(n, s)
  /\ UNCHANGED <<links, registered, chat, books, inbox, hand, delivered>>

\* Another session is registered: Decrypt fails and the frame is skipped.
ReadSkipped(n, s) ==
  /\ at[n][s] = "read" /\ Incoming(n, s) /\ registered[n] \notin {0, s}
  /\ chan' = Taken(n, s)
  /\ UNCHANGED <<links, closed, registered, at, chat, books, inbox, hand,
                 delivered>>

\* handleEnvelope, TypeAck at "a": the pending entry is found by its ID, so it
\* does not matter which stream is registered by then.
ReadAck(s) ==
  /\ at["a"][s] = "read" /\ Incoming("a", s) /\ registered["a"] = s
  /\ Frame("a", s).type = "ack"
  /\ chan' = Taken("a", s)
  /\ attempts' = [attempts EXCEPT ![Frame("a", s).msg] = 0]
  /\ UNCHANGED <<links, closed, registered, at, chat, sendSeq, inbox,
                 hand, delivered>>

\* A chat message at "b" opens with the session of its own stream.
ReadChat(s) ==
  /\ Goes("b", s, "read", "chat") /\ Incoming("b", s) /\ registered["b"] = s
  /\ Frame("b", s).type = "chat"
  /\ chan' = Taken("b", s)
  /\ hand' = [hand EXCEPT ![s] = Frame("b", s).msg]
  /\ UNCHANGED <<links, closed, registered, chat, books, inbox, delivered>>

Number(s) == seqOf[hand[s]]
HandleUnchanged == UNCHANGED <<links, closed, registered, chat, books,
                               base, late>>

\* Slip for InOrderPerReset: a number already delivered is shown again.
HandleDuplicateShown(s) ==
  /\ Goes("b", s, "chat", "show") /\ Number(s) <= recvSeq
  /\ UNCHANGED <<chan, recvSeq, recvBuffer, hand, delivered>> /\ HandleUnchanged

\* handleEnvelope, TypeChat, under mu.  A number already delivered.
HandleDuplicate(s) ==
  /\ Goes("b", s, "chat", "ack") /\ Number(s) <= recvSeq
  /\ UNCHANGED <<chan, recvSeq, recvBuffer, hand, delivered>> /\ HandleUnchanged

\* An early number: buffered under its sequence number.
HandleEarly(s) ==
  /\ Goes("b", s, "chat", "ack") /\ Number(s) > recvSeq + 1
  /\ recvBuffer' = [recvBuffer EXCEPT ![Number(s)] = hand[s]]
  /\ UNCHANGED <<chan, recvSeq, hand, delivered>> /\ HandleUnchanged

\* The next number: taken now, shown when mu is released.
HandleNext(s) ==
  /\ Goes("b", s, "chat", "show") /\ Number(s) = recvSeq + 1
  /\ recvSeq' = recvSeq + 1
  /\ UNCHANGED <<chan, recvBuffer, hand, delivered>> /\ HandleUnchanged

\* deliverChat, no lock held.
Show(s) ==
  /\ Goes("b", s, "show", "shown")
  /\ delivered' = Append(delivered, hand[s])
  /\ UNCHANGED <<chan, recvSeq, recvBuffer, hand>> /\ HandleUnchanged

\* sendAck, on the stream registered now; the buffer is drained next after a
\* message that was shown.
Acknowledge(s) ==
  /\ \/ Goes("b", s, "ack", "read")
     \/ Goes("b", s, "shown", "drain")
  /\ chan' = Written(registered["b"], "b", AckFrame(hand[s]))
  /\ hand' = [hand EXCEPT ![s] = 0]
  /\ UNCHANGED <<recvSeq, recvBuffer, delivered>> /\ HandleUnchanged

\* drainReceiveBuffer, one lock: the next number is taken from the buffer, to be
\* shown, or is not there.
Drain(s) ==
  /\ \/ /\ recvSeq + 1 \in Msgs /\ recvBuffer[recvSeq + 1] # 0
        /\ Goes("b", s, "drain", "show")
        /\ hand' = [hand EXCEPT ![s] = recvBuffer[recvSeq + 1]]
        /\ recvBuffer' = [recvBuffer EXCEPT ![recvSeq + 1] = 0]
        /\ recvSeq' = recvSeq + 1
     \/ /\ recvSeq + 1 \in Msgs => recvBuffer[recvSeq + 1] = 0
        /\ Goes("b", s, "drain", "read")
        /\ UNCHANGED <<hand, recvBuffer, recvSeq>>
  /\ UNCHANGED <<chan, delivered>> /\ HandleUnchanged

Handle(s) == \/ HandleDuplicate(s) \/ HandleEarly(s) \/ HandleNext(s)
             \/ Show(s) \/ Acknowledge(s) \/ Drain(s)

Read(n, s) == \/ ReadEnd(n, s) \/ ReadReturn(n, s)
              \/ ReadSessionLost(n, s) \/ LostForgets(n, s) \/ ReadSkipped(n, s)
              \/ n = "a" /\ (ReadClears(s) \/ ReadAck(s))
              \/ n = "b" /\ (ReadChat(s) \/ Handle(s))

Send == \/ SendLookup \/ SendTrack \/ SendWrite \/ InputForgets \/ InputClears
        \/ \E caller \in Callers : SendTooBig(caller) \/ SendWriteFails(caller)

Next == \/ \E n \in Nodes : Dial(n) \/ Disconnect(n)
        \/ \E n \in Nodes, s \in Streams :
             Abandon(n, s) \/ AddStream(n, s) \/ ControlLost(n, s)
             \/ Read(n, s)
        \/ \E s \in Streams : Break(s)
        \/ \E m \in Msgs, err \in BOOLEAN : Retransmit(m, err)
        \/ Send

Spec == Init /\ [][Next]_vars

\* Every readLoop keeps reading and handling, and its writes return.  Nothing is
\* assumed of the users, of sendChat and of the retransmit loop.
FairSpec == Spec /\ \A n \in Nodes, s \in Streams : WF_vars(Read(n, s))

-----------------------------------------------------------------------------
\* A registered stream always has a readLoop that will still forget the peer:
\* otherwise nobody would notice its end, and the peer would look connected for
\* ever.
RegisteredIsRead ==
  \A n \in Nodes : registered[n] # 0 => at[n][registered[n]] \notin {"none", "clear", "close"}

\* Since "b" last registered or forgot the peer, the messages shown carry the
\* sender's numbers 1, 2, 3, ..., unless a readLoop was handling a message at
\* that moment: handleEnvelope takes a number under mu and shows the message
\* without it, so such a readLoop may show an old message later.
InOrderPerReset ==
  late = {} => \A i \in (base + 1)..Len(delivered) : seqOf[delivered[i]] = i - base

\* A registered stream that ended does not stay in the maps, also when it was
\* replaced, dialled twice or closed from both sides.
Dead(n) == registered[n] # 0 /\ Ended(n, registered[n])
DeadStreamForgotten == (\E n \in Nodes : Dead(n)) ~> (\A n \in Nodes : ~Dead(n))

\* A peer that forgot the connection makes the other end notice: once a frame
\* of n is on its way to an end with no session, n forgets the connection
\* (readLoop's lost-session branch closes the stream), unless the peer has a
\* session again or n went on to a stream that the peer has not registered yet.
HalfOpen(n) == /\ registered[n] # 0 /\ registered[Other(n)] = 0
               /\ Other(n) \in joined[registered[n]]
HalfOpenHeals ==
  \A n \in Nodes :
    (/\ HalfOpen(n) /\ at[Other(n)][registered[n]] # "none"
     /\ chan[registered[n]][n] # <<>>) ~> ~HalfOpen(n)
=============================================================================
