--------------------------- MODULE ChatTransport ----------------------------
(***************************************************************************)
(* Reliable, ordered chat over one established stream (chat_envelope.go):  *)
(* the sender assigns sequence numbers, keeps what is not acknowledged and *)
(* retransmits it; the receiver delivers in order, buffers what is early   *)
(* and acknowledges.  One direction is modelled, from the local node to    *)
(* one remote peer; the other direction is its mirror image.  Within one   *)
(* stream the sequence number identifies the envelope, so messages are     *)
(* numbers and the envelope ID is not kept apart.  Three goroutines work   *)
(* on the sender: the command line and a web client, which call sendChat,  *)
(* and the readLoop of the stream.                                         *)
(*                                                                         *)
(* The medium is a bag of frames that may be reordered, and a frame may be *)
(* lost: readLoop silently skips a line it cannot decrypt or decode.  This *)
(* is wider than the TCP stream of today and is what the sequence check is *)
(* for.  Registering and replacing streams is module StreamManager.        *)
(***************************************************************************)
EXTENDS Integers, Sequences, FiniteSets

CONSTANTS MaxMsgs,            \* bound on the messages sent
          MaxLoss,            \* bound on the frames the medium loses
          maxPendingRetries,  \* 5 in the code
          maxReceiveBuffer,   \* 64 in the code
          Kinds,              \* kinds of text a user may send
          Callers             \* who calls sendChat: "cli", "web"

ASSUME MaxMsgsAssumption == MaxMsgs \in Nat
ASSUME LimitsAssumption == /\ maxPendingRetries \in Nat \ {0}
                           /\ maxReceiveBuffer \in Nat
ASSUME KindsAssumption == /\ Kinds \subseteq {"text", "blank", "big"}
                          /\ Callers \subseteq {"cli", "web"}

VARIABLES sendSeq,     \* last sequence number assigned
          kind,        \* kind[n]: "text", "blank" (only spaces) or "big"
          pc,          \* pc[c]: where the goroutine c is
          sending,     \* the message tracked but not yet written, or 0
          attempts,    \* attempts[n] of the pending entry, 0: not pending
          due,         \* what is left of retransmitDue's snapshot
          rtx,         \* the message retransmitDue just wrote, or 0
          rtxErr,      \* "err" if that write failed, else "ok"
          peer,        \* "known" while the sender has it in sm.streams
          refused,     \* messages for which sendChat returned an error
          reported,    \* messages given up with "Message delivery failed"
          acked,       \* messages whose acknowledgement ended the tracking
          writes,      \* writes[n]: times n was written to the stream
          recvSeq,     \* receiver: last delivered sequence number
          buffer,      \* receiver: sequence numbers held in recvBuffer
          delivered,   \* receiver: what deliverChat was called with
          chatNet,     \* chatNet[n]: copies of n in flight
          ackNet,      \* ackNet[n]: acknowledgements of n in flight
          link,        \* "up" while the stream accepts writes
          losses       \* frames lost so far

sender   == <<sendSeq, kind, pc, sending, refused>>
retrans  == <<due, rtx, rtxErr, reported>>
receiver == <<recvSeq, buffer, delivered>>
vars == <<sender, retrans, attempts, peer, acked, writes, receiver,
          chatNet, ackNet, link, losses>>

Msgs == 1..MaxMsgs
Goroutines == Callers \cup {"reader"}
\* The stream accepts writes; the sender has the peer in its maps.
up == link = "up"
registered == peer = "known"

Pending == {n \in Msgs : attempts[n] > 0}

Init ==
  /\ sendSeq = 0 /\ sending = 0 /\ rtx = 0 /\ rtxErr = "ok" /\ losses = 0
  /\ kind = [n \in Msgs |-> "none"]
  /\ pc = [c \in Goroutines |-> IF c = "reader" THEN "read" ELSE "idle"]
  /\ attempts = [n \in Msgs |-> 0]
  /\ writes = [n \in Msgs |-> 0]
  /\ chatNet = [n \in Msgs |-> 0] /\ ackNet = [n \in Msgs |-> 0]
  /\ due = {} /\ refused = {} /\ reported = {} /\ acked = {} /\ buffer = {}
  /\ recvSeq = 0 /\ delivered = <<>>
  /\ peer = "known" /\ link = "up"

-----------------------------------------------------------------------------
(* The sender.                                                             *)

At(c, from, to) == pc[c] = from /\ pc' = [pc EXCEPT ![c] = to]

\* sendChat finds the stream and waits for sendMu.
SendLookup(c) ==
  /\ registered /\ At(c, "idle", "looked")
  /\ UNCHANGED <<sendSeq, kind, sending, refused, retrans, attempts, peer,
                 acked, writes, receiver, chatNet, ackNet, link, losses>>

\* Under sendMu the message takes its number.  After forgetPeer the code starts
\* again at 1; the model counts on, so that the message keeps a name of its own.
Assign(k) ==
  /\ sending = 0 /\ sendSeq < MaxMsgs
  /\ sendSeq' = sendSeq + 1
  /\ kind' = [kind EXCEPT ![sendSeq + 1] = IF registered THEN k ELSE "late"]

\* sendChat up to trackPending.  The peer may have been forgotten since the
\* stream was looked up, and its pending entries cleared.
SendTrack(c, k) ==
  /\ k # "big" /\ At(c, "looked", "writing")
  /\ Assign(k)
  /\ sending' = sendSeq + 1
  /\ attempts' = [attempts EXCEPT ![sendSeq + 1] = 1]
  /\ UNCHANGED <<retrans, peer, refused, acked, writes, receiver,
                 chatNet, ackNet, link, losses>>

\* After sendChat failed, HandleInput (cli) forgets the peer, while
\* sendMessageToPeer (web) only reports the error.
AfterFailure(c) == IF c = "cli" THEN "failed" ELSE "idle"

\* sendChat of a text over MaxBodySize: newChatEnvelope fails after the
\* sequence number was taken.
SendTooBig(c, k) ==
  /\ k = "big" /\ At(c, "looked", AfterFailure(c))
  /\ Assign(k)
  /\ refused' = refused \cup {sendSeq + 1}
  /\ UNCHANGED <<retrans, sending, attempts, peer, acked, writes, receiver,
                 chatNet, ackNet, link, losses>>

\* sendChat writes the frame and releases sendMu.  What the receiver makes of
\* a late message, whose number started again, is in module StreamManager.
SendWrite(c) ==
  /\ sending # 0 /\ up /\ At(c, "writing", "idle")
  /\ chatNet' = IF kind[sending] = "late" THEN chatNet
                ELSE [chatNet EXCEPT ![sending] = @ + 1]
  /\ writes' = [writes EXCEPT ![sending] = @ + 1]
  /\ sending' = 0
  /\ UNCHANGED <<sendSeq, kind, refused, retrans, attempts, peer, acked,
                 receiver, ackNet, link, losses>>

\* The write fails: sendChat drops the pending entry (ackPending) and returns
\* the error to its caller.
SendWriteFails(c) ==
  /\ sending # 0 /\ ~up /\ At(c, "writing", AfterFailure(c))
  /\ refused' = refused \cup {sending}
  /\ attempts' = [attempts EXCEPT ![sending] = 0]
  /\ sending' = 0
  /\ UNCHANGED <<sendSeq, kind, retrans, peer, acked, writes, receiver, chatNet,
                 ackNet, link, losses>>

\* handleEnvelope, TypeAck: ackPending.
RecvAck(n) ==
  /\ pc["reader"] = "read" /\ ackNet[n] > 0
  /\ ackNet' = [ackNet EXCEPT ![n] = @ - 1]
  /\ acked' = IF attempts[n] > 0 THEN acked \cup {n} ELSE acked
  /\ attempts' = [attempts EXCEPT ![n] = 0]
  /\ UNCHANGED <<sender, retrans, peer, writes, receiver, chatNet, link,
                 losses>>

\* forgetPeer: the stream leaves the maps, after a failed sendChat of the
\* command line or when readLoop met the end of the stream.
ForgetPeer(c) ==
  /\ pc[c] \in {"failed", "read"}
  /\ pc' = [pc EXCEPT ![c] = "clear"]
  /\ peer' = "forgotten"
  /\ UNCHANGED <<sendSeq, kind, sending, refused, retrans, attempts, acked,
                 writes, receiver, chatNet, ackNet, link, losses>>

\* It goes on with clearPending, no lock held in between: every pending entry
\* goes, unreported.
ClearPending(c) ==
  /\ At(c, "clear", IF c = "reader" THEN "ended" ELSE "idle")
  /\ attempts' = [n \in Msgs |-> 0]
  /\ UNCHANGED <<sendSeq, kind, sending, refused, retrans, peer, acked, writes,
                 receiver, chatNet, ackNet, link, losses>>

-----------------------------------------------------------------------------
(* retransmitLoop: one goroutine, so one pass at a time.                   *)

\* Slip for EveryPendingEnds: an entry at its last attempt is never due.
RetransmitSnapshotSkipsLast(S) ==
  /\ due = {} /\ rtx = 0 /\ S # {}
  /\ \A n \in S : attempts[n] < maxPendingRetries
  /\ due' = S
  /\ UNCHANGED <<sender, rtx, rtxErr, reported, attempts, peer, acked,
                 writes, receiver, chatNet, ackNet, link, losses>>

\* retransmitDue collects the entries last sent two seconds ago or more.
RetransmitSnapshot(S) ==
  /\ due = {} /\ rtx = 0 /\ S # {}
  /\ due' = S
  /\ UNCHANGED <<sender, rtx, rtxErr, reported, attempts, peer, acked,
                 writes, receiver, chatNet, ackNet, link, losses>>

\* The next entry of the snapshot is written, even if it was acknowledged
\* since; pendingMu is not held.
RetransmitWrite(n) ==
  /\ rtx = 0 /\ registered
  /\ due' = due \ {n}
  /\ rtx' = n
  /\ rtxErr' = IF up THEN "ok" ELSE "err"
  /\ chatNet' = IF up THEN [chatNet EXCEPT ![n] = @ + 1] ELSE chatNet
  /\ writes' = IF up THEN [writes EXCEPT ![n] = @ + 1] ELSE writes
  /\ UNCHANGED <<sender, reported, attempts, peer, acked, receiver,
                 ackNet, link, losses>>

\* No stream for the peer any more: the entry is passed over.
RetransmitSkip(n) ==
  /\ rtx = 0 /\ ~registered
  /\ due' = due \ {n}
  /\ UNCHANGED <<sender, rtx, rtxErr, reported, attempts, peer, acked,
                 writes, receiver, chatNet, ackNet, link, losses>>

GiveUp == rtxErr = "err" \/ attempts[rtx] >= maxPendingRetries

\* Slips: an attempt is not counted (WriteBound);
\* a message given up is not reported (NoSilentDrop); the entry is not looked
\* up again (OneOutcome).
RetransmitCommitUncounted ==
  /\ rtx # 0
  /\ rtx' = 0 /\ rtxErr' = "ok"
  /\ IF attempts[rtx] > 0 /\ GiveUp
     THEN /\ attempts' = [attempts EXCEPT ![rtx] = 0]
          /\ reported' = reported \cup {rtx}
     ELSE UNCHANGED <<attempts, reported>>
  /\ UNCHANGED <<sender, due, peer, acked, writes, receiver, chatNet,
                 ackNet, link, losses>>
RetransmitCommitUnreported ==
  /\ rtx # 0
  /\ rtx' = 0 /\ rtxErr' = "ok"
  /\ attempts' = [attempts EXCEPT ![rtx] = IF @ = 0 \/ GiveUp THEN 0 ELSE @ + 1]
  /\ UNCHANGED <<sender, due, reported, peer, acked, writes, receiver, chatNet,
                 ackNet, link, losses>>
RetransmitCommitUnchecked ==
  /\ rtx # 0
  /\ rtx' = 0 /\ rtxErr' = "ok"
  /\ attempts' = [attempts EXCEPT ![rtx] = IF GiveUp \/ @ = 0 THEN 0 ELSE @ + 1]
  /\ reported' = IF GiveUp THEN reported \cup {rtx} ELSE reported
  /\ UNCHANGED <<sender, due, peer, acked, writes, receiver, chatNet,
                 ackNet, link, losses>>

\* pendingMu is taken again: nothing to do if the entry is gone, else it is
\* given up and reported, or its attempt is counted.
RetransmitCommit ==
  /\ rtx # 0
  /\ rtx' = 0 /\ rtxErr' = "ok"
  /\ \/ attempts[rtx] = 0 /\ UNCHANGED <<attempts, reported>>
     \/ /\ attempts[rtx] > 0 /\ GiveUp
        /\ attempts' = [attempts EXCEPT ![rtx] = 0]
        /\ reported' = reported \cup {rtx}
     \/ /\ attempts[rtx] > 0 /\ ~GiveUp
        /\ attempts' = [attempts EXCEPT ![rtx] = @ + 1]
        /\ UNCHANGED reported
  /\ UNCHANGED <<sender, due, peer, acked, writes, receiver, chatNet,
                 ackNet, link, losses>>

-----------------------------------------------------------------------------
(* The receiver: handleEnvelope, TypeChat.  readLoop runs one handler at a *)
(* time, so nothing else touches recvSeq and the buffer of this peer.      *)

Arrive(n) == chatNet[n] > 0 /\ chatNet' = [chatNet EXCEPT ![n] = @ - 1]

\* sendAck for each of ns; its error is ignored.
SendAcks(ns) ==
  ackNet' = IF up THEN [n \in Msgs |-> ackNet[n] + (IF n \in ns THEN 1 ELSE 0)]
                  ELSE ackNet

RecvUnchanged == UNCHANGED <<sender, retrans, attempts, peer, acked,
                             writes, link, losses>>

\* A text of blanks: the handler returns at once.
RecvBlank(n) ==
  /\ Arrive(n) /\ kind[n] = "blank"
  /\ UNCHANGED <<receiver, ackNet>> /\ RecvUnchanged

\* Slip for ExactlyOnceInOrder: a number delivered already is delivered again.
RecvDuplicateDelivers(n) ==
  /\ Arrive(n) /\ kind[n] # "blank" /\ n <= recvSeq
  /\ delivered' = Append(delivered, n)
  /\ SendAcks({n})
  /\ UNCHANGED <<recvSeq, buffer>> /\ RecvUnchanged

\* envelope.Sequence <= last: acknowledged again, not delivered.
RecvDuplicate(n) ==
  /\ Arrive(n) /\ kind[n] # "blank" /\ n <= recvSeq
  /\ SendAcks({n})
  /\ UNCHANGED receiver /\ RecvUnchanged

\* Slip for AckMeansKept and DeliveredOrKnown: the early frame is acknowledged although dropped.
RecvOverflowAcks(n) ==
  /\ Arrive(n) /\ kind[n] # "blank" /\ n > recvSeq + 1
  /\ Cardinality(buffer) >= maxReceiveBuffer
  /\ SendAcks({n})
  /\ UNCHANGED receiver /\ RecvUnchanged

\* An early frame and no room in the buffer: dropped, not acknowledged.
RecvOverflow(n) ==
  /\ Arrive(n) /\ kind[n] # "blank" /\ n > recvSeq + 1
  /\ Cardinality(buffer) >= maxReceiveBuffer
  /\ UNCHANGED <<receiver, ackNet>> /\ RecvUnchanged

\* An early frame: buffered and acknowledged.
RecvEarly(n) ==
  /\ Arrive(n) /\ kind[n] # "blank" /\ n > recvSeq + 1
  /\ Cardinality(buffer) < maxReceiveBuffer
  /\ buffer' = buffer \cup {n}
  /\ SendAcks({n})
  /\ UNCHANGED <<recvSeq, delivered>> /\ RecvUnchanged

\* Slip for ImplementsService: draining stops one short of the end of the run.
DrainedUpToShort(n) ==
  LET top == CHOOSE m \in n..MaxMsgs :
               (n + 1)..m \subseteq buffer /\ m + 1 \notin buffer
  IN  IF top > n THEN top - 1 ELSE top

\* Where drainReceiveBuffer stops once n is delivered: the end of the run of
\* consecutive numbers that the buffer continues n with.
DrainedUpTo(n) == CHOOSE m \in n..MaxMsgs :
                    (n + 1)..m \subseteq buffer /\ m + 1 \notin buffer

\* The next frame: delivered, acknowledged, and the buffer drained, each
\* buffered message being acknowledged a second time.
RecvNext(n) ==
  /\ Arrive(n) /\ kind[n] # "blank" /\ n = recvSeq + 1
  /\ LET top == DrainedUpTo(n)
     IN  /\ recvSeq' = top
         /\ buffer' = buffer \ (n..top)
         /\ delivered' = delivered \o [i \in 1..(top - recvSeq) |-> recvSeq + i]
         /\ SendAcks(n..top)
  /\ RecvUnchanged

-----------------------------------------------------------------------------
(* The medium.                                                             *)

Lose(n) ==
  /\ losses < MaxLoss
  /\ losses' = losses + 1
  /\ \/ Arrive(n) /\ UNCHANGED ackNet
     \/ ackNet[n] > 0 /\ ackNet' = [ackNet EXCEPT ![n] = @ - 1] /\ UNCHANGED chatNet
  /\ UNCHANGED <<sender, retrans, attempts, peer, acked, writes,
                 receiver, link>>

\* Either end closes the stream, or the connection breaks.
Break ==
  /\ up
  /\ link' = "broken"
  /\ UNCHANGED <<sender, retrans, attempts, peer, acked, writes,
                 receiver, chatNet, ackNet, losses>>

Send(c) == \/ SendLookup(c) \/ SendWrite(c) \/ SendWriteFails(c)
           \/ \E k \in Kinds : SendTrack(c, k) \/ SendTooBig(c, k)

Forgetting(c) == ForgetPeer(c) \/ ClearPending(c)

Retransmit == \/ \E S \in SUBSET Pending : RetransmitSnapshot(S)
              \/ \E n \in due : RetransmitWrite(n) \/ RetransmitSkip(n)
              \/ RetransmitCommit

RecvChat(n) == \/ RecvBlank(n) \/ RecvDuplicate(n) \/ RecvOverflow(n)
               \/ RecvEarly(n) \/ RecvNext(n)

Next == \/ \E c \in Callers : Send(c)
        \/ \E c \in Goroutines : Forgetting(c)
        \/ Retransmit \/ Break
        \/ \E n \in Msgs : RecvChat(n) \/ RecvAck(n) \/ Lose(n)

Spec == Init /\ [][Next]_vars

\* The retransmit loop runs, a write returns, forgetPeer runs to its end, and
\* while the stream is up the frames in flight are read.
Fairness ==
  /\ \A c \in Callers : WF_vars(SendWrite(c) \/ SendWriteFails(c))
  /\ \A c \in Callers : WF_vars(ForgetPeer(c))
  /\ \A c \in Goroutines : WF_vars(ClearPending(c))
  /\ WF_vars(Retransmit)
  /\ \A n \in Msgs : WF_vars(up /\ RecvChat(n)) /\ WF_vars(up /\ RecvAck(n))

FairSpec == Spec /\ Fairness

-----------------------------------------------------------------------------
TypeSender ==
  /\ sendSeq \in 0..MaxMsgs /\ sending \in 0..MaxMsgs
  /\ kind \in [Msgs -> Kinds \cup {"none", "late"}]
  /\ pc \in [Goroutines -> {"idle", "looked", "writing", "failed", "clear", "read", "ended"}]
  /\ attempts \in [Msgs -> 0..maxPendingRetries]
  /\ refused \subseteq Msgs /\ acked \subseteq Msgs
  /\ writes \in [Msgs -> Nat]
  /\ peer \in {"known", "forgotten"}

TypeRetransmit ==
  /\ due \subseteq Msgs /\ reported \subseteq Msgs
  /\ rtx \in 0..MaxMsgs /\ rtxErr \in {"ok", "err"}

TypeReceiver ==
  recvSeq \in 0..MaxMsgs /\ buffer \subseteq Msgs /\ delivered \in Seq(Msgs)

TypeMedium ==
  /\ chatNet \in [Msgs -> Nat] /\ ackNet \in [Msgs -> Nat]
  /\ link \in {"up", "broken"} /\ losses \in Nat

\* Every variable has its type; a pending entry counts at most the limit.
TypeOK == TypeSender /\ TypeRetransmit /\ TypeReceiver /\ TypeMedium

\* What the remote user sees is 1, 2, 3, ... with nothing missing, repeated or
\* swapped, although frames are retransmitted, reordered and buffered.
ExactlyOnceInOrder == delivered = [i \in 1..recvSeq |-> i]

\* The receiver holds message n, delivered or buffered.
Kept(n) == n <= recvSeq \/ n \in buffer

\* An acknowledgement, in flight or already counted by the sender, is only
\* ever for a message the receiver holds: an acknowledged message is never
\* one that was dropped (handleEnvelope's early returns).
AckMeansKept == \A n \in Msgs : (ackNet[n] > 0 \/ n \in acked) => Kept(n)

\* The buffer holds only messages behind a real gap, at most as many as its
\* limit: after every handler the next number is not sitting in the buffer.
BufferSound == /\ \A n \in buffer : n > recvSeq + 1 /\ n <= sendSeq
               /\ Cardinality(buffer) <= maxReceiveBuffer

\* Every number sendChat took is accounted for at the sender: still tracked,
\* returned as an error, reported as failed, acknowledged - or the peer was
\* forgotten.  retransmitDue's unlocked window loses no entry.
NoSilentDrop ==
  registered => \A n \in 1..sendSeq :
    attempts[n] > 0 \/ n \in refused \cup reported \cup acked

\* No message is both acknowledged and reported as failed, and none that has
\* an outcome is still tracked, however acknowledgements race the passes.
OneOutcome == /\ acked \cap reported = {}
              /\ Pending \cap (refused \cup reported \cup acked) = {}

\* A message is written at most once and then maxPendingRetries times again,
\* also when its acknowledgement races the retransmission pass: attempts counts
\* the first write and is compared after the next one, so the "five attempts" of
\* docs/protocol-v2.md:113 are five retries, and six writes in all.
WriteBound == \A n \in Msgs : writes[n] <= maxPendingRetries + 1

\* What the two users see of the transport.
Service == INSTANCE ChatService WITH
             sent <- sendSeq, open <- Pending, shown <- delivered,
             kept <- {n \in Msgs : Kept(n)}

\* The promise to the two users: every step of the transport is one of
\* ChatService or is not seen.  Acknowledgements that race retransmissions, a
\* refusal after a forgotten peer and a drained buffer are all of that kind.
ImplementsService == Service!SSpec

\* While the peer is registered tracking ends: every pending message is
\* acknowledged, or retransmitDue runs into its limit or a failed write.
EveryPendingEnds ==
  \A n \in Msgs : attempts[n] > 0 ~> (attempts[n] = 0 \/ ~registered)

\* docs/protocol-v2.md:113, "It gives up after five attempts and reports a
\* delivery error to the client": whatever sendChat tracks has an end.  A caller
\* that looked the stream up before forgetPeer tracks its message after
\* clearPending, and retransmitDue passes over a peer without a stream.
GivesUp == \A n \in Msgs : attempts[n] > 0 ~> attempts[n] = 0

\* Message n can never be delivered: m at or before it will not arrive.
Hole(n) == \E m \in 1..n : kind[m] \in {"blank", "big"} \/ m \in refused \cup reported

\* While the connection lasts, a text is delivered unless the sender was told
\* that it or an earlier one failed, or a number before it carries no text.  This
\* holds for a text that found the buffer full, too, although
\* docs/security/threat-model.md:80 says of those that they "can only be recovered
\* by a new stream": they are not acknowledged, and retransmitted on this one.
DeliveredOrKnown ==
  \A n \in Msgs : (n <= sendSeq) ~> (n <= recvSeq \/ Hole(n) \/ ~up \/ ~registered)
=============================================================================
