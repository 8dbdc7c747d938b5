------------------------------ MODULE Handshake ------------------------------
(***************************************************************************)
(* Establishing a session over a new stream (security/e2ee.go, main.go):   *)
(* the dialer asks, the listener's user answers, the listener writes its   *)
(* acceptance and runs Handshake, the dialer reads the acceptance and runs *)
(* Handshake.  Each end writes its ephemeral key, reads the other's,       *)
(* writes a signature of the transcript, reads and verifies the other's,   *)
(* and derives a key for each direction; then it sends its nickname in the *)
(* first packet while readLoop reads on from the reader Handshake used.    *)
(* A program started with an address as its argument does not ask: main    *)
(* opens a stream and runs Handshake at once.                              *)
(*                                                                         *)
(* The stream keeps the order of lines.  It may break, and lines may       *)
(* arrive changed.  Signatures and the key agreement are ideal, and random *)
(* keys are different.                                                     *)
(***************************************************************************)
EXTENDS Integers, Sequences

CONSTANTS Keys,       \* ephemeral public keys
          MaxDamage   \* bound on the lines that arrive changed

ASSUME KeysAssumption == Keys \subseteq Nat \ {0}
ASSUME DamageAssumption == MaxDamage \in Nat

VARIABLES how,      \* how the stream was dialled: "connect" or "argument"
          pc,       \* pc[e]: where end e is
          expect,   \* expect[e]: the identity the connection has for the remote
          eph,      \* eph[e]: pub, the end's ephemeral key
          peer,     \* peer[e]: peerPub, the key read, or NoKey
          net,      \* net[e]: lines under way to e
          buf,      \* buf[e]: lines in e's bufio.Reader
          session,  \* session[e]: what Handshake returned, or NoSession
          greeted,  \* ends whose readLoop opened the other's first packet
          stream,   \* "up", "broken", "closed" after an error, "late" after the
                    \* dialer's timer, or "refused" by the listener
          damage    \* lines changed so far

wires == <<net, buf>>
vars  == <<how, pc, expect, eph, peer, wires, session, greeted, stream, damage>>

Ends == {"dialer", "listener"}
Other(e) == IF e = "dialer" THEN "listener" ELSE "dialer"

\* handshakeTranscript: both keys and both identities, each pair sorted.
Transcript(k1, k2, id1, id2) == [ephemerals |-> {k1, k2}, identities |-> {id1, id2}]
NoTranscript == Transcript(0, 0, "nobody", "nobody")

\* deriveKey, with the secret that X25519 gives both owners of the two keys.
DeriveKey(k1, k2, t, info) == [shared |-> {k1, k2}, salt |-> t, info |-> info]
Secret == DeriveKey(0, 0, NoTranscript, "none")

directionLowToHigh == 1
directionHighToLow == 2

NoKey == 0
BadKey == -1   \* does not decode to 32 bytes, or X25519 refuses it
NoSig == [by |-> "nobody", over |-> NoTranscript]
NoSession == [sendKey |-> Secret, recvKey |-> Secret, sendDir |-> 0, recvDir |-> 0]

\* A line of the stream; a packet carries the key and the direction it was
\* sealed with.
Line(kind, key, sig, seal, dir) ==
  [kind |-> kind, key |-> key, sig |-> sig, seal |-> seal, dir |-> dir]
Word(kind) == Line(kind, BadKey, NoSig, Secret, 0)
BlankLine == Word("damaged")
RequestLine == Word("request")
RejectLine == Word("reject")
AcceptLine == Word("accept")
PubLine(k) == Line("pub", k, NoSig, Secret, 0)
SigLine(g) == Line("sig", BadKey, g, Secret, 0)
PacketLine(s) == Line("packet", BadKey, NoSig, s.sendKey, s.sendDir)

Init ==
  /\ how \in {"connect", "argument"}
  /\ pc = [e \in Ends |-> IF e = "listener" THEN "readRequest"
                          ELSE IF how = "connect" THEN "writeRequest" ELSE "writePub"]
  /\ eph \in {f \in [Ends -> Keys] : f["dialer"] # f["listener"]}
  /\ peer = [e \in Ends |-> NoKey]
  /\ expect \in {x \in [Ends -> Ends \cup {"stranger"}] :
                   \A e \in Ends : x[e] \in {Other(e), "stranger"}}
  /\ net = [e \in Ends |-> <<>>] /\ buf = [e \in Ends |-> <<>>]
  /\ session = [e \in Ends |-> NoSession] /\ greeted = {}
  /\ stream = "up" /\ damage = 0

-----------------------------------------------------------------------------
(* Writing and reading a line.  Once the stream is not up, a write may fail *)
(* or be lost.                                                              *)

Write(e, l) == net' = IF stream = "up" THEN [net EXCEPT ![Other(e)] = Append(@, l)] ELSE net

\* Handshake, or the wait for a line before it, returns an error and the stream
\* is closed.
Leave(e, why) ==
  /\ pc' = [pc EXCEPT ![e] = "failed"]
  /\ stream' = IF stream = "up" THEN why ELSE stream
  /\ net' = [net EXCEPT ![e] = <<>>] /\ buf' = [buf EXCEPT ![e] = <<>>]
  /\ UNCHANGED <<how, expect, eph, peer, session, greeted, damage>>
Fail(e) == Leave(e, "closed")

\* ReadString of the bufio.Reader: with no line in it, the reader takes all
\* that has arrived.
Pending(e) == IF buf[e] # <<>> THEN buf[e] ELSE net[e]
Consume(e) == /\ buf' = [buf EXCEPT ![e] = Tail(Pending(e))]
              /\ net' = IF buf[e] # <<>> THEN net ELSE [net EXCEPT ![e] = <<>>]

Goto(e, there) == pc' = [pc EXCEPT ![e] = there]

-----------------------------------------------------------------------------
(* Before the handshake.                                                    *)

\* connectToPeer asks.
WriteRequest(e) ==
  /\ pc[e] = "writeRequest" /\ Goto(e, "readAccept") /\ Write(e, RequestLine)
  /\ UNCHANGED <<how, expect, eph, peer, buf, session, greeted, stream, damage>>

\* HandleIncomingStream reads a line byte by byte; the stream of a dialer that
\* does not ask is closed.
ReadRequest(e) ==
  /\ pc[e] = "readRequest" /\ net[e] # <<>>
  /\ IF Head(net[e]).kind = "request"
     THEN /\ Goto(e, "asking") /\ net' = [net EXCEPT ![e] = Tail(@)]
          /\ UNCHANGED <<how, expect, eph, peer, buf, session, greeted, stream, damage>>
     ELSE Fail(e)

\* The user says yes: the acceptance is written, its error ignored.
WriteAccept(e) ==
  /\ pc[e] = "asking" /\ Goto(e, "writePub") /\ Write(e, AcceptLine)
  /\ UNCHANGED <<how, expect, eph, peer, buf, session, greeted, stream, damage>>

\* The user says no, or nothing for 30 seconds: a line says so and the stream is
\* closed.
WriteReject(e) ==
  /\ pc[e] = "asking" /\ Goto(e, "failed")
  /\ stream' = IF stream = "up" THEN "refused" ELSE stream
  /\ net' = [net EXCEPT ![e] = <<>>,
                        ![Other(e)] = IF stream = "up" THEN Append(@, RejectLine) ELSE @]
  /\ UNCHANGED <<how, expect, eph, peer, buf, session, greeted, damage>>

\* Slip for UndisturbedWorks: the acceptance is read with a buffered reader that
\* is thrown away.
ReadAcceptBuffered(e) ==
  /\ pc[e] = "readAccept" /\ net[e] # <<>>
  /\ IF Head(net[e]).kind = "accept"
     THEN /\ Goto(e, "writePub") /\ net' = [net EXCEPT ![e] = <<>>]
          /\ UNCHANGED <<how, expect, eph, peer, buf, session, greeted, stream, damage>>
     ELSE Fail(e)

\* readLine reads byte by byte and takes its own line only; anything but the
\* acceptance is a rejection.
ReadAccept(e) ==
  /\ pc[e] = "readAccept" /\ net[e] # <<>>
  /\ IF Head(net[e]).kind = "accept"
     THEN /\ Goto(e, "writePub") /\ net' = [net EXCEPT ![e] = Tail(@)]
          /\ UNCHANGED <<how, expect, eph, peer, buf, session, greeted, stream, damage>>
     ELSE Fail(e)

\* connectToPeer waits for 35 seconds.
TimeOut(e) == pc[e] = "readAccept" /\ Leave(e, "late")

-----------------------------------------------------------------------------
(* Handshake.                                                               *)

\* Slip for EveryHandshakeEnds: an end waits for the other's key first.
WritePubSecond(e) ==
  /\ pc[e] = "writePub" /\ (Pending(e) # <<>> \/ stream # "up")
  /\ Goto(e, "readPub") /\ Write(e, PubLine(eph[e]))
  /\ UNCHANGED <<how, expect, eph, peer, buf, session, greeted, stream, damage>>

WritePub(e) ==
  /\ pc[e] = "writePub" /\ Goto(e, "readPub") /\ Write(e, PubLine(eph[e]))
  /\ UNCHANGED <<how, expect, eph, peer, buf, session, greeted, stream, damage>>

\* The other's key is read; one that X25519 does not take is an error.
ReadPub(e) ==
  /\ pc[e] = "readPub" /\ Pending(e) # <<>>
  /\ LET k == Head(Pending(e)).key
     IN  IF k \in Keys
         THEN /\ peer' = [peer EXCEPT ![e] = k] /\ Goto(e, "writeSig") /\ Consume(e)
              /\ UNCHANGED <<how, expect, eph, session, greeted, stream, damage>>
         ELSE Fail(e)

\* The transcript as end e sees it.
TranscriptOf(e) == Transcript(eph[e], peer[e], e, expect[e])

WriteSig(e) ==
  /\ pc[e] = "writeSig" /\ Goto(e, "readSig")
  /\ Write(e, SigLine([by |-> e, over |-> TranscriptOf(e)]))
  /\ UNCHANGED <<how, expect, eph, peer, buf, session, greeted, stream, damage>>

\* A write of connectToPeer or Handshake fails.
WriteError(e) == pc[e] \in {"writeRequest", "writePub", "writeSig"} /\ stream # "up" /\ Fail(e)

\* Slip for Agreement: only the signer is checked.
VerifiesSigner(e, sig) == sig.by = expect[e]

\* remoteIdentity.Verify(transcript, peerSignature).
Verifies(e, sig) == sig = [by |-> expect[e], over |-> TranscriptOf(e)]

\* Slip for OppositeKeys: both ends take the lower key's part.
OrientLow(e) ==
  LET low  == DeriveKey(eph[e], peer[e], TranscriptOf(e), "low-to-high")
      high == DeriveKey(eph[e], peer[e], TranscriptOf(e), "high-to-low")
  IN  [sendKey |-> low, recvKey |-> high,
       sendDir |-> directionLowToHigh, recvDir |-> directionHighToLow]

\* The end with the lower ephemeral key sends low-to-high.
Orient(e) ==
  LET low  == DeriveKey(eph[e], peer[e], TranscriptOf(e), "low-to-high")
      high == DeriveKey(eph[e], peer[e], TranscriptOf(e), "high-to-low")
  IN  IF eph[e] < peer[e]
      THEN [sendKey |-> low, recvKey |-> high,
            sendDir |-> directionLowToHigh, recvDir |-> directionHighToLow]
      ELSE [sendKey |-> high, recvKey |-> low,
            sendDir |-> directionHighToLow, recvDir |-> directionLowToHigh]

\* The signature is verified and the session built; equal keys are an error.
ReadSig(e) ==
  /\ pc[e] = "readSig" /\ Pending(e) # <<>>
  /\ IF Verifies(e, Head(Pending(e)).sig) /\ eph[e] # peer[e]
     THEN /\ session' = [session EXCEPT ![e] = Orient(e)] /\ Goto(e, "open") /\ Consume(e)
          /\ UNCHANGED <<how, expect, eph, peer, greeted, stream, damage>>
     ELSE Fail(e)

\* ReadString returns an error: the stream ended, or it broke.
ReadError(e) ==
  /\ pc[e] \in {"readRequest", "readAccept", "readPub", "readSig"}
  /\ \/ stream = "broken"
     \/ stream \in {"closed", "late", "refused"} /\ buf[e] = <<>> /\ net[e] = <<>>
  /\ Fail(e)

-----------------------------------------------------------------------------
(* After it: AddStream starts readLoop on the same reader.                  *)

\* The first packet: the nickname, or the first message.
SendFirst(e) ==
  /\ pc[e] = "open" /\ Goto(e, "sent") /\ Write(e, PacketLine(session[e]))
  /\ UNCHANGED <<how, expect, eph, peer, buf, session, greeted, stream, damage>>

\* readLoop takes a line; one that does not decrypt is skipped.
ReadPacket(e) ==
  /\ pc[e] \in {"open", "sent"} /\ Pending(e) # <<>> /\ Consume(e)
  /\ LET l == Head(Pending(e))
     IN  greeted' = IF l.kind = "packet" /\ l.seal = session[e].recvKey
                         /\ l.dir = session[e].recvDir
                    THEN greeted \cup {e} ELSE greeted
  /\ UNCHANGED <<how, pc, expect, eph, peer, session, stream, damage>>

-----------------------------------------------------------------------------
(* The medium.                                                              *)

Break == /\ stream = "up" /\ stream' = "broken"
         /\ \E kept \in SUBSET Ends :
              net' = [e \in Ends |-> IF e \in kept THEN net[e] ELSE <<>>]
         /\ UNCHANGED <<how, pc, expect, eph, peer, buf, session, greeted, damage>>

\* A line changes on its way: into another key, or into nothing of use.
Damage(e, i) ==
  /\ damage < MaxDamage /\ i \in DOMAIN net[e]
  /\ damage' = damage + 1
  /\ \E l \in {PubLine(k) : k \in Keys} \cup {BlankLine} : net' = [net EXCEPT ![e] = [@ EXCEPT ![i] = l]]
  /\ UNCHANGED <<how, pc, expect, eph, peer, buf, session, greeted, stream>>

Step(e) == \/ WriteRequest(e) \/ ReadRequest(e) \/ WriteAccept(e) \/ WriteReject(e)
           \/ ReadAccept(e) \/ WritePub(e) \/ ReadPub(e)
           \/ WriteSig(e) \/ ReadSig(e) \/ ReadError(e) \/ WriteError(e)

Next == \/ \E e \in Ends : Step(e) \/ TimeOut(e) \/ SendFirst(e) \/ ReadPacket(e)
        \/ Break
        \/ \E e \in Ends : \E i \in DOMAIN net[e] : Damage(e, i)

Spec == Init /\ [][Next]_vars

\* Each end runs its handshake and its readLoop, and the listener's question ends
\* with an answer or its timer.  Nothing is assumed of the dialer's timer, of the
\* medium, of the answer or of what the users send.
Fairness == \A e \in Ends : WF_vars(Step(e)) /\ WF_vars(ReadPacket(e))

FairSpec == Spec /\ Fairness

-----------------------------------------------------------------------------
Established(e) == pc[e] \in {"open", "sent"}

\* An end that has a session has the other's key, and the other has its key and
\* meant this end: it signed the same transcript.
Agreement ==
  \A e \in Ends : Established(e) =>
    /\ expect[e] = Other(e) /\ expect[Other(e)] = e
    /\ peer[e] = eph[Other(e)] /\ peer[Other(e)] = eph[e]

\* What one end sends with is what the other receives with, and the two
\* directions differ in key and marker.
OppositeKeys ==
  \A e \in Ends : Established(e) =>
    /\ session[e].sendKey # session[e].recvKey /\ session[e].sendDir # session[e].recvDir
    /\ Established(Other(e)) => /\ session[e].sendKey = session[Other(e)].recvKey
                                /\ session[e].sendDir = session[Other(e)].recvDir

\* Both ends write before they read and a failed end closes the stream, so no
\* end waits for ever, also when the dialer does not ask.
EveryHandshakeEnds == \A e \in Ends : <>(Established(e) \/ pc[e] = "failed")

Undisturbed == /\ how = "connect" /\ damage = 0
               /\ stream \notin {"broken", "late", "refused"}
               /\ \A e \in Ends : expect[e] = Other(e)

\* Unless the medium, a timer or the user interferes, a dialer that asks and the
\* listener both get a session, and what one sends right after it is opened by
\* the other, however early it arrives.
UndisturbedWorks ==
  \A e \in Ends : /\ Undisturbed ~> (Established(e) \/ ~Undisturbed)
                  /\ pc[e] = "sent" ~> (Other(e) \in greeted \/ ~Undisturbed)
=============================================================================
