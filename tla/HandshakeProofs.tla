--------------------------- MODULE HandshakeProofs ---------------------------
(* What the sessions of the two ends have in common, for any set of keys and *)
(* any number of changed lines, and that an undisturbed exchange loses no    *)
(* line.                                                                     *)
EXTENDS Handshake, SequenceTheorems, TLAPS

-----------------------------------------------------------------------------
(* Types.                                                                   *)

Steps == {"writeRequest", "readRequest", "asking", "readAccept", "writePub", "readPub",
          "writeSig", "readSig", "open", "sent", "failed"}
Names == {"dialer", "listener", "stranger", "nobody"}
Kinds == {"damaged", "request", "reject", "accept", "pub", "sig", "packet"}
Transcripts == [ephemerals : SUBSET Int, identities : SUBSET Names]
Seals == [shared : SUBSET Int, salt : Transcripts, info : {"none", "low-to-high", "high-to-low"}]
Sigs == [by : Names, over : Transcripts]
Lines == [kind : Kinds, key : Int, sig : Sigs, seal : Seals, dir : Int]
Sessions == [sendKey : Seals, recvKey : Seals, sendDir : Int, recvDir : Int]

TypeOK ==
  /\ pc \in [Ends -> Steps]
  /\ eph \in [Ends -> Keys] /\ peer \in [Ends -> Keys \cup {NoKey}]
  /\ expect \in [Ends -> Names]
  /\ net \in [Ends -> Seq(Lines)] /\ buf \in [Ends -> Seq(Lines)]
  /\ session \in [Ends -> Sessions]

-----------------------------------------------------------------------------
(* The invariant.                                                           *)

\* What Init says of the constants of a behaviour: different keys, and no end
\* takes itself for the remote one.
Setting == /\ eph["dialer"] # eph["listener"]
           /\ \A e \in Ends : expect[e] \in {Other(e), "stranger"}

\* From here on an end has signed, and its transcript does not change.
HasSigned(e) == pc[e] \in {"readSig", "open", "sent", "failed"}
Signature(e) == [by |-> e, over |-> TranscriptOf(e)]

\* A line on its way to e carries no signature, or the one of the other end over
\* its own transcript: signatures cannot be forged.
Genuine(e, l) == l.sig = NoSig \/ (HasSigned(Other(e)) /\ l.sig = Signature(Other(e)))
LinesTo(e) == Range(net[e]) \cup Range(buf[e])
Signatures == \A e \in Ends : \A l \in LinesTo(e) : Genuine(e, l)

\* An end with a session has it from its own view of the transcript, and the
\* other end has signed.
Oriented == \A e \in Ends : Established(e) =>
              /\ session[e] = Orient(e) /\ eph[e] # peer[e]
              /\ HasSigned(Other(e))

IInv == TypeOK /\ Setting /\ Signatures /\ Oriented /\ Agreement

-----------------------------------------------------------------------------
(* Lines.                                                                   *)

\* The constants of the handshake have their types.
LEMMA BlankTypes == NoSig \in Sigs /\ Secret \in Seals /\ NoSession \in Sessions
<1>1. NoTranscript \in Transcripts
  BY DEF NoTranscript, Transcript, Transcripts, Names
<1>2. NoSig \in Sigs
  BY <1>1 DEF NoSig, Sigs, Names
<1>3. Secret \in Seals
  BY <1>1 DEF Secret, DeriveKey, Seals
<1> QED
  BY <1>2, <1>3 DEF NoSession, Sessions

\* Only a signature line carries a signature.
LEMMA LineTypes ==
  /\ \A l \in {BlankLine, RequestLine, RejectLine, AcceptLine} : l \in Lines /\ l.sig = NoSig
  /\ \A k \in Int : PubLine(k) \in Lines /\ PubLine(k).sig = NoSig
  /\ \A g \in Sigs : SigLine(g) \in Lines /\ SigLine(g).sig = g
  /\ \A s \in Sessions : PacketLine(s) \in Lines /\ PacketLine(s).sig = NoSig
<1>1. \A kind \in Kinds, key \in Int, g \in Sigs, seal \in Seals, dir \in Int :
        Line(kind, key, g, seal, dir) \in Lines /\ Line(kind, key, g, seal, dir).sig = g
  BY DEF Line, Lines
<1>2. \A kind \in Kinds : Word(kind) \in Lines /\ Word(kind).sig = NoSig
  BY <1>1, BlankTypes DEF Word, BadKey
<1>3. \A s \in Sessions : s.sendKey \in Seals /\ s.sendDir \in Int
  BY DEF Sessions
<1> QED
  BY <1>1, <1>2, <1>3, BlankTypes DEF BlankLine, RequestLine, RejectLine, AcceptLine,
     PubLine, SigLine, PacketLine, BadKey, Kinds

\* Which lines the operations on the stream leave or add.
LEMMA RangeAppend ==
  ASSUME NEW s \in Seq(Lines), NEW l \in Lines
  PROVE  Append(s, l) \in Seq(Lines) /\ Range(Append(s, l)) = Range(s) \cup {l}
<1>1. Append(s, l) \in Seq(Lines)
  BY AppendProperties
<1>2. Len(Append(s, l)) = Len(s) + 1
  BY AppendProperties
<1>3. Range(Append(s, l)) = {Append(s, l)[i] : i \in 1..(Len(s) + 1)}
  BY <1>1, <1>2, RangeEquality
<1>4. Range(s) = {s[i] : i \in 1..Len(s)} /\ Len(s) \in Nat
  BY RangeEquality, LenProperties
<1> QED
  BY <1>1, <1>3, <1>4, AppendProperties

\* Taking the first line of a channel.
LEMMA RangeTail ==
  ASSUME NEW s \in Seq(Lines), s # <<>>
  PROVE  /\ Tail(s) \in Seq(Lines) /\ Range(Tail(s)) \subseteq Range(s)
         /\ Head(s) \in Range(s) /\ Head(s) \in Lines
<1>1. /\ Tail(s) \in Seq(Lines) /\ Len(Tail(s)) = Len(s) - 1
      /\ \A i \in 1..Len(Tail(s)) : Tail(s)[i] = s[i + 1]
      /\ Len(s) \in Nat \ {0} /\ Head(s) \in Lines
  BY HeadTailProperties, EmptySeq
<1>2. Range(Tail(s)) = {Tail(s)[i] : i \in 1..Len(Tail(s))} /\ Range(s) = {s[i] : i \in 1..Len(s)}
  BY <1>1, RangeEquality
<1>3. Head(s) = s[1]
  BY <1>1
<1> QED
  BY <1>1, <1>2, <1>3

\* Changing a line of a channel.
LEMMA RangeExcept ==
  ASSUME NEW s \in Seq(Lines), NEW l \in Lines, NEW i \in DOMAIN s
  PROVE  /\ [s EXCEPT ![i] = l] \in Seq(Lines)
         /\ Range([s EXCEPT ![i] = l]) \subseteq Range(s) \cup {l}
<1>1. i \in 1..Len(s)
  BY LenProperties
<1>2. [s EXCEPT ![i] = l] \in Seq(Lines)
  BY <1>1, ExceptSeq
<1> QED
  BY <1>2 DEF Range

\* The empty sequence has no lines.
LEMMA RangeEmpty == <<>> \in Seq(Lines) /\ Range(<<>>) = {}
BY DEF Range

\* Writing adds one line, and only to the other end.
LEMMA WriteLines ==
  ASSUME TypeOK, NEW e \in Ends, NEW l \in Lines, Write(e, l), buf' = buf
  PROVE  /\ net' \in [Ends -> Seq(Lines)]
         /\ LinesTo(e)' = LinesTo(e)
         /\ LinesTo(Other(e))' \subseteq LinesTo(Other(e)) \cup {l}
<1>1. Other(e) \in Ends /\ Other(e) # e
  BY DEF Other, Ends
<1>2. Append(net[Other(e)], l) \in Seq(Lines)
      /\ Range(Append(net[Other(e)], l)) = Range(net[Other(e)]) \cup {l}
  BY <1>1, RangeAppend DEF TypeOK
<1> QED
  BY <1>1, <1>2 DEF Write, TypeOK, LinesTo

\* Reading takes a line that was there and adds none.
LEMMA ConsumeLines ==
  ASSUME TypeOK, NEW e \in Ends, Pending(e) # <<>>, Consume(e)
  PROVE  /\ net' \in [Ends -> Seq(Lines)] /\ buf' \in [Ends -> Seq(Lines)]
         /\ \A d \in Ends : LinesTo(d)' \subseteq LinesTo(d)
         /\ Head(Pending(e)) \in LinesTo(e) /\ Head(Pending(e)) \in Lines
<1>1. Pending(e) \in Seq(Lines) /\ Range(Pending(e)) \subseteq LinesTo(e)
  BY DEF Pending, TypeOK, LinesTo
<1>2. /\ Tail(Pending(e)) \in Seq(Lines) /\ Range(Tail(Pending(e))) \subseteq Range(Pending(e))
      /\ Head(Pending(e)) \in Range(Pending(e)) /\ Head(Pending(e)) \in Lines
  BY <1>1, RangeTail
<1> QED
  BY <1>1, <1>2, RangeEmpty DEF Consume, TypeOK, LinesTo

\* readLine takes one line out of the stream.
LEMMA ReadLineLines ==
  ASSUME TypeOK, NEW e \in Ends, net[e] # <<>>, net' = [net EXCEPT ![e] = Tail(@)], buf' = buf
  PROVE  /\ net' \in [Ends -> Seq(Lines)]
         /\ \A d \in Ends : LinesTo(d)' \subseteq LinesTo(d)
<1>1. Tail(net[e]) \in Seq(Lines) /\ Range(Tail(net[e])) \subseteq Range(net[e])
  BY RangeTail DEF TypeOK
<1> QED
  BY <1>1 DEF TypeOK, LinesTo

-----------------------------------------------------------------------------
(* What every step does.                                                    *)

\* Identities and keys are fixed, and so is the view of an end that has signed.
ViewsKept == /\ eph' = eph /\ expect' = expect
             /\ \A e \in Ends : HasSigned(e) => HasSigned(e)' /\ peer'[e] = peer[e]

\* A line that is on its way was there before, or carries no signature, or the
\* one its sender has just made.
NoForgery == \A e \in Ends : \A l \in LinesTo(e)' :
               l \in LinesTo(e) \/ l.sig = NoSig
                 \/ (HasSigned(Other(e))' /\ l.sig = Signature(Other(e))')

\* A session is the one an end had, or it comes from a signature that verified.
Verified == \A e \in Ends : Established(e)' =>
              \/ Established(e) /\ session'[e] = session[e]
              \/ /\ session'[e] = Orient(e) /\ peer'[e] = peer[e] /\ eph[e] # peer[e]
                 /\ \E l \in LinesTo(e) : Verifies(e, l.sig)

Allowed == TypeOK' /\ ViewsKept /\ NoForgery /\ Verified

\* What an end computes has its type.
LEMMA OwnTypes ==
  ASSUME TypeOK, NEW e \in Ends
  PROVE  eph[e] \in Int /\ Signature(e) \in Sigs /\ Orient(e) \in Sessions
<1>1. /\ eph[e] \in Int /\ peer[e] \in Int /\ expect[e] \in Names /\ e \in Names
  <2>1. Keys \subseteq Int /\ Keys \cup {NoKey} \subseteq Int
    BY KeysAssumption DEF NoKey
  <2>2. eph[e] \in Keys /\ peer[e] \in Keys \cup {NoKey} /\ expect[e] \in Names
    BY DEF TypeOK
  <2>3. e \in Names
    BY DEF Names, Ends
  <2> QED
    BY <2>1, <2>2, <2>3
<1>2. TranscriptOf(e) \in Transcripts
  BY <1>1 DEF TranscriptOf, Transcript, Transcripts
<1>3. \A info \in {"low-to-high", "high-to-low"} :
        DeriveKey(eph[e], peer[e], TranscriptOf(e), info) \in Seals
  <2>1. {eph[e], peer[e]} \in SUBSET Int
    BY <1>1
  <2> QED
    BY <1>2, <2>1 DEF DeriveKey, Seals
<1>4. Signature(e) \in Sigs
  BY <1>1, <1>2 DEF Signature, Sigs
<1>5. \A k1, k2 \in Seals, d1, d2 \in Int :
        [sendKey |-> k1, recvKey |-> k2, sendDir |-> d1, recvDir |-> d2] \in Sessions
  BY DEF Sessions
<1>6. Orient(e) \in Sessions
  BY <1>3, <1>5 DEF Orient, directionLowToHigh, directionHighToLow
<1> QED
  BY <1>1, <1>4, <1>6

\* The steps that write a line without a signature.
LEMMA WriteStep ==
  ASSUME TypeOK, NEW e \in Ends,
         WriteRequest(e) \/ WriteAccept(e) \/ WritePub(e) \/ SendFirst(e)
  PROVE  Allowed
<1>1. PICK l \in Lines : /\ Write(e, l) /\ l.sig = NoSig
                         /\ UNCHANGED <<expect, eph, peer, buf, session>>
  <2>1. eph[e] \in Int /\ session[e] \in Sessions
    BY OwnTypes DEF TypeOK
  <2>2. /\ RequestLine \in Lines /\ RequestLine.sig = NoSig
        /\ AcceptLine \in Lines /\ AcceptLine.sig = NoSig
        /\ PubLine(eph[e]) \in Lines /\ PubLine(eph[e]).sig = NoSig
        /\ PacketLine(session[e]) \in Lines /\ PacketLine(session[e]).sig = NoSig
    BY <2>1, LineTypes
  <2>3. UNCHANGED <<expect, eph, peer, buf, session>>
    BY DEF WriteRequest, WriteAccept, WritePub, SendFirst
  <2>4. \/ Write(e, RequestLine) \/ Write(e, AcceptLine)
        \/ Write(e, PubLine(eph[e])) \/ Write(e, PacketLine(session[e]))
    BY DEF WriteRequest, WriteAccept, WritePub, SendFirst
  <2> QED
    BY <2>2, <2>3, <2>4 DEF Write
<1>2. /\ pc' \in [Ends -> Steps]
      /\ \A d \in Ends : HasSigned(d) => HasSigned(d)'
      /\ \A d \in Ends : Established(d)' => Established(d)
  BY DEF WriteRequest, WriteAccept, WritePub, SendFirst, Goto, TypeOK, Steps, HasSigned, Established
<1>3. /\ net' \in [Ends -> Seq(Lines)]
      /\ LinesTo(e)' = LinesTo(e)
      /\ LinesTo(Other(e))' \subseteq LinesTo(Other(e)) \cup {l}
  BY <1>1, WriteLines
<1>4. NoForgery
  BY <1>1, <1>3 DEF NoForgery, Other, Ends
<1>5. ViewsKept /\ Verified
  BY <1>1, <1>2 DEF ViewsKept, Verified
<1>6. TypeOK'
  BY <1>1, <1>2, <1>3 DEF TypeOK
<1> QED
  BY <1>4, <1>5, <1>6 DEF Allowed

\* Signing.
LEMMA SignStep ==
  ASSUME TypeOK, NEW e \in Ends, WriteSig(e)
  PROVE  Allowed
<1> DEFINE l == SigLine(Signature(e))
<1>1. l \in Lines /\ l.sig = Signature(e)
  BY OwnTypes, LineTypes
<1>2. Write(e, l) /\ UNCHANGED <<expect, eph, peer, buf, session>>
  BY DEF WriteSig, Signature
<1>3. /\ pc' \in [Ends -> Steps] /\ HasSigned(e)'
      /\ \A d \in Ends : HasSigned(d) => HasSigned(d)'
      /\ \A d \in Ends : Established(d)' => Established(d)
  BY DEF WriteSig, Goto, TypeOK, Steps, HasSigned, Established
<1> HIDE DEF l
<1>4. /\ net' \in [Ends -> Seq(Lines)]
      /\ LinesTo(e)' = LinesTo(e)
      /\ LinesTo(Other(e))' \subseteq LinesTo(Other(e)) \cup {l}
  BY <1>1, <1>2, WriteLines
<1>5. Signature(e)' = Signature(e)
  BY <1>2 DEF Signature, TranscriptOf, Transcript
<1>6. NoForgery
  <2> SUFFICES ASSUME NEW d \in Ends, NEW k \in LinesTo(d)', k \notin LinesTo(d)
               PROVE  HasSigned(Other(d))' /\ k.sig = Signature(Other(d))'
    BY DEF NoForgery
  <2>1. d = Other(e) /\ Other(d) = e /\ k = l
    BY <1>4 DEF Other, Ends
  <2> QED
    BY <1>1, <1>3, <1>5, <2>1
<1>7. ViewsKept /\ Verified
  BY <1>2, <1>3 DEF ViewsKept, Verified
<1>8. TypeOK'
  BY <1>2, <1>3, <1>4 DEF TypeOK
<1> QED
  BY <1>6, <1>7, <1>8 DEF Allowed

\* An end that gives up.
LEMMA LeaveStep ==
  ASSUME TypeOK, NEW e \in Ends, NEW why, Leave(e, why)
  PROVE  Allowed
<1> USE DEF Leave
<1>1. /\ pc' \in [Ends -> Steps]
      /\ \A d \in Ends : HasSigned(d) => HasSigned(d)'
      /\ \A d \in Ends : Established(d)' => Established(d)
  BY DEF TypeOK, Steps, HasSigned, Established
<1>2. /\ net' \in [Ends -> Seq(Lines)] /\ buf' \in [Ends -> Seq(Lines)]
      /\ \A d \in Ends : LinesTo(d)' \subseteq LinesTo(d)
  BY RangeEmpty DEF TypeOK, LinesTo
<1>3. NoForgery
  BY <1>2 DEF NoForgery
<1>4. ViewsKept /\ Verified
  BY <1>1 DEF ViewsKept, Verified
<1>5. TypeOK'
  BY <1>1, <1>2 DEF TypeOK
<1> QED
  BY <1>3, <1>4, <1>5 DEF Allowed

\* The user's no.
LEMMA RejectStep ==
  ASSUME TypeOK, NEW e \in Ends, WriteReject(e)
  PROVE  Allowed
<1>1. /\ pc' \in [Ends -> Steps]
      /\ \A d \in Ends : HasSigned(d) => HasSigned(d)'
      /\ \A d \in Ends : Established(d)' => Established(d)
      /\ UNCHANGED <<expect, eph, peer, buf, session>>
  BY DEF WriteReject, Goto, TypeOK, Steps, HasSigned, Established
<1>2. Other(e) \in Ends /\ Other(e) # e /\ Ends = {e, Other(e)}
  BY DEF Other, Ends
<1>3. RejectLine \in Lines /\ RejectLine.sig = NoSig
  BY LineTypes
<1>4. /\ Append(net[Other(e)], RejectLine) \in Seq(Lines)
      /\ Range(Append(net[Other(e)], RejectLine)) = Range(net[Other(e)]) \cup {RejectLine}
  BY <1>2, <1>3, RangeAppend DEF TypeOK
<1>5. /\ net' \in [Ends -> Seq(Lines)] /\ net'[e] = <<>>
      /\ net'[Other(e)] \in {net[Other(e)], Append(net[Other(e)], RejectLine)}
  BY <1>2, <1>4, RangeEmpty DEF WriteReject, TypeOK
<1>6. \A d \in Ends : LinesTo(d)' \subseteq LinesTo(d) \cup {RejectLine}
  BY <1>1, <1>2, <1>4, <1>5, RangeEmpty DEF LinesTo
<1>7. NoForgery
  BY <1>3, <1>6 DEF NoForgery
<1>8. ViewsKept /\ Verified
  BY <1>1 DEF ViewsKept, Verified
<1>9. TypeOK'
  BY <1>1, <1>5 DEF TypeOK
<1> QED
  BY <1>7, <1>8, <1>9 DEF Allowed

\* The steps that read a line.
LEMMA ReadStep ==
  ASSUME TypeOK, NEW e \in Ends,
         ReadRequest(e) \/ ReadAccept(e) \/ ReadPub(e) \/ ReadSig(e) \/ ReadPacket(e)
  PROVE  Allowed
<1>1. CASE Fail(e)
  BY <1>1, LeaveStep DEF Fail
<1>2. CASE (ReadRequest(e) \/ ReadAccept(e)) /\ ~Fail(e)
  <2>1. /\ pc' \in [Ends -> Steps]
        /\ \A d \in Ends : HasSigned(d) => HasSigned(d)'
        /\ \A d \in Ends : Established(d)' => Established(d)
    BY <1>2 DEF ReadRequest, ReadAccept, Goto, TypeOK, Steps, HasSigned, Established
  <2>2. /\ net[e] # <<>> /\ net' = [net EXCEPT ![e] = Tail(@)]
        /\ UNCHANGED <<expect, eph, peer, buf, session>>
    BY <1>2 DEF ReadRequest, ReadAccept
  <2>3. /\ net' \in [Ends -> Seq(Lines)] /\ \A d \in Ends : LinesTo(d)' \subseteq LinesTo(d)
    BY <2>2, ReadLineLines
  <2> QED
    BY <2>1, <2>2, <2>3 DEF Allowed, NoForgery, ViewsKept, Verified, TypeOK
<1>3. CASE ReadPub(e) /\ ~Fail(e)
  <2>1. /\ pc[e] = "readPub" /\ pc' = [pc EXCEPT ![e] = "writeSig"]
        /\ Pending(e) # <<>> /\ Consume(e) /\ UNCHANGED <<expect, eph, session>>
        /\ \E k \in Keys : peer' = [peer EXCEPT ![e] = k]
    BY <1>3 DEF ReadPub, Goto
  <2>2. /\ pc' \in [Ends -> Steps] /\ peer' \in [Ends -> Keys \cup {NoKey}]
        /\ \A d \in Ends : HasSigned(d) => HasSigned(d)' /\ peer'[d] = peer[d]
        /\ \A d \in Ends : Established(d)' => Established(d)
    BY <2>1 DEF TypeOK, Steps, HasSigned, Established
  <2>3. /\ net' \in [Ends -> Seq(Lines)] /\ buf' \in [Ends -> Seq(Lines)]
        /\ \A d \in Ends : LinesTo(d)' \subseteq LinesTo(d)
    BY <2>1, ConsumeLines
  <2> QED
    BY <2>1, <2>2, <2>3 DEF Allowed, NoForgery, ViewsKept, Verified, TypeOK
<1>4. CASE ReadSig(e) /\ ~Fail(e)
  <2>1. /\ pc[e] = "readSig" /\ pc' = [pc EXCEPT ![e] = "open"]
        /\ Pending(e) # <<>> /\ Consume(e) /\ UNCHANGED <<expect, eph, peer>>
        /\ session' = [session EXCEPT ![e] = Orient(e)]
        /\ Verifies(e, Head(Pending(e)).sig) /\ eph[e] # peer[e]
    BY <1>4 DEF ReadSig, Goto
  <2>2. /\ pc' \in [Ends -> Steps] /\ session' \in [Ends -> Sessions]
        /\ \A d \in Ends : HasSigned(d) => HasSigned(d)'
        /\ \A d \in Ends : Established(d)' => Established(d) \/ d = e
    BY <2>1, OwnTypes DEF TypeOK, Steps, HasSigned, Established
  <2>3. /\ net' \in [Ends -> Seq(Lines)] /\ buf' \in [Ends -> Seq(Lines)]
        /\ \A d \in Ends : LinesTo(d)' \subseteq LinesTo(d)
        /\ Head(Pending(e)) \in LinesTo(e)
    BY <2>1, ConsumeLines
  <2>4. Verified
    <3> SUFFICES ASSUME NEW d \in Ends, Established(d)'
                 PROVE  \/ Established(d) /\ session'[d] = session[d]
                        \/ /\ session'[d] = Orient(d) /\ peer'[d] = peer[d] /\ eph[d] # peer[d]
                           /\ \E l \in LinesTo(d) : Verifies(d, l.sig)
      BY DEF Verified
    <3>1. CASE d = e
      BY <2>1, <2>3, <3>1 DEF TypeOK
    <3>2. CASE d # e
      BY <2>1, <2>2, <3>2 DEF TypeOK
    <3> QED
      BY <3>1, <3>2
  <2> QED
    BY <2>1, <2>2, <2>3, <2>4 DEF Allowed, NoForgery, ViewsKept, TypeOK
<1>5. CASE ReadPacket(e)
  <2>1. Pending(e) # <<>> /\ Consume(e) /\ UNCHANGED <<pc, expect, eph, peer, session>>
    BY <1>5 DEF ReadPacket
  <2>2. /\ net' \in [Ends -> Seq(Lines)] /\ buf' \in [Ends -> Seq(Lines)]
        /\ \A d \in Ends : LinesTo(d)' \subseteq LinesTo(d)
    BY <2>1, ConsumeLines
  <2> QED
    BY <2>1, <2>2 DEF Allowed, NoForgery, ViewsKept, Verified, TypeOK, HasSigned, Established
<1> QED
  BY <1>1, <1>2, <1>3, <1>4, <1>5

\* The medium: it changes and drops lines and cannot sign.
LEMMA MediumStep ==
  ASSUME TypeOK,
         Break \/ \E e \in Ends : \E i \in DOMAIN net[e] : Damage(e, i)
  PROVE  Allowed
<1>1. UNCHANGED <<pc, expect, eph, peer, buf, session>>
  BY DEF Break, Damage
<1>2. /\ net' \in [Ends -> Seq(Lines)]
      /\ \A d \in Ends : \A l \in LinesTo(d)' : l \in LinesTo(d) \/ l.sig = NoSig
  <2>1. CASE Break
    BY <1>1, <2>1, RangeEmpty DEF Break, TypeOK, LinesTo
  <2>2. ASSUME NEW e \in Ends, NEW i \in DOMAIN net[e], Damage(e, i)
        PROVE  /\ net' \in [Ends -> Seq(Lines)]
               /\ \A d \in Ends : \A l \in LinesTo(d)' : l \in LinesTo(d) \/ l.sig = NoSig
    <3>1. PICK l \in {PubLine(k) : k \in Keys} \cup {BlankLine} :
            net' = [net EXCEPT ![e] = [net[e] EXCEPT ![i] = l]]
      BY <2>2 DEF Damage
    <3>2. l \in Lines /\ l.sig = NoSig
      <4>1. Keys \subseteq Int
        BY KeysAssumption
      <4> QED
        BY <4>1, LineTypes
    <3>3. /\ [net[e] EXCEPT ![i] = l] \in Seq(Lines)
          /\ Range([net[e] EXCEPT ![i] = l]) \subseteq Range(net[e]) \cup {l}
      BY <3>2, RangeExcept DEF TypeOK
    <3> QED
      BY <1>1, <3>1, <3>2, <3>3 DEF TypeOK, LinesTo
  <2> QED
    BY <2>1, <2>2
<1> QED
  BY <1>1, <1>2 DEF Allowed, NoForgery, ViewsKept, Verified, TypeOK, HasSigned, Established

-----------------------------------------------------------------------------
(* What such steps preserve.                                                *)

\* A signature that verifies on its way to e is the other end's, over the keys
\* and the identities that e has: neither end reads its own key back.
LEMMA SameTranscript ==
  ASSUME TypeOK, Setting, Signatures, NEW e \in Ends,
         NEW l \in LinesTo(e), Verifies(e, l.sig)
  PROVE  /\ HasSigned(Other(e)) /\ expect[e] = Other(e) /\ expect[Other(e)] = e
         /\ peer[e] = eph[Other(e)] /\ peer[Other(e)] = eph[e]
<1>1. Other(e) \in Ends /\ Other(e) # e /\ eph[e] # eph[Other(e)]
  BY DEF Other, Ends, Setting
<1>2. l.sig.by = expect[e] /\ l.sig.over = TranscriptOf(e)
  BY DEF Verifies
<1>3. l.sig # NoSig
  BY <1>2 DEF NoSig, Setting, Other, Ends
<1>4. HasSigned(Other(e)) /\ l.sig = Signature(Other(e))
  BY <1>3 DEF Signatures, Genuine
<1>5. expect[e] = Other(e) /\ TranscriptOf(e) = TranscriptOf(Other(e))
  BY <1>2, <1>4 DEF Signature
<1>6. /\ {eph[e], peer[e]} = {eph[Other(e)], peer[Other(e)]}
      /\ {e, expect[e]} = {Other(e), expect[Other(e)]}
  BY <1>5 DEF TranscriptOf, Transcript
<1> QED
  BY <1>1, <1>4, <1>5, <1>6

\* Every allowed step keeps the invariant.
LEMMA AllowedKeeps ==
  ASSUME IInv, Allowed
  PROVE  IInv'
<1> USE DEF IInv, Allowed
<1>1. Setting'
  BY DEF Setting, ViewsKept
<1>2. \A e \in Ends : Other(e) \in Ends /\ Other(Other(e)) = e
  BY DEF Other, Ends
<1>3. \A e \in Ends : HasSigned(e) =>
        /\ HasSigned(e)' /\ TranscriptOf(e)' = TranscriptOf(e)
        /\ Signature(e)' = Signature(e) /\ Orient(e)' = Orient(e)
        /\ peer'[e] = peer[e]
  BY DEF ViewsKept, TranscriptOf, Transcript, Signature, Orient, DeriveKey
<1>4. Signatures'
  <2> SUFFICES ASSUME NEW e \in Ends, NEW l \in LinesTo(e)' PROVE Genuine(e, l)'
    BY DEF Signatures
  <2>1. CASE l \in LinesTo(e)
    BY <1>2, <1>3, <2>1 DEF Signatures, Genuine
  <2>2. CASE l \notin LinesTo(e)
    BY <2>2 DEF NoForgery, Genuine
  <2> QED
    BY <2>1, <2>2
<1>5. ASSUME NEW e \in Ends, Established(e)'
      PROVE  /\ session'[e] = Orient(e)' /\ eph'[e] # peer'[e] /\ HasSigned(Other(e))'
             /\ expect'[e] = Other(e) /\ expect'[Other(e)] = e
             /\ peer'[e] = eph'[Other(e)] /\ peer'[Other(e)] = eph'[e]
  <2>1. CASE Established(e) /\ session'[e] = session[e]
    <3>1. HasSigned(e) /\ HasSigned(Other(e)) /\ session[e] = Orient(e) /\ eph[e] # peer[e]
      BY <2>1 DEF Oriented, HasSigned, Established
    <3> QED
      BY <1>2, <1>3, <2>1, <3>1 DEF Agreement, ViewsKept
  <2>2. CASE /\ session'[e] = Orient(e) /\ peer'[e] = peer[e] /\ eph[e] # peer[e]
             /\ \E l \in LinesTo(e) : Verifies(e, l.sig)
    <3>1. /\ HasSigned(Other(e)) /\ expect[e] = Other(e) /\ expect[Other(e)] = e
          /\ peer[e] = eph[Other(e)] /\ peer[Other(e)] = eph[e]
      BY <2>2, SameTranscript
    <3>2. Orient(e)' = Orient(e)
      BY <2>2 DEF ViewsKept, TranscriptOf, Transcript, Orient, DeriveKey
    <3> QED
      BY <1>2, <1>3, <2>2, <3>1, <3>2 DEF ViewsKept
  <2> QED
    BY <1>5, <2>1, <2>2 DEF Verified
<1>6. Oriented' /\ Agreement'
  BY <1>5 DEF Oriented, Agreement
<1> QED
  BY <1>1, <1>4, <1>6

-----------------------------------------------------------------------------
(* The theorems.                                                            *)

\* Nothing is on its way at first, and nobody has a session.
LEMMA InitIInv == Init => IInv
<1> SUFFICES ASSUME Init PROVE IInv
  OBVIOUS
<1> USE DEF Init
<1>1. pc \in [Ends -> Steps] /\ \A e \in Ends : ~Established(e)
  BY DEF Steps, Ends, Established
<1>2. /\ eph \in [Ends -> Keys] /\ peer \in [Ends -> Keys \cup {NoKey}]
      /\ expect \in [Ends -> Names]
  BY DEF Names, Ends
<1>3. /\ net \in [Ends -> Seq(Lines)] /\ buf \in [Ends -> Seq(Lines)]
      /\ \A e \in Ends : LinesTo(e) = {}
  BY RangeEmpty DEF LinesTo
<1>4. session \in [Ends -> Sessions]
  BY BlankTypes
<1>5. Setting
  BY DEF Setting
<1> QED
  BY <1>1, <1>2, <1>3, <1>4, <1>5 DEF IInv, TypeOK, Signatures, Oriented, Agreement

\* Every step of the two ends and of the medium is an allowed one.
LEMMA StepAllowed == TypeOK /\ Next => Allowed
<1> SUFFICES ASSUME TypeOK, Next PROVE Allowed
  OBVIOUS
<1>1. ASSUME NEW e \in Ends, Step(e) \/ TimeOut(e) \/ SendFirst(e) \/ ReadPacket(e)
      PROVE  Allowed
  <2>1. CASE WriteRequest(e) \/ WriteAccept(e) \/ WritePub(e) \/ SendFirst(e)
    BY <2>1, WriteStep
  <2>2. CASE ReadRequest(e) \/ ReadAccept(e) \/ ReadPub(e) \/ ReadSig(e) \/ ReadPacket(e)
    BY <2>2, ReadStep
  <2>3. CASE WriteReject(e)
    BY <2>3, RejectStep
  <2>4. CASE WriteSig(e)
    BY <2>4, SignStep
  <2>5. CASE ReadError(e) \/ WriteError(e) \/ TimeOut(e)
    BY <2>5, LeaveStep DEF ReadError, WriteError, TimeOut, Fail
  <2> QED
    BY <1>1, <2>1, <2>2, <2>3, <2>4, <2>5 DEF Step
<1>2. CASE Break \/ \E e \in Ends : \E i \in DOMAIN net[e] : Damage(e, i)
  BY <1>2, MediumStep
<1> QED
  BY <1>1, <1>2 DEF Next

\* The invariant is inductive.
THEOREM Invariance == Spec => []IInv
<1>1. IInv /\ UNCHANGED vars => IInv'
  <2> SUFFICES ASSUME IInv, UNCHANGED vars PROVE IInv'
    OBVIOUS
  <2> USE DEF vars, wires
  <2>1. TypeOK' /\ Setting'
    BY DEF IInv, TypeOK, Setting
  <2>2. Allowed
    BY <2>1 DEF Allowed, NoForgery, ViewsKept, Verified, LinesTo, HasSigned, Established
  <2> QED
    BY <2>2, AllowedKeeps
<1>2. IInv /\ [Next]_vars => IInv'
  BY <1>1, StepAllowed, AllowedKeeps DEF IInv
<1> QED
  BY <1>2, InitIInv, PTL DEF Spec

\* Authenticated key agreement, however the medium breaks the stream or changes
\* its lines: an end that Handshake gave a session has the other's ephemeral key,
\* and the other has this end's and meant this end.
THEOREM EndsAgree == Spec => []Agreement
<1>1. IInv => Agreement
  BY DEF IInv
<1> QED
  BY <1>1, Invariance, PTL

\* Two ends with one transcript and opposite order of keys take opposite parts.
LEMMA OppositeParts == IInv => OppositeKeys
<1> SUFFICES ASSUME IInv, NEW e \in Ends, Established(e)
             PROVE  /\ session[e].sendKey # session[e].recvKey
                    /\ session[e].sendDir # session[e].recvDir
                    /\ Established(Other(e)) =>
                         /\ session[e].sendKey = session[Other(e)].recvKey
                         /\ session[e].sendDir = session[Other(e)].recvDir
  BY DEF OppositeKeys
<1> DEFINE Key(d, info) == DeriveKey(eph[d], peer[d], TranscriptOf(d), info)
<1>1. Other(e) \in Ends /\ Other(Other(e)) = e
  BY DEF Other, Ends
<1>2. \A d \in Ends : Established(d) =>
        IF eph[d] < peer[d]
        THEN /\ session[d].sendKey = Key(d, "low-to-high") /\ session[d].sendDir = 1
             /\ session[d].recvKey = Key(d, "high-to-low") /\ session[d].recvDir = 2
        ELSE /\ session[d].sendKey = Key(d, "high-to-low") /\ session[d].sendDir = 2
             /\ session[d].recvKey = Key(d, "low-to-high") /\ session[d].recvDir = 1
  <2> SUFFICES ASSUME NEW d \in Ends, Established(d)
               PROVE  IF eph[d] < peer[d]
                      THEN /\ session[d].sendKey = Key(d, "low-to-high") /\ session[d].sendDir = 1
                           /\ session[d].recvKey = Key(d, "high-to-low") /\ session[d].recvDir = 2
                      ELSE /\ session[d].sendKey = Key(d, "high-to-low") /\ session[d].sendDir = 2
                           /\ session[d].recvKey = Key(d, "low-to-high") /\ session[d].recvDir = 1
    OBVIOUS
  <2>1. session[d] = Orient(d)
    BY DEF IInv, Oriented
  <2>2. CASE eph[d] < peer[d]
    <3>1. session[d] = [sendKey |-> Key(d, "low-to-high"), recvKey |-> Key(d, "high-to-low"),
                        sendDir |-> 1, recvDir |-> 2]
      BY <2>1, <2>2, Zenon DEF Orient, directionLowToHigh, directionHighToLow
    <3> QED
      BY <2>2, <3>1
  <2>3. CASE ~(eph[d] < peer[d])
    <3>1. session[d] = [sendKey |-> Key(d, "high-to-low"), recvKey |-> Key(d, "low-to-high"),
                        sendDir |-> 2, recvDir |-> 1]
      BY <2>1, <2>3, Zenon DEF Orient, directionLowToHigh, directionHighToLow
    <3> QED
      BY <2>3, <3>1
  <2> QED
    BY <2>2, <2>3
<1>3. \A d \in Ends : Key(d, "low-to-high") # Key(d, "high-to-low")
  BY DEF DeriveKey
<1>4. session[e].sendKey # session[e].recvKey /\ session[e].sendDir # session[e].recvDir
  <2> HIDE DEF Key
  <2> QED
    BY <1>2, <1>3
<1>5. ASSUME Established(Other(e))
      PROVE  /\ session[e].sendKey = session[Other(e)].recvKey
             /\ session[e].sendDir = session[Other(e)].recvDir
  <2>1. /\ expect[e] = Other(e) /\ expect[Other(e)] = e
        /\ peer[e] = eph[Other(e)] /\ peer[Other(e)] = eph[e] /\ eph[e] # peer[e]
    BY DEF IInv, Agreement, Oriented
  <2>2. TranscriptOf(e) = TranscriptOf(Other(e))
    BY <2>1 DEF TranscriptOf, Transcript
  <2>3. \A info : Key(e, info) = Key(Other(e), info)
    BY <2>1, <2>2 DEF DeriveKey
  <2>4. eph[e] \in Int /\ peer[e] \in Int
    <3>1. Keys \subseteq Int
      BY KeysAssumption
    <3>2. eph[e] \in Keys /\ eph[Other(e)] \in Keys
      BY <1>1 DEF IInv, TypeOK
    <3> QED
      BY <2>1, <3>1, <3>2
  <2>5. (eph[e] < peer[e]) <=> ~(eph[Other(e)] < peer[Other(e)])
    BY <2>1, <2>4
  <2> HIDE DEF Key
  <2> QED
    BY <1>1, <1>2, <1>5, <2>3, <2>5
<1> QED
  BY <1>4, <1>5

\* The two directions of a session never share a key or a marker, and when both
\* ends have a session each sends with what the other receives with.
THEOREM KeysAreOpposite == Spec => []OppositeKeys
BY OppositeParts, Invariance, PTL

-----------------------------------------------------------------------------
(* Nothing gets lost between the readers.                                   *)

\* How many lines each end has written and read: the request or the answer, the
\* key, the signature and the first packet, in this order.
put == [e \in Ends |-> IF pc[e] \in {"writeRequest", "readRequest", "asking"} THEN 0
                       ELSE IF pc[e] \in {"readAccept", "writePub"} THEN 1
                       ELSE IF pc[e] \in {"readPub", "writeSig"} THEN 2
                       ELSE IF pc[e] \in {"readSig", "open"} THEN 3 ELSE 4]
got == [e \in Ends |-> IF pc[e] \in {"writeRequest", "readRequest", "readAccept"} THEN 0
                       ELSE IF pc[e] \in {"asking", "writePub", "readPub"} THEN 1
                       ELSE IF pc[e] \in {"writeSig", "readSig"} THEN 2
                       ELSE IF e \in greeted THEN 4 ELSE 3]

\* Line l is as good as the i-th line that the other end writes to e.
Proper(e, i, l) ==
  /\ i = 1 => l.kind = IF e = "listener" THEN "request" ELSE "accept"
  /\ i = 2 => l.key = eph[Other(e)]
  /\ i = 3 => l.sig = Signature(Other(e))
  /\ i = 4 => /\ l.kind = "packet" /\ l.seal = session[Other(e)].sendKey
              /\ l.dir = session[Other(e)].sendDir
ProperLines == [e \in Ends |-> {p \in Nat \X Lines : Proper(e, p[1], p[2])}]

\* Where an end can be that has not failed.
Course(e) == {"writePub", "readPub", "writeSig", "readSig", "open", "sent"} \cup
             (IF e = "dialer" THEN {"writeRequest", "readAccept"} ELSE {"readRequest", "asking"})

\* Of p lines of S, g were read; the rest is in a bufio.Reader b and on a stream n,
\* in order and unharmed.
Queue(g, b, n, p, S) ==
  /\ g + Len(b) + Len(n) = p
  /\ \A i \in 1..Len(b) : <<g + i, b[i]>> \in S
  /\ \A i \in 1..Len(n) : <<g + Len(b) + i, n[i]>> \in S

\* That is so of the lines the other end wrote to e.
InOrder(e) == Queue(got[e], buf[e], net[e], put[Other(e)], ProperLines[e])

\* A bufio.Reader is used from the key on, so the readers by the byte before it
\* leave it nothing they would miss.
Knows(e) == /\ pc[e] \in Course(e)
            /\ got[e] <= 1 => buf[e] = <<>>
            /\ got[e] >= 2 => peer[e] = eph[Other(e)]
            /\ got[e] <= 3 => e \notin greeted

Smooth == stream = "up" /\ \A e \in Ends : Knows(e) /\ InOrder(e)
Flow == damage \in Nat /\ (Undisturbed => Smooth)

\* The ends are two.
LEMMA TwoEnds ==
  ASSUME NEW e \in Ends
  PROVE  Other(e) \in Ends /\ Other(e) # e /\ Other(Other(e)) = e /\ Ends = {e, Other(e)}
BY DEF Other, Ends

\* Counts are counts.
LEMMA Counts == \A e \in Ends : got[e] \in 0..4 /\ put[e] \in 0..4
BY DEF got, put

\* What an end is to read has its types.
LEMMA QueueTypes ==
  ASSUME TypeOK, NEW e \in Ends
  PROVE  /\ got[e] \in Nat /\ put[e] \in Nat /\ put[Other(e)] \in Nat
         /\ buf[e] \in Seq(Lines) /\ net[e] \in Seq(Lines)
<1>1. got[e] \in Nat /\ put[e] \in Nat /\ put[Other(e)] \in Nat
  BY Counts, TwoEnds
<1> QED
  BY <1>1 DEF TypeOK

\* A line that is written comes behind the others.
LEMMA QueueWrite ==
  ASSUME NEW g \in Nat, NEW b \in Seq(Lines), NEW n \in Seq(Lines), NEW p \in Nat, NEW S,
         Queue(g, b, n, p, S), NEW l \in Lines, <<p + 1, l>> \in S
  PROVE  Queue(g, b, Append(n, l), p + 1, S)
<1>1. /\ Len(b) \in Nat /\ Len(n) \in Nat /\ Len(Append(n, l)) = Len(n) + 1
      /\ \A i \in 1..Len(n) : Append(n, l)[i] = n[i]
      /\ Append(n, l)[Len(n) + 1] = l
  BY LenProperties, AppendProperties
<1>2. g + Len(b) + Len(n) = p
  BY DEF Queue
<1>3. ASSUME NEW i \in 1..(Len(n) + 1)
      PROVE  <<g + Len(b) + i, Append(n, l)[i]>> \in S
  <2>1. CASE i \in 1..Len(n)
    BY <1>1, <2>1 DEF Queue
  <2>2. CASE i = Len(n) + 1
    <3>1. g + Len(b) + i = p + 1
      BY <1>1, <1>2, <2>2
    <3> QED
      BY <1>1, <2>2, <3>1
  <2>3. i \in 1..Len(n) \/ i = Len(n) + 1
    BY <1>1
  <2> QED
    BY <2>1, <2>2, <2>3
<1> QED
  BY <1>1, <1>2, <1>3 DEF Queue

\* The next line that is read is the next one that was written.
LEMMA QueueHead ==
  ASSUME NEW g \in Nat, NEW b \in Seq(Lines), NEW n \in Seq(Lines), NEW p \in Nat, NEW S,
         Queue(g, b, n, p, S)
  PROVE  /\ b # <<>> => <<g + 1, Head(b)>> \in S /\ g + 1 <= p
         /\ b = <<>> /\ n # <<>> => <<g + 1, Head(n)>> \in S /\ g + 1 <= p
         /\ b = <<>> /\ n = <<>> => g = p
<1>1. Len(b) \in Nat /\ Len(n) \in Nat
  BY LenProperties
<1>2. ASSUME b # <<>> PROVE <<g + 1, Head(b)>> \in S /\ g + 1 <= p
  <2>1. Len(b) >= 1 /\ Head(b) = b[1]
    BY <1>1, <1>2, EmptySeq
  <2> QED
    BY <1>1, <2>1 DEF Queue
<1>3. ASSUME b = <<>>, n # <<>> PROVE <<g + 1, Head(n)>> \in S /\ g + 1 <= p
  <2>1. Len(n) >= 1 /\ Head(n) = n[1] /\ Len(b) = 0
    BY <1>1, <1>3, EmptySeq
  <2>2. <<g + Len(b) + 1, n[1]>> \in S
    BY <1>1, <2>1 DEF Queue
  <2>3. g + Len(b) + 1 = g + 1 /\ g + 1 <= p
    BY <1>1, <2>1 DEF Queue
  <2> QED
    BY <2>1, <2>2, <2>3
<1>4. ASSUME b = <<>>, n = <<>> PROVE g = p
  BY <1>4, EmptySeq DEF Queue
<1> QED
  BY <1>2, <1>3, <1>4

\* What is left when it was read: by a bufio.Reader that has it, by one that takes
\* all of the stream, or by the byte.
LEMMA QueueRead ==
  ASSUME NEW g \in Nat, NEW b \in Seq(Lines), NEW n \in Seq(Lines), NEW p \in Nat, NEW S,
         Queue(g, b, n, p, S)
  PROVE  /\ b # <<>> => Queue(g + 1, Tail(b), n, p, S)
         /\ b = <<>> /\ n # <<>> => Queue(g + 1, Tail(n), <<>>, p, S)
         /\ b = <<>> /\ n # <<>> => Queue(g + 1, b, Tail(n), p, S)
<1>1. Len(b) \in Nat /\ Len(n) \in Nat /\ g + Len(b) + Len(n) = p
  BY LenProperties DEF Queue
<1>2. ASSUME b # <<>> PROVE Queue(g + 1, Tail(b), n, p, S)
  <2> DEFINE t == Tail(b)
  <2>1. /\ Len(t) = Len(b) - 1 /\ Len(b) >= 1
        /\ \A i \in 1..(Len(b) - 1) : t[i] = b[i + 1]
    BY <1>1, <1>2, HeadTailProperties, EmptySeq
  <2> HIDE DEF t
  <2>2. ASSUME NEW i \in 1..Len(t) PROVE <<g + 1 + i, t[i]>> \in S
    <3>1. i + 1 \in 1..Len(b) /\ g + (i + 1) = g + 1 + i /\ i \in 1..(Len(b) - 1)
      BY <1>1, <2>1
    <3> QED
      BY <2>1, <3>1 DEF Queue
  <2>3. ASSUME NEW i \in 1..Len(n) PROVE <<g + 1 + Len(t) + i, n[i]>> \in S
    <3>1. g + 1 + Len(t) + i = g + Len(b) + i
      BY <1>1, <2>1
    <3> QED
      BY <3>1 DEF Queue
  <2>4. g + 1 + Len(t) + Len(n) = p
    <3>1. g + 1 + (Len(b) - 1) + Len(n) = p
      BY <1>1
    <3> QED
      BY <2>1, <3>1
  <2>5. Queue(g + 1, t, n, p, S)
    BY <2>2, <2>3, <2>4 DEF Queue
  <2> QED
    BY <2>5, Zenon DEF t
<1>3. ASSUME b = <<>>, n # <<>>
      PROVE  Queue(g + 1, Tail(n), <<>>, p, S) /\ Queue(g + 1, b, Tail(n), p, S)
  <2> DEFINE t == Tail(n)
  <2>1. /\ Len(t) = Len(n) - 1 /\ Len(n) >= 1 /\ Len(b) = 0
        /\ \A i \in 1..(Len(n) - 1) : t[i] = n[i + 1]
    BY <1>1, <1>3, HeadTailProperties, EmptySeq
  <2> HIDE DEF t
  <2>2. ASSUME NEW i \in 1..Len(t)
        PROVE  <<g + 1 + i, t[i]>> \in S /\ <<g + 1 + Len(b) + i, t[i]>> \in S
    <3>1. /\ i + 1 \in 1..Len(n) /\ g + Len(b) + (i + 1) = g + 1 + i
          /\ g + 1 + Len(b) + i = g + 1 + i /\ i \in 1..(Len(n) - 1)
      BY <1>1, <2>1
    <3> QED
      BY <2>1, <3>1 DEF Queue
  <2>3. g + 1 + Len(t) + Len(b) = p /\ g + 1 + Len(b) + Len(t) = p /\ 1..Len(b) = {}
    <3>1. g + 1 + (Len(n) - 1) + Len(b) = p /\ g + 1 + Len(b) + (Len(n) - 1) = p
      BY <1>1
    <3> QED
      BY <2>1, <3>1
  <2>4. Queue(g + 1, t, b, p, S) /\ Queue(g + 1, b, t, p, S)
    BY <2>2, <2>3 DEF Queue
  <2> QED
    BY <1>3, <2>4, Zenon DEF t
<1> QED
  BY <1>2, <1>3

\* What the lines may be can change, if not for those that were written.
LEMMA QueueLines ==
  ASSUME NEW g \in Nat, NEW b \in Seq(Lines), NEW n \in Seq(Lines), NEW p \in Nat, NEW S, NEW T,
         Queue(g, b, n, p, S),
         \A i \in Nat, l \in Lines : i <= p /\ <<i, l>> \in S => <<i, l>> \in T
  PROVE  Queue(g, b, n, p, T)
<1>1. /\ Len(b) \in Nat /\ Len(n) \in Nat /\ g + Len(b) + Len(n) = p
      /\ \A i \in 1..Len(b) : b[i] \in Lines
      /\ \A i \in 1..Len(n) : n[i] \in Lines
  BY LenProperties, ElementOfSeq DEF Queue
<1>2. ASSUME NEW i \in 1..Len(b) PROVE <<g + i, b[i]>> \in T
  <2>1. g + i \in Nat /\ g + i <= p /\ b[i] \in Lines
    BY <1>1
  <2> QED
    BY <2>1 DEF Queue
<1>3. ASSUME NEW i \in 1..Len(n) PROVE <<g + Len(b) + i, n[i]>> \in T
  <2>1. g + Len(b) + i \in Nat /\ g + Len(b) + i <= p /\ n[i] \in Lines
    BY <1>1
  <2> QED
    BY <2>1 DEF Queue
<1> QED
  BY <1>1, <1>2, <1>3 DEF Queue

\* Writing to the other end.
LEMMA WriteInOrder ==
  ASSUME TypeOK, NEW e \in Ends, NEW l \in Lines, stream = "up", Write(e, l),
         UNCHANGED <<buf, eph, expect, peer, session>>,
         \A d \in Ends : InOrder(d) /\ got'[d] = got[d],
         put'[e] = put[e] + 1, put'[Other(e)] = put[Other(e)],
         <<put[e] + 1, l>> \in ProperLines[Other(e)]
  PROVE  \A d \in Ends : InOrder(d)'
<1> DEFINE o == Other(e)
<1>0. o \in Ends /\ o # e /\ Other(o) = e /\ Ends = {e, o}
  BY TwoEnds
<1>1. ProperLines' = ProperLines
  BY DEF ProperLines, Proper, Signature, TranscriptOf, Transcript
<1>2. net'[e] = net[e] /\ net'[o] = Append(net[o], l)
  BY <1>0 DEF Write, TypeOK
<1>3. InOrder(e)'
  BY <1>1, <1>2 DEF InOrder
<1>4. Queue(got[o], buf[o], Append(net[o], l), put[e] + 1, ProperLines[o])
  <2>1. /\ got[o] \in Nat /\ put[e] \in Nat /\ buf[o] \in Seq(Lines) /\ net[o] \in Seq(Lines)
        /\ Queue(got[o], buf[o], net[o], put[e], ProperLines[o])
    BY <1>0, Counts DEF TypeOK, InOrder
  <2> QED
    BY <2>1, QueueWrite
<1>5. InOrder(o)'
  BY <1>0, <1>1, <1>2, <1>4, Zenon DEF InOrder
<1> QED
  BY <1>0, <1>3, <1>5

\* The line an end is about to read is the next one the other wrote.
LEMMA HeadProper ==
  ASSUME TypeOK, NEW e \in Ends, InOrder(e), Pending(e) # <<>>
  PROVE  /\ <<got[e] + 1, Head(Pending(e))>> \in ProperLines[e]
         /\ got[e] + 1 <= put[Other(e)]
<1>1. /\ got[e] \in Nat /\ put[Other(e)] \in Nat
      /\ buf[e] \in Seq(Lines) /\ net[e] \in Seq(Lines)
      /\ Queue(got[e], buf[e], net[e], put[Other(e)], ProperLines[e])
  BY QueueTypes, Zenon DEF InOrder
<1>2. /\ buf[e] # <<>> => <<got[e] + 1, Head(buf[e])>> \in ProperLines[e] /\ got[e] + 1 <= put[Other(e)]
      /\ buf[e] = <<>> /\ net[e] # <<>> =>
           <<got[e] + 1, Head(net[e])>> \in ProperLines[e] /\ got[e] + 1 <= put[Other(e)]
  BY <1>1, QueueHead
<1>3. CASE buf[e] # <<>>
  BY <1>2, <1>3, Zenon DEF Pending
<1>4. CASE buf[e] = <<>>
  BY <1>2, <1>4, Zenon DEF Pending
<1> QED
  BY <1>3, <1>4

\* Reading it, by the byte or by the bufio.Reader.
LEMMA ReadInOrder ==
  ASSUME TypeOK, NEW e \in Ends, \A d \in Ends : InOrder(d),
         \/ Pending(e) # <<>> /\ Consume(e)
         \/ /\ net[e] # <<>> /\ buf[e] = <<>>
            /\ net' = [net EXCEPT ![e] = Tail(@)] /\ buf' = buf,
         got'[e] = got[e] + 1, got'[Other(e)] = got[Other(e)],
         \A d \in Ends : put'[d] = put[d],
         \A d \in Ends, i \in Nat, l \in Lines :
           i <= put[Other(d)] /\ <<i, l>> \in ProperLines[d] => <<i, l>> \in ProperLines'[d]
  PROVE  \A d \in Ends : InOrder(d)'
<1> DEFINE o == Other(e)
           S == ProperLines[e]
           T == ProperLines'[e]
           p == put[o]
<1>0. o \in Ends /\ o # e /\ Other(o) = e /\ Ends = {e, o}
  BY TwoEnds
<1>1. \A d \in Ends : /\ got[d] \in Nat /\ put[d] \in Nat
                      /\ buf[d] \in Seq(Lines) /\ net[d] \in Seq(Lines)
                      /\ Queue(got[d], buf[d], net[d], put[Other(d)], ProperLines[d])
  BY QueueTypes, Zenon DEF InOrder
<1>2. InOrder(o)'
  <2>1. net'[o] = net[o] /\ buf'[o] = buf[o]
    BY <1>0 DEF Consume, TypeOK
  <2>2. Queue(got[o], buf[o], net[o], put[Other(o)], ProperLines'[o])
    BY <1>0, <1>1, QueueLines
  <2>3. put'[Other(o)] = put[Other(o)]
    BY <1>0
  <2> QED
    BY <2>1, <2>2, <2>3, Zenon DEF InOrder
<1>3. InOrder(e)'
  <2>1. Queue(got[e], buf[e], net[e], p, T)
    BY <1>0, <1>1, QueueLines
  <2>2. /\ buf[e] # <<>> => Queue(got[e] + 1, Tail(buf[e]), net[e], p, T)
        /\ buf[e] = <<>> /\ net[e] # <<>> => Queue(got[e] + 1, Tail(net[e]), <<>>, p, T)
        /\ buf[e] = <<>> /\ net[e] # <<>> => Queue(got[e] + 1, buf[e], Tail(net[e]), p, T)
    BY <1>0, <1>1, <2>1, QueueRead
  <2>3. \/ buf[e] # <<>> /\ buf'[e] = Tail(buf[e]) /\ net'[e] = net[e]
        \/ buf[e] = <<>> /\ net[e] # <<>> /\ buf'[e] = Tail(net[e]) /\ net'[e] = <<>>
        \/ buf[e] = <<>> /\ net[e] # <<>> /\ buf'[e] = buf[e] /\ net'[e] = Tail(net[e])
    BY DEF Consume, Pending, TypeOK
  <2>4. Queue(got[e] + 1, buf'[e], net'[e], p, T)
    BY <2>2, <2>3, Zenon
  <2>5. put'[Other(e)] = p
    BY <1>0
  <2> QED
    BY <2>4, <2>5, Zenon DEF InOrder
<1> QED
  BY <1>0, <1>2, <1>3

\* The lines the ends write are the ones that are due.
LEMMA DueLines ==
  ASSUME TypeOK, NEW e \in Ends
  PROVE  /\ <<1, RequestLine>> \in ProperLines["listener"]
         /\ <<1, AcceptLine>> \in ProperLines["dialer"]
         /\ <<2, PubLine(eph[e])>> \in ProperLines[Other(e)]
         /\ <<3, SigLine(Signature(e))>> \in ProperLines[Other(e)]
         /\ <<4, PacketLine(session[e])>> \in ProperLines[Other(e)]
<1>1. /\ RequestLine \in Lines /\ AcceptLine \in Lines /\ PubLine(eph[e]) \in Lines
      /\ SigLine(Signature(e)) \in Lines /\ PacketLine(session[e]) \in Lines
  BY OwnTypes, LineTypes DEF TypeOK
<1>2. /\ RequestLine.kind = "request" /\ AcceptLine.kind = "accept"
      /\ PubLine(eph[e]).key = eph[e] /\ SigLine(Signature(e)).sig = Signature(e)
      /\ PacketLine(session[e]).kind = "packet"
      /\ PacketLine(session[e]).seal = session[e].sendKey
      /\ PacketLine(session[e]).dir = session[e].sendDir
  BY DEF RequestLine, AcceptLine, Word, PubLine, SigLine, PacketLine, Line
<1>3. "listener" \in Ends /\ "dialer" \in Ends /\ Other(e) \in Ends /\ Other(Other(e)) = e
  BY DEF Ends, Other
<1>4. ASSUME NEW d \in Ends, NEW i \in Nat, NEW l \in Lines, Proper(d, i, l)
      PROVE  <<i, l>> \in ProperLines[d]
  BY <1>4 DEF ProperLines
<1>5. Proper("listener", 1, RequestLine) /\ Proper("dialer", 1, AcceptLine)
  BY <1>2 DEF Proper
<1>6. Proper(Other(e), 2, PubLine(eph[e]))
  BY <1>2, <1>3 DEF Proper
<1>7. Proper(Other(e), 3, SigLine(Signature(e)))
  BY <1>2, <1>3 DEF Proper
<1>8. Proper(Other(e), 4, PacketLine(session[e]))
  BY <1>2, <1>3 DEF Proper
<1> QED
  BY <1>1, <1>3, <1>4, <1>5, <1>6, <1>7, <1>8

\* A write takes the exchange on.
LEMMA WriteSmooth ==
  ASSUME TypeOK, Smooth, NEW e \in Ends,
         WriteRequest(e) \/ WriteAccept(e) \/ WritePub(e) \/ WriteSig(e) \/ SendFirst(e)
  PROVE  Smooth'
<1> DEFINE o == Other(e)
<1>0. o \in Ends /\ o # e /\ Ends = {e, o} /\ pc[e] \in Course(e)
  BY TwoEnds DEF Smooth, Knows
<1>1. /\ UNCHANGED <<buf, eph, expect, peer, session, greeted, stream>>
      /\ \E there \in Steps : pc' = [pc EXCEPT ![e] = there]
      /\ pc'[o] = pc[o]
  BY <1>0 DEF WriteRequest, WriteAccept, WritePub, WriteSig, SendFirst, Goto, Steps, TypeOK
<1>2. put'[o] = put[o] /\ got'[o] = got[o]
  BY <1>0, <1>1 DEF put, got
<1>3. /\ pc'[e] \in Course(e) /\ got'[e] = got[e]
      /\ \E l \in Lines : /\ Write(e, l) /\ put'[e] = put[e] + 1
                          /\ <<put[e] + 1, l>> \in ProperLines[o]
  <2>1. eph[e] \in Int /\ session[e] \in Sessions /\ Signature(e) \in Sigs
    BY OwnTypes DEF TypeOK
  <2>2. CASE WriteRequest(e)
    <3>1. pc[e] = "writeRequest" /\ pc'[e] = "readAccept" /\ Write(e, RequestLine)
      BY <2>2 DEF WriteRequest, Goto, TypeOK
    <3>2. e = "dialer" /\ o = "listener"
      BY <1>0, <3>1 DEF Course, Ends, Other
    <3>3. put[e] = 0 /\ put'[e] = 1 /\ got'[e] = got[e] /\ pc'[e] \in Course(e)
      BY <3>1, <3>2 DEF put, got, Course
    <3>4. RequestLine \in Lines /\ put[e] + 1 = 1 /\ put'[e] = put[e] + 1
      BY <3>2, <3>3, LineTypes
    <3>5. <<1, RequestLine>> \in ProperLines[o]
      BY <3>2, DueLines, Zenon
    <3> QED
      BY <3>1, <3>2, <3>3, <3>4, <3>5, Zenon
  <2>3. CASE WriteAccept(e)
    <3>1. pc[e] = "asking" /\ pc'[e] = "writePub" /\ Write(e, AcceptLine)
      BY <2>3 DEF WriteAccept, Goto, TypeOK
    <3>2. e = "listener" /\ o = "dialer"
      BY <1>0, <3>1 DEF Course, Ends, Other
    <3>3. put[e] = 0 /\ put'[e] = 1 /\ got'[e] = got[e] /\ pc'[e] \in Course(e)
      BY <3>1, <3>2 DEF put, got, Course
    <3>4. AcceptLine \in Lines /\ put[e] + 1 = 1 /\ put'[e] = put[e] + 1
      BY <3>2, <3>3, LineTypes
    <3>5. <<1, AcceptLine>> \in ProperLines[o]
      BY <3>2, DueLines, Zenon
    <3> QED
      BY <3>1, <3>2, <3>3, <3>4, <3>5, Zenon
  <2>4. CASE WritePub(e)
    <3>1. pc[e] = "writePub" /\ pc'[e] = "readPub" /\ Write(e, PubLine(eph[e]))
      BY <2>4 DEF WritePub, Goto, TypeOK
    <3>2. put[e] = 1 /\ put'[e] = 2 /\ got'[e] = got[e] /\ pc'[e] \in Course(e)
      BY <3>1 DEF put, got, Course
    <3>3. PubLine(eph[e]) \in Lines /\ put[e] + 1 = 2 /\ put'[e] = put[e] + 1
      BY <3>2, <2>1, LineTypes
    <3>4. <<2, PubLine(eph[e])>> \in ProperLines[o]
      BY DueLines, Zenon
    <3> QED
      BY <3>1, <3>2, <3>3, <3>4, Zenon
  <2>5. CASE WriteSig(e)
    <3>1. pc[e] = "writeSig" /\ pc'[e] = "readSig" /\ Write(e, SigLine(Signature(e)))
      BY <2>5 DEF WriteSig, Goto, TypeOK, Signature
    <3>2. put[e] = 2 /\ put'[e] = 3 /\ got'[e] = got[e] /\ pc'[e] \in Course(e)
      BY <3>1 DEF put, got, Course
    <3>3. SigLine(Signature(e)) \in Lines /\ put[e] + 1 = 3 /\ put'[e] = put[e] + 1
      BY <3>2, <2>1, LineTypes
    <3>4. <<3, SigLine(Signature(e))>> \in ProperLines[o]
      BY DueLines, Zenon
    <3> QED
      BY <3>1, <3>2, <3>3, <3>4, Zenon
  <2>6. CASE SendFirst(e)
    <3>1. pc[e] = "open" /\ pc'[e] = "sent" /\ Write(e, PacketLine(session[e])) /\ greeted' = greeted
      BY <2>6 DEF SendFirst, Goto, TypeOK
    <3>2. put[e] = 3 /\ put'[e] = 4 /\ got'[e] = got[e] /\ pc'[e] \in Course(e)
      BY <3>1 DEF put, got, Course
    <3>3. PacketLine(session[e]) \in Lines /\ put[e] + 1 = 4 /\ put'[e] = put[e] + 1
      BY <3>2, <2>1, LineTypes
    <3>4. <<4, PacketLine(session[e])>> \in ProperLines[o]
      BY DueLines, Zenon
    <3> QED
      BY <3>1, <3>2, <3>3, <3>4, Zenon
  <2> QED
    BY <2>2, <2>3, <2>4, <2>5, <2>6
<1>4. \A d \in Ends : InOrder(d)'
  <2>1. \A d \in Ends : InOrder(d) /\ got'[d] = got[d]
    BY <1>0, <1>2, <1>3 DEF Smooth
  <2> QED
    BY <1>1, <1>2, <1>3, <2>1, WriteInOrder DEF Smooth
<1>5. \A d \in Ends : Knows(d)'
  <2>1. \A d \in Ends : got'[d] = got[d] /\ pc'[d] \in Course(d)
    BY <1>0, <1>1, <1>2, <1>3 DEF Smooth, Knows
  <2> QED
    BY <1>1, <2>1 DEF Smooth, Knows
<1> QED
  BY <1>1, <1>4, <1>5 DEF Smooth

\* The readers before the key take their line by the byte: it is the one they
\* wait for, so they do not give up.
LEMMA ReadLineSmooth ==
  ASSUME TypeOK, Smooth, NEW e \in Ends, ReadRequest(e) \/ ReadAccept(e)
  PROVE  Smooth'
<1> DEFINE o == Other(e)
<1>0. /\ o \in Ends /\ o # e /\ Ends = {e, o} /\ pc[e] \in Course(e)
      /\ pc[e] \in {"readRequest", "readAccept"} /\ net[e] # <<>>
  BY TwoEnds DEF Smooth, Knows, ReadRequest, ReadAccept
<1>1. got[e] = 0 /\ buf[e] = <<>>
  <2>1. got[e] = 0
    BY <1>0 DEF got
  <2> QED
    BY <2>1 DEF Smooth, Knows
<1>2. <<1, Head(net[e])>> \in ProperLines[e]
  <2>1. Pending(e) = net[e]
    BY <1>1 DEF Pending
  <2>2. <<got[e] + 1, Head(net[e])>> \in ProperLines[e]
    BY <1>0, <2>1, HeadProper, Zenon DEF Smooth
  <2>3. got[e] + 1 = 1
    BY <1>1
  <2> QED
    BY <2>2, <2>3, Zenon
<1>3. Proper(e, 1, Head(net[e]))
  BY <1>2 DEF ProperLines
<1>4. /\ UNCHANGED <<buf, eph, expect, peer, session, greeted, stream>>
      /\ net' = [net EXCEPT ![e] = Tail(@)]
      /\ pc' = [pc EXCEPT ![e] = IF e = "listener" THEN "asking" ELSE "writePub"]
      /\ pc[e] = IF e = "listener" THEN "readRequest" ELSE "readAccept"
  <2>1. CASE e = "listener"
    <3>1. pc[e] = "readRequest" /\ Head(net[e]).kind = "request"
      BY <1>0, <1>3, <2>1 DEF Course, Proper
    <3> QED
      BY <2>1, <3>1 DEF ReadRequest, ReadAccept, Goto
  <2>2. CASE e = "dialer"
    <3>1. pc[e] = "readAccept" /\ Head(net[e]).kind = "accept"
      BY <1>0, <1>3, <2>2 DEF Course, Proper
    <3> QED
      BY <2>2, <3>1 DEF ReadRequest, ReadAccept, Goto
  <2> QED
    BY <2>1, <2>2 DEF Ends
<1>5. /\ got'[e] = 1 /\ put'[e] = put[e] /\ pc'[e] \in Course(e)
      /\ got'[o] = got[o] /\ put'[o] = put[o] /\ pc'[o] = pc[o]
  BY <1>0, <1>4 DEF got, put, TypeOK, Course
<1>6. ProperLines' = ProperLines
  BY <1>4 DEF ProperLines, Proper, Signature, TranscriptOf, Transcript
<1>7. \A d \in Ends : InOrder(d)'
  <2>1. got'[e] = got[e] + 1 /\ \A d \in Ends : put'[d] = put[d]
    BY <1>0, <1>1, <1>5
  <2> QED
    BY <1>0, <1>1, <1>4, <1>5, <1>6, <2>1, ReadInOrder DEF Smooth
<1>8. \A d \in Ends : Knows(d)'
  <2>1. Knows(e)'
    BY <1>0, <1>1, <1>4, <1>5 DEF Smooth, Knows
  <2>2. Knows(o)'
    BY <1>0, <1>4, <1>5 DEF Smooth, Knows
  <2> QED
    BY <1>0, <2>1, <2>2
<1> QED
  BY <1>4, <1>7, <1>8 DEF Smooth

\* The line behind the first is the other end's key.
LEMMA ReadPubSmooth ==
  ASSUME TypeOK, Smooth, NEW e \in Ends, ReadPub(e)
  PROVE  Smooth'
<1> DEFINE o == Other(e)
<1>0. /\ o \in Ends /\ o # e /\ Other(o) = e /\ Ends = {e, o}
      /\ pc[e] = "readPub" /\ Pending(e) # <<>>
  BY TwoEnds DEF ReadPub
<1>1. got[e] = 1 /\ put[e] = 2
  BY <1>0 DEF got, put
<1>2. <<2, Head(Pending(e))>> \in ProperLines[e]
  <2>1. <<got[e] + 1, Head(Pending(e))>> \in ProperLines[e]
    BY <1>0, HeadProper, Zenon DEF Smooth
  <2>2. got[e] + 1 = 2
    BY <1>1
  <2> QED
    BY <2>1, <2>2, Zenon
<1>3. Head(Pending(e)).key = eph[o] /\ eph[o] \in Keys
  BY <1>0, <1>2 DEF ProperLines, Proper, TypeOK
<1>4. /\ UNCHANGED <<eph, expect, session, greeted, stream>>
      /\ Consume(e) /\ peer' = [peer EXCEPT ![e] = eph[o]]
      /\ pc' = [pc EXCEPT ![e] = "writeSig"]
  BY <1>3 DEF ReadPub, Goto
<1>5. /\ got'[e] = 2 /\ put'[e] = put[e] /\ pc'[e] = "writeSig" /\ peer'[e] = eph[o]
      /\ got'[o] = got[o] /\ put'[o] = put[o] /\ pc'[o] = pc[o] /\ peer'[o] = peer[o]
      /\ buf'[o] = buf[o]
  BY <1>0, <1>4 DEF got, put, TypeOK, Consume
<1>6. ASSUME NEW d \in Ends, NEW i \in Nat, NEW l \in Lines,
             i <= put[Other(d)], <<i, l>> \in ProperLines[d]
      PROVE  <<i, l>> \in ProperLines'[d]
  <2>1. Proper(d, i, l)
    BY <1>6 DEF ProperLines
  <2>2. CASE d = e
    <3>1. Signature(Other(d))' = Signature(Other(d))
      BY <1>0, <1>4, <1>5, <2>2 DEF Signature, TranscriptOf, Transcript
    <3> QED
      BY <1>4, <2>1, <3>1 DEF ProperLines, Proper
  <2>3. CASE d = o
    <3>1. i # 3
      BY <1>0, <1>1, <1>6, <2>3
    <3> QED
      BY <1>4, <2>1, <3>1 DEF ProperLines, Proper
  <2> QED
    BY <1>0, <2>2, <2>3
<1>7. \A d \in Ends : InOrder(d)'
  <2>1. got'[e] = got[e] + 1 /\ \A d \in Ends : put'[d] = put[d]
    BY <1>0, <1>1, <1>5
  <2> QED
    BY <1>0, <1>4, <1>5, <1>6, <2>1, ReadInOrder DEF Smooth
<1>8. \A d \in Ends : Knows(d)'
  <2>1. Knows(e)'
    BY <1>0, <1>1, <1>4, <1>5 DEF Smooth, Knows, Course
  <2>2. Knows(o)'
    BY <1>0, <1>4, <1>5 DEF Smooth, Knows
  <2> QED
    BY <1>0, <2>1, <2>2
<1> QED
  BY <1>4, <1>7, <1>8 DEF Smooth

\* The one behind it is a signature that verifies: whoever signed has read the key.
LEMMA ReadSigSmooth ==
  ASSUME TypeOK, Setting, Undisturbed, Smooth, NEW e \in Ends, ReadSig(e)
  PROVE  Smooth'
<1> DEFINE o == Other(e)
<1>0. /\ o \in Ends /\ o # e /\ Other(o) = e /\ Ends = {e, o}
      /\ pc[e] = "readSig" /\ Pending(e) # <<>>
  BY TwoEnds DEF ReadSig
<1>1. got[e] = 2 /\ put[e] = 3
  BY <1>0 DEF got, put
<1>2. <<3, Head(Pending(e))>> \in ProperLines[e] /\ 3 <= put[o]
  <2>1. <<got[e] + 1, Head(Pending(e))>> \in ProperLines[e] /\ got[e] + 1 <= put[o]
    BY <1>0, HeadProper, Zenon DEF Smooth
  <2>2. got[e] + 1 = 3
    BY <1>1
  <2> QED
    BY <2>1, <2>2, Zenon
<1>3. Head(Pending(e)).sig = Signature(o)
  BY <1>0, <1>2 DEF ProperLines, Proper
<1>4. /\ peer[e] = eph[o] /\ peer[o] = eph[e] /\ eph[e] # eph[o]
      /\ expect[e] = o /\ expect[o] = e /\ e \notin greeted
  <2>1. got[o] >= 2
    BY <1>0, <1>2 DEF got, put
  <2> QED
    BY <1>0, <1>1, <2>1 DEF Smooth, Knows, Setting, Undisturbed, Other, Ends
<1>5. Verifies(e, Head(Pending(e)).sig) /\ eph[e] # peer[e]
  <2>1. TranscriptOf(o) = TranscriptOf(e)
    BY <1>4 DEF TranscriptOf, Transcript
  <2> QED
    BY <1>3, <1>4, <2>1 DEF Verifies, Signature
<1>6. /\ UNCHANGED <<eph, expect, peer, greeted, stream>>
      /\ Consume(e) /\ session' = [session EXCEPT ![e] = Orient(e)]
      /\ pc' = [pc EXCEPT ![e] = "open"]
  BY <1>5 DEF ReadSig, Goto
<1>7. /\ got'[e] = 3 /\ put'[e] = put[e] /\ pc'[e] = "open"
      /\ got'[o] = got[o] /\ put'[o] = put[o] /\ pc'[o] = pc[o]
      /\ buf'[o] = buf[o] /\ session'[o] = session[o]
  BY <1>0, <1>4, <1>6 DEF got, put, TypeOK, Consume
<1>8. ASSUME NEW d \in Ends, NEW i \in Nat, NEW l \in Lines,
             i <= put[Other(d)], <<i, l>> \in ProperLines[d]
      PROVE  <<i, l>> \in ProperLines'[d]
  <2>1. Proper(d, i, l) /\ Signature(Other(d))' = Signature(Other(d))
    BY <1>6, <1>8 DEF ProperLines, Signature, TranscriptOf, Transcript
  <2>2. CASE d = e
    BY <1>0, <1>6, <1>7, <2>1, <2>2 DEF ProperLines, Proper
  <2>3. CASE d = o
    <3>1. i # 4
      BY <1>0, <1>1, <1>8, <2>3
    <3> QED
      BY <1>6, <2>1, <3>1 DEF ProperLines, Proper
  <2> QED
    BY <1>0, <2>2, <2>3
<1>9. \A d \in Ends : InOrder(d)'
  <2>1. got'[e] = got[e] + 1 /\ \A d \in Ends : put'[d] = put[d]
    BY <1>0, <1>1, <1>7
  <2> QED
    BY <1>0, <1>6, <1>7, <1>8, <2>1, ReadInOrder DEF Smooth
<1>10. \A d \in Ends : Knows(d)'
  <2>1. Knows(e)'
    BY <1>0, <1>4, <1>6, <1>7 DEF Smooth, Knows, Course
  <2>2. Knows(o)'
    BY <1>0, <1>6, <1>7 DEF Smooth, Knows
  <2> QED
    BY <1>0, <2>1, <2>2
<1> QED
  BY <1>6, <1>9, <1>10 DEF Smooth

\* And the last one opens, once.
LEMMA ReadPacketSmooth ==
  ASSUME IInv, Smooth, NEW e \in Ends, ReadPacket(e)
  PROVE  Smooth'
<1> DEFINE o == Other(e)
<1> USE DEF IInv
<1>0. /\ o \in Ends /\ o # e /\ Other(o) = e /\ Ends = {e, o}
      /\ Established(e) /\ Pending(e) # <<>> /\ Consume(e)
      /\ UNCHANGED <<pc, eph, expect, peer, session, stream>>
  BY TwoEnds DEF ReadPacket, Established
<1>1. <<got[e] + 1, Head(Pending(e))>> \in ProperLines[e] /\ got[e] + 1 <= put[o]
  BY <1>0, HeadProper, Zenon DEF Smooth
<1>2. got[e] = 3 /\ put[o] = 4 /\ e \notin greeted
  <2>1. got[e] \in {3, 4} /\ put[o] \in 0..4
    BY <1>0, Counts DEF got, Established
  <2>2. got[e] = 3 /\ put[o] = 4
    BY <1>1, <2>1
  <2> QED
    BY <2>2 DEF Smooth, Knows
<1>3. <<4, Head(Pending(e))>> \in ProperLines[e]
  <2>1. got[e] + 1 = 4
    BY <1>2
  <2> QED
    BY <1>1, <2>1, Zenon
<1>4. Proper(e, 4, Head(Pending(e)))
  BY <1>3 DEF ProperLines
<1>5. Established(o)
  BY <1>0, <1>2 DEF Smooth, Knows, Course, put, Established
<1>6. session[o].sendKey = session[e].recvKey /\ session[o].sendDir = session[e].recvDir
  BY <1>0, <1>5, OppositeParts DEF OppositeKeys
<1>7. greeted' = greeted \cup {e}
  BY <1>4, <1>6 DEF Proper, ReadPacket
<1>8. /\ got'[e] = 4 /\ put'[e] = put[e]
      /\ got'[o] = got[o] /\ put'[o] = put[o] /\ buf'[o] = buf[o]
  BY <1>0, <1>7 DEF got, put, TypeOK, Consume, Established
<1>9. ProperLines' = ProperLines
  BY <1>0 DEF ProperLines, Proper, Signature, TranscriptOf, Transcript
<1>10. \A d \in Ends : InOrder(d)'
  <2>1. got'[e] = got[e] + 1 /\ \A d \in Ends : put'[d] = put[d]
    BY <1>0, <1>2, <1>8
  <2> QED
    BY <1>0, <1>8, <1>9, <2>1, ReadInOrder DEF Smooth
<1>11. \A d \in Ends : Knows(d)'
  <2>1. Knows(e)'
    BY <1>0, <1>2, <1>8 DEF Smooth, Knows
  <2>2. Knows(o)'
    BY <1>0, <1>7, <1>8 DEF Smooth, Knows
  <2> QED
    BY <1>0, <2>1, <2>2
<1> QED
  BY <1>0, <1>10, <1>11 DEF Smooth

\* A disturbance is never undone, and every other step keeps the exchange in order.
LEMMA FlowStep == IInv /\ Flow /\ Next => Flow'
<1> SUFFICES ASSUME IInv, Flow, Next PROVE Flow'
  OBVIOUS
<1> USE DEF IInv
<1>1. damage' \in Nat /\ (Undisturbed' => Undisturbed)
  <2>1. how' = how /\ expect' = expect /\ damage' \in {damage, damage + 1}
    BY DEF Next, Step, WriteRequest, ReadRequest, WriteAccept, WriteReject, ReadAccept, WritePub,
       ReadPub, WriteSig, ReadSig, ReadError, WriteError, TimeOut, SendFirst, ReadPacket, Leave,
       Fail, Break, Damage
  <2>2. stream # "up" => stream' = stream
    BY DEF Next, Step, WriteRequest, ReadRequest, WriteAccept, WriteReject, ReadAccept, WritePub,
       ReadPub, WriteSig, ReadSig, ReadError, WriteError, TimeOut, SendFirst, ReadPacket, Leave,
       Fail, Break, Damage
  <2>3. damage' \in Nat /\ (damage' = 0 => damage = 0)
    BY <2>1 DEF Flow
  <2> QED
    BY <2>1, <2>2, <2>3 DEF Undisturbed
<1> SUFFICES ASSUME Undisturbed' PROVE Smooth'
  BY <1>1 DEF Flow
<1>2. Undisturbed /\ Smooth /\ stream = "up" /\ TypeOK
  BY <1>1 DEF Flow, Smooth
<1>3. ASSUME NEW e \in Ends, Step(e) \/ TimeOut(e) \/ SendFirst(e) \/ ReadPacket(e)
      PROVE  Smooth'
  <2>1. CASE WriteRequest(e) \/ WriteAccept(e) \/ WritePub(e) \/ WriteSig(e) \/ SendFirst(e)
    BY <1>2, <2>1, WriteSmooth
  <2>2. CASE ReadRequest(e) \/ ReadAccept(e)
    BY <1>2, <2>2, ReadLineSmooth
  <2>3. CASE ReadPub(e)
    BY <1>2, <2>3, ReadPubSmooth
  <2>4. CASE ReadSig(e)
    BY <1>2, <2>4, ReadSigSmooth
  <2>5. CASE ReadPacket(e)
    BY <1>2, <2>5, ReadPacketSmooth
  <2>6. CASE WriteReject(e) \/ TimeOut(e)
    BY <1>2, <2>6 DEF WriteReject, TimeOut, Leave, Undisturbed
  <2>7. CASE ReadError(e) \/ WriteError(e)
    BY <1>2, <2>7 DEF ReadError, WriteError
  <2> QED
    BY <1>3, <2>1, <2>2, <2>3, <2>4, <2>5, <2>6, <2>7 DEF Step
<1>4. CASE Break
  BY <1>4 DEF Break, Undisturbed
<1>5. CASE \E e \in Ends : \E i \in DOMAIN net[e] : Damage(e, i)
  BY <1>2, <1>5 DEF Damage, Undisturbed
<1> QED
  BY <1>3, <1>4, <1>5 DEF Next

\* Nothing was written and nothing read.
LEMMA FlowInit == Init => Flow
<1> SUFFICES ASSUME Init, Undisturbed PROVE Smooth /\ damage \in Nat
  BY DEF Flow, Init
<1>1. /\ pc = [e \in Ends |-> IF e = "listener" THEN "readRequest" ELSE "writeRequest"]
      /\ greeted = {} /\ stream = "up" /\ damage = 0
  BY DEF Init, Undisturbed
<1>2. \A e \in Ends : got[e] = 0 /\ put[Other(e)] = 0
  BY <1>1 DEF got, put, Ends, Other
<1>3. \A e \in Ends : Knows(e)
  BY <1>1, <1>2 DEF Knows, Course, Ends, Init
<1>4. \A e \in Ends : InOrder(e)
  <2> TAKE e \in Ends
  <2>1. Queue(0, <<>>, <<>>, 0, ProperLines[e])
    BY DEF Queue
  <2>2. buf[e] = <<>> /\ net[e] = <<>>
    BY DEF Init
  <2> QED
    BY <1>2, <2>1, <2>2, Zenon DEF InOrder
<1> QED
  BY <1>1, <1>3, <1>4 DEF Smooth

\* As long as nothing disturbs the exchange, no end gives up; an end without a
\* session can go on, or the other can; and an end that has read all there is has
\* opened the packet that the other sent.
NothingMissed == Undisturbed =>
  /\ \A e \in Ends : pc[e] # "failed"
  /\ (\E e \in Ends : ~Established(e)) =>
       \E e \in Ends : \/ pc[e] \in {"writeRequest", "asking", "writePub", "writeSig"}
                       \/ ~Established(e) /\ Pending(e) # <<>>
  /\ \A e \in Ends : Established(e) /\ pc[Other(e)] = "sent" /\ Pending(e) = <<>> => e \in greeted

\* An end with nothing to read has read all that the other wrote.
LEMMA AllRead ==
  ASSUME TypeOK, NEW e \in Ends, InOrder(e), Pending(e) = <<>>
  PROVE  got[e] = put[Other(e)]
<1>1. buf[e] = <<>> /\ net[e] = <<>>
  BY DEF Pending
<1>2. /\ got[e] \in Nat /\ put[Other(e)] \in Nat
      /\ buf[e] \in Seq(Lines) /\ net[e] \in Seq(Lines)
      /\ Queue(got[e], buf[e], net[e], put[Other(e)], ProperLines[e])
  BY QueueTypes, Zenon DEF InOrder
<1> QED
  BY <1>1, <1>2, QueueHead

\* The safety part of a handshake that works: unless the medium, a timer or the
\* user interferes, the three readers of a stream (readLine, Handshake's and
\* readLoop's) pass it on without losing a line, so that no end fails, the ends
\* never wait for each other, and the first packet is opened however early it
\* arrives.
THEOREM Undropped == Spec => []NothingMissed
<1>1. IInv /\ Flow /\ UNCHANGED vars => Flow'
  <2> SUFFICES ASSUME Flow, UNCHANGED vars PROVE Flow'
    OBVIOUS
  <2>1. Undisturbed' = Undisturbed /\ damage' = damage /\ stream' = stream
    BY DEF vars, wires, Undisturbed
  <2>2. /\ got' = got /\ put' = put /\ buf' = buf /\ net' = net /\ ProperLines' = ProperLines
        /\ pc' = pc /\ peer' = peer /\ eph' = eph /\ greeted' = greeted
    BY DEF vars, wires, got, put, ProperLines, Proper, Signature, TranscriptOf, Transcript
  <2>3. \A e \in Ends : (Knows(e)' <=> Knows(e)) /\ (InOrder(e)' <=> InOrder(e))
    BY <2>2, Zenon DEF Knows, InOrder
  <2> QED
    BY <2>1, <2>3 DEF Flow, Smooth
<1>2. IInv /\ Flow /\ [Next]_vars => Flow'
  BY <1>1, FlowStep
<1>3. IInv /\ Flow => NothingMissed
  <2> SUFFICES ASSUME IInv, Smooth PROVE NothingMissed
    BY DEF Flow, NothingMissed
  <2>1. TypeOK /\ \A e \in Ends : /\ pc[e] \in Course(e) /\ Other(e) \in Ends /\ Other(Other(e)) = e
                                  /\ Pending(e) = <<>> => got[e] = put[Other(e)]
    BY AllRead, TwoEnds DEF IInv, Smooth, Knows
  <2>2. \A e \in Ends : pc[e] # "failed"
    BY <2>1 DEF Course
  <2>3. ASSUME NEW e \in Ends, Established(e), pc[Other(e)] = "sent", Pending(e) = <<>>
        PROVE  e \in greeted
    <3>1. put[Other(e)] = 4
      BY <2>1, <2>3 DEF put
    <3>2. got[e] = 4
      BY <2>1, <2>3, <3>1
    <3> QED
      BY <2>3, <3>2 DEF got, Established
  <2>4. ASSUME NEW e \in Ends, ~Established(e),
               \A d \in Ends : /\ pc[d] \notin {"writeRequest", "asking", "writePub", "writeSig"}
                               /\ ~Established(d) => Pending(d) = <<>>
        PROVE  FALSE
    <3> DEFINE o == Other(e)
    <3>1. /\ pc[e] \in {"readRequest", "readAccept", "readPub", "readSig"}
          /\ pc[o] \in {"readRequest", "readAccept", "readPub", "readSig", "open", "sent"}
      BY <2>1, <2>4 DEF Course, Established
    <3>2. /\ got[e] = put[o]
          /\ pc[o] \notin {"open", "sent"} => got[o] = put[e]
      BY <2>1, <2>4 DEF Established
    <3>3. /\ got[e] <= 2 /\ (pc[o] \in {"open", "sent"} => put[o] >= 3)
          /\ put[e] > got[e] \/ pc[e] = "readRequest"
          /\ pc[o] \notin {"open", "sent"} => put[o] > got[o] \/ pc[o] = "readRequest"
      BY <2>1, <3>1 DEF got, put
    <3>4. pc[e] = "readRequest" => e = "listener" /\ put[o] >= 1
      BY <2>1, <3>1 DEF Course, put, Ends, Other
    <3>5. pc[o] = "readRequest" => e = "dialer" /\ put[e] >= 1
      BY <2>1, <3>1 DEF Course, put, Ends, Other
    <3>6. (pc[e] = "readRequest" => got[e] = 0) /\ (pc[o] = "readRequest" => got[o] = 0)
      BY <2>1 DEF got
    <3>7. got[e] \in Nat /\ got[o] \in Nat /\ put[e] \in Nat /\ put[o] \in Nat
      BY <2>1, Counts
    <3> QED
      BY <3>1, <3>2, <3>3, <3>4, <3>5, <3>6, <3>7
  <2> QED
    BY <2>2, <2>3, <2>4, Zenon DEF NothingMissed
<1> QED
  BY <1>2, <1>3, FlowInit, Invariance, PTL DEF Spec
=============================================================================
