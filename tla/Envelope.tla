------------------------------ MODULE Envelope ------------------------------
(***************************************************************************)
(* The versioned envelope (protocol/envelope.go), what chat_envelope.go    *)
(* puts into it and checks on arrival, and the safety number               *)
(* (verification.go), as functions of their inputs.                        *)
(*                                                                         *)
(* Times are milliseconds and clocks are arguments.  Of a text only the    *)
(* length in bytes matters, and of a body also whether it is JSON and how  *)
(* many of its bytes json.Marshal would escape once more.  A peer is a     *)
(* number, compared as its ID string is.  SHA-256 is ideal: a digest is    *)
(* what was digested.                                                      *)
(***************************************************************************)
EXTENDS Integers, Sequences

Version == 2
MaxEnvelopeSize == 64 * 1024
MaxBodySize == 48 * 1024
MaxIDLength == 128
MaxFutureSkew == 5 * 60 * 1000

\* MessageType.Valid.
MessageTypes == {"chat", "ack", "control", "error", "typing", "presence"}

\* An Envelope; an empty conversation or sender has length 0.
Envelopes == [v : Int, t : STRING, idLen : Nat, conv : Seq(Nat), convLen : Nat,
              from : Nat, fromLen : Nat, ts : Int, seq : Nat,
              bodyLen : Nat, plain : Nat, json : {"valid", "broken"}]

\* Validate, by a clock that says now.
Validate(e, now) ==
  /\ e.v = Version /\ e.t \in MessageTypes
  /\ e.idLen > 0 /\ e.idLen <= MaxIDLength
  /\ e.ts > 0 /\ e.ts <= now + MaxFutureSkew
  /\ e.convLen <= MaxIDLength /\ e.fromLen <= MaxIDLength
  /\ e.t = "chat" => e.convLen > 0 /\ e.fromLen > 0 /\ e.seq > 0
  /\ e.bodyLen <= MaxBodySize
  /\ e.bodyLen > 0 => e.json = "valid"

\* json.Marshal of an envelope: the sizes it may have.  A byte of an identifier
\* takes six at most; field names, numbers, version and type fit into Frame.  The
\* body, a RawMessage, loses its blanks, and each of the plain bytes in it that
\* HTML escaping is for takes six.
Frame == 128
Marshalled(e, size) ==
  /\ size > 0
  /\ size <= e.bodyLen + 5 * e.plain + 6 * (e.idLen + e.convLen + e.fromLen) + Frame

\* Encode succeeds.
Encodes(e, size, now) == Validate(e, now) /\ size <= MaxEnvelopeSize

\* Decode succeeds for the bytes of e, of which there are size.
Decodes(e, size, now) == size > 0 /\ size <= MaxEnvelopeSize /\ Validate(e, now)

-----------------------------------------------------------------------------
(* What the peers put into an envelope.                                    *)

\* sort of two IDs.
Sorted(a, b) == IF a < b THEN <<a, b>> ELSE <<b, a>>

\* conversationID: a digest of the sorted pair.
conversationID(first, second) == Sorted(first, second)
DigestLen == 22   \* 16 bytes in base64; message IDs are random and as long

\* newEnvelope before its Validate: the envelope that local builds for remote.  Its
\* body comes from json.Marshal, so that nothing in it is left to escape.
NewEnvelope(type, local, remote, nameLen, seq, bodyLen, now) ==
  [v |-> Version, t |-> type, idLen |-> DigestLen,
   conv |-> conversationID(local, remote), convLen |-> DigestLen,
   from |-> local, fromLen |-> nameLen, ts |-> now, seq |-> seq,
   bodyLen |-> bodyLen, plain |-> 0, json |-> "valid"]

\* handleEnvelope at local, on the stream of peerID, goes on to the type.
Admitted(e, local, peerID) == e.conv = conversationID(local, peerID) /\ e.from = peerID

-----------------------------------------------------------------------------
(* The safety number.                                                      *)

\* What one entry adds to the digest.
Entry(key) == <<key.type, key.len, key.raw>>

\* safetyNumber: both keys, in the order of the peers' IDs.  The groups of
\* digits are derived from this digest alone.
safetyNumber(keyOf, local, remote) ==
  IF local < remote THEN <<Entry(keyOf[local]), Entry(keyOf[remote])>>
                    ELSE <<Entry(keyOf[remote]), Entry(keyOf[local])>>
=============================================================================
