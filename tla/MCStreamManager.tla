--------------------------- MODULE MCStreamManager --------------------------
(* What the protocol document says of chat across streams, and TLC refutes. *)
EXTENDS StreamManager

\* docs/protocol-v2.md:111, "Duplicate chat messages are acknowledged and
\* dropped": no message is shown twice.  AddStream keeps the pending entries but
\* resets the numbers, so a message that was shown on the old stream and whose
\* acknowledgement did not get through is retransmitted on the new one, where it
\* is no duplicate.
ShownOnce ==
  \A i, j \in DOMAIN delivered : delivered[i] = delivered[j] => i = j
=============================================================================
