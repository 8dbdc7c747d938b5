----------------------------- MODULE ChatService ----------------------------
(***************************************************************************)
(* What chat over one stream promises to its two users, without frames,    *)
(* retransmission, buffers and acknowledgements under way.  The sender     *)
(* learns at most one outcome of a message it still waits for, an          *)
(* acknowledgement only of what the receiver holds; the receiver shows 1,  *)
(* 2, 3, ... and never holds back a message whose turn it is.  Outcomes,   *)
(* and what was shown, are never taken back.  ChatTransport is shown to    *)
(* implement this module.                                                  *)
(***************************************************************************)
EXTENDS Integers, Sequences

CONSTANT MaxMsgs   \* bound on the messages sent

VARIABLES sent,      \* messages the user sent; they are 1..sent
          open,      \* those whose outcome the sender waits for
          refused,   \* those that sendChat refused
          reported,  \* those that were reported as failed
          acked,     \* those that were acknowledged
          peer,      \* "known", or "forgotten" once the connection is given up
          kept,      \* the messages the receiver holds or has shown
          shown      \* what the remote user saw

outcomes == <<refused, reported, acked>>
svars == <<sent, open, outcomes, peer, kept, shown>>

SInit == /\ sent = 0 /\ open = {} /\ refused = {} /\ reported = {} /\ acked = {}
         /\ peer = "known" /\ kept = {} /\ shown = <<>>

\* A message is sent; from now on its outcome is awaited.  Its caller may have
\* found the connection before it was given up.
Take == /\ sent < MaxMsgs /\ sent' = sent + 1
        /\ open' = open \cup {sent + 1}
        /\ UNCHANGED <<outcomes, peer, kept, shown>>

\* sendChat refuses the new message, or gives an error for the last one.
RefuseNew == /\ sent < MaxMsgs /\ sent' = sent + 1
             /\ refused' = refused \cup {sent + 1}
             /\ UNCHANGED <<open, reported, acked, peer, kept, shown>>
RefuseLast == /\ sent > 0 /\ refused' = refused \cup {sent} /\ open' = open \ {sent}
              /\ UNCHANGED <<sent, reported, acked, peer, kept, shown>>

Report(n) == /\ n \in open /\ open' = open \ {n} /\ reported' = reported \cup {n}
             /\ UNCHANGED <<sent, refused, acked, peer, kept, shown>>

Acknowledge(n) == /\ n \in open \cap kept /\ open' = open \ {n} /\ acked' = acked \cup {n}
                  /\ UNCHANGED <<sent, refused, reported, peer, kept, shown>>

\* The connection is given up, and only then are the messages whose outcome is
\* still open forgotten, perhaps more than once.
GiveUp == /\ peer = "known" /\ peer' = "forgotten"
          /\ UNCHANGED <<sent, open, outcomes, kept, shown>>
Drop == /\ peer = "forgotten" /\ open' = {}
        /\ UNCHANGED <<sent, outcomes, peer, kept, shown>>

\* The receiver keeps a message that comes before its turn.
Hold(n) == /\ n \in (Len(shown) + 2)..sent \ kept /\ kept' = kept \cup {n}
           /\ UNCHANGED <<sent, open, outcomes, peer, shown>>

\* The message whose turn it is comes: it is shown with all that were waiting
\* for it, up to m, and none is left of which it is the turn.
Show(m) == LET next == Len(shown) + 1
           IN  /\ next <= sent /\ m >= next
               /\ (next + 1)..m \subseteq kept /\ m + 1 \notin kept
               /\ kept' = kept \cup {next} /\ shown' = [i \in 1..m |-> i]
               /\ UNCHANGED <<sent, open, outcomes, peer>>

SNext == \/ Take \/ RefuseNew \/ RefuseLast \/ GiveUp \/ Drop
         \/ \E n \in 1..MaxMsgs : Report(n) \/ Acknowledge(n) \/ Hold(n) \/ Show(n)

SSpec == SInit /\ [][SNext]_svars
=============================================================================
