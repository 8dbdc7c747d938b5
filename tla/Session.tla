------------------------------ MODULE Session -------------------------------
(***************************************************************************)
(* The packet layer of one encrypted session (security/e2ee.go, type       *)
(* Session): both ends, the counters they seal packets with, and the       *)
(* sliding replay window each end keeps for the packets it opens.          *)
(*                                                                         *)
(* recvWindow, a uint64 bit mask in the code, is the set of the bit        *)
(* positions that are 1.  A packet is its nonce (direction and counter)    *)
(* and whether its AEAD tag is intact.  The medium keeps every packet ever *)
(* sealed and hands any of them to either end, any number of times and in  *)
(* any order, so loss, duplication, reordering and reflection are all in.  *)
(***************************************************************************)
EXTENDS Integers

CONSTANTS W,        \* replayWindowBits, 64 in the code
          MaxCtr    \* bound on the packets a side seals; 2^64 - 1 in the code

ASSUME WAssumption == W \in Nat \ {0}
ASSUME MaxCtrAssumption == MaxCtr \in Nat

VARIABLES sendCtr,      \* sendCtr[s]: counter of the last packet s sealed
          recvMax,      \* recvMax[s]: highest counter s accepted
          recvWindow,   \* recvWindow[s]: bit d is the fate of recvMax[s] - d
          wire,         \* the packets sealed so far
          opened,       \* opened[s][c]: times s returned the plaintext of c
          answer        \* answer[s]: last counter judged and the verdict

vars == <<sendCtr, recvMax, recvWindow, wire, opened, answer>>

\* The side with the lower ephemeral key, and the one with the higher.
Sides == {"low", "high"}
Other(s) == IF s = "low" THEN "high" ELSE "low"

directionLowToHigh == 1
directionHighToLow == 2
SendDir(s) == IF s = "low" THEN directionLowToHigh ELSE directionHighToLow
RecvDir(s) == SendDir(Other(s))

Ctrs == 1..MaxCtr
Verdicts == {"none", "accept", "replay"}
Packets == [dir : {directionLowToHigh, directionHighToLow},
            ctr : Ctrs, intact : BOOLEAN]

Init == /\ sendCtr = [s \in Sides |-> 0]
        /\ recvMax = [s \in Sides |-> 0]
        /\ recvWindow = [s \in Sides |-> {}]
        /\ wire = {}
        /\ opened = [s \in Sides |-> [c \in Ctrs |-> 0]]
        /\ answer = [s \in Sides |-> <<0, "none">>]

-----------------------------------------------------------------------------
\* Encrypt: the counter is taken with one atomic add and sealed into the
\* nonce together with the direction.
Encrypt(s) ==
  /\ sendCtr[s] < MaxCtr
  /\ sendCtr' = [sendCtr EXCEPT ![s] = @ + 1]
  /\ wire' = wire \cup
       {[dir |-> SendDir(s), ctr |-> sendCtr[s] + 1, intact |-> TRUE]}
  /\ UNCHANGED <<recvMax, recvWindow, opened, answer>>

\* Slip for OpenedWasSealed: the tag is not verified before the replay check.
AEADOpensUnverified(s, p) == p.dir = RecvDir(s)

\* recvAEAD.Open with s's receive key: only a packet sealed for this
\* direction with an undamaged tag opens.
AEADOpens(s, p) == p.intact /\ p.dir = RecvDir(s)

\* recvWindow <<= shift, with the bits that leave the 64-bit word dropped.
ShiftLeft(win, shift) ==
  IF shift >= W THEN {} ELSE {b + shift : b \in {x \in win : x + shift < W}}

\* Slip for WindowExact: the new counter's own bit is not set.
AcceptNewUnmarked(s, ctr) ==
  /\ ctr > recvMax[s]
  /\ recvWindow' = [recvWindow EXCEPT ![s] = ShiftLeft(@, ctr - recvMax[s])]
  /\ recvMax' = [recvMax EXCEPT ![s] = ctr]

\* acceptCounter, ctr > recvMax: the window slides up to the new counter.
AcceptNew(s, ctr) ==
  /\ ctr > recvMax[s]
  /\ recvWindow' = [recvWindow EXCEPT
                      ![s] = ShiftLeft(@, ctr - recvMax[s]) \cup {0}]
  /\ recvMax' = [recvMax EXCEPT ![s] = ctr]

\* Slips for AtMostOnce (the mask is never tested) and for ImplementsFilter
\* (the window is one packet too narrow).
IsReplayNoMask(s, ctr) == recvMax[s] - ctr >= W
IsReplayNarrow(s, ctr) ==
  LET diff == recvMax[s] - ctr
  IN  diff >= W - 1 \/ diff \in recvWindow[s]

\* A counter at or below recvMax that is outside the window or already
\* marked: ErrReplay.
IsReplay(s, ctr) ==
  LET diff == recvMax[s] - ctr
  IN  diff >= W \/ diff \in recvWindow[s]

\* acceptCounter, ctr <= recvMax: a late packet still inside the window.
AcceptLate(s, ctr) ==
  /\ ctr <= recvMax[s]
  /\ ~IsReplay(s, ctr)
  /\ recvWindow' = [recvWindow EXCEPT ![s] = @ \cup {recvMax[s] - ctr}]
  /\ UNCHANGED recvMax

\* Decrypt returns the plaintext: direction, then tag, then counter.
DecryptOK(s, p) ==
  /\ p.dir = RecvDir(s)
  /\ AEADOpens(s, p)
  /\ AcceptNew(s, p.ctr) \/ AcceptLate(s, p.ctr)
  /\ opened' = [opened EXCEPT ![s][p.ctr] = @ + 1]
  /\ answer' = [answer EXCEPT ![s] = <<p.ctr, "accept">>]
  /\ UNCHANGED <<sendCtr, wire>>

\* Decrypt returns ErrReplay.
DecryptReplay(s, p) ==
  /\ p.dir = RecvDir(s)
  /\ AEADOpens(s, p)
  /\ p.ctr <= recvMax[s]
  /\ IsReplay(s, p.ctr)
  /\ answer' = [answer EXCEPT ![s] = <<p.ctr, "replay">>]
  /\ UNCHANGED <<sendCtr, recvMax, recvWindow, wire, opened>>

\* Decrypt returns before acceptCounter: ErrWrongDirection, or the tag does
\* not verify.  No session state is touched.
DecryptRejected(s, p) ==
  /\ p.dir # RecvDir(s) \/ ~AEADOpens(s, p)
  /\ UNCHANGED vars

\* What can be on the stream: a packet somebody sealed, or a damaged one.
Arriving == wire \cup {p \in Packets : ~p.intact}

Decrypt(s, p) == DecryptOK(s, p) \/ DecryptReplay(s, p) \/ DecryptRejected(s, p)

Next == \E s \in Sides : \/ Encrypt(s)
                         \/ \E p \in Arriving : Decrypt(s, p)

Spec == Init /\ [][Next]_vars

-----------------------------------------------------------------------------
\* Every variable has its type; the window is a W-bit word.
TypeOK == /\ sendCtr \in [Sides -> 0..MaxCtr]
          /\ recvMax \in [Sides -> 0..MaxCtr]
          /\ recvWindow \in [Sides -> SUBSET (0..(W - 1))]
          /\ wire \subseteq Packets
          /\ opened \in [Sides -> [Ctrs -> Nat]]
          /\ answer \in [Sides -> (0..MaxCtr) \X Verdicts]

\* Decrypt never returns the plaintext of the same packet twice, whatever the
\* order in which packets arrive and however far the window has slid
\* (acceptCounter's mask test and shift).
AtMostOnce == \A s \in Sides : \A c \in Ctrs : opened[s][c] <= 1

\* What a side opened, the other side sealed: a damaged packet, a packet of
\* the wrong direction or the side's own reflected packet never comes out of
\* Decrypt, and never consumes the counter of a genuine packet that is still
\* to arrive (the tag is verified before the replay check).
OpenedWasSealed ==
  \A s \in Sides :
    /\ \A c \in Ctrs : opened[s][c] > 0 => c <= sendCtr[Other(s)]
    /\ recvMax[s] <= sendCtr[Other(s)]

\* The bit mask is exact: for every counter the window still covers, the bit
\* is set if and only if that counter was accepted, across every shift.
WindowExact ==
  \A s \in Sides :
    /\ \A c \in Ctrs : opened[s][c] > 0 => c <= recvMax[s]
    /\ \A c \in Ctrs : recvMax[s] - c \in 0..(W - 1) =>
         (recvMax[s] - c \in recvWindow[s] <=> opened[s][c] > 0)
    /\ recvMax[s] > 0 => opened[s][recvMax[s]] > 0

\* The accepted counters of each side, for the abstract filter.
Seen == [s \in Sides |-> {c \in Ctrs : opened[s][c] > 0}]

Filter == INSTANCE ReplayFilter WITH seen <- Seen

\* The sliding mask implements the filter that remembers every counter: it
\* accepts exactly what that filter accepts and refuses exactly what it
\* refuses, so no packet less than W behind is ever lost to the mask.  Late
\* packets are accepted, although the comment on ErrReplay (e2ee.go:36) and
\* CHANGELOG.md:15 say that a counter must be strictly increasing: the
\* window of 64 late packets is what the code has.
ImplementsFilter == Filter!FSpec
=============================================================================
