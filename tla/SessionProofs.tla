--------------------------- MODULE SessionProofs ----------------------------
(***************************************************************************)
(* Proofs about Session for every window width W and every number of       *)
(* packets MaxCtr.  The inductive invariant ties the bit mask to the       *)
(* packets opened (WindowExact) and the packets on the wire to the sending *)
(* counters (WireSealed); AtMostOnce alone is not inductive, because it    *)
(* says nothing of what the mask remembers.                                *)
(***************************************************************************)
EXTENDS Session, TLAPS

\* An intact packet on the wire was sealed by the side that sends in its
\* direction.
WireSealed == \A p \in wire : \A s \in Sides :
                (p.intact /\ p.dir = SendDir(s)) => p.ctr <= sendCtr[s]

\* AtMostOnce and WindowExact for one side: a step of one side leaves the
\* other side's part alone.
SideInv(s) ==
  /\ \A c \in Ctrs : opened[s][c] <= 1
  /\ \A c \in Ctrs : opened[s][c] > 0 => c <= recvMax[s]
  /\ \A c \in Ctrs : recvMax[s] - c \in 0..(W - 1) =>
       (recvMax[s] - c \in recvWindow[s] <=> opened[s][c] > 0)
  /\ recvMax[s] > 0 => opened[s][recvMax[s]] > 0

IInv == /\ \A s \in Sides : SideInv(s)
        /\ OpenedWasSealed
        /\ WireSealed

-----------------------------------------------------------------------------
\* A shifted window is a window: the bits that would leave the word are gone.
LEMMA ShiftLeftType ==
  ASSUME NEW win \in SUBSET (0..(W - 1)), NEW shift \in Nat
  PROVE  ShiftLeft(win, shift) \in SUBSET (0..(W - 1))
BY WAssumption DEF ShiftLeft

\* Bit b of a shifted window is bit b - shift of the window.
LEMMA ShiftLeftBits ==
  ASSUME NEW win \in SUBSET (0..(W - 1)), NEW shift \in Nat,
         NEW b \in 0..(W - 1)
  PROVE  b \in ShiftLeft(win, shift) <=> b - shift \in win
<1>1. CASE shift >= W
  BY <1>1, WAssumption DEF ShiftLeft
<1>2. CASE ~(shift >= W)
  <2>1. ShiftLeft(win, shift) = {x + shift : x \in {y \in win : y + shift < W}}
    BY <1>2 DEF ShiftLeft
  <2>2. ASSUME b \in ShiftLeft(win, shift) PROVE b - shift \in win
    BY <2>1, <2>2, WAssumption
  <2>3. ASSUME b - shift \in win PROVE b \in ShiftLeft(win, shift)
    <3>1. (b - shift) + shift = b
      BY WAssumption
    <3>2. b - shift \in {y \in win : y + shift < W}
      BY <2>3, <3>1, WAssumption
    <3>. QED BY <2>1, <3>1, <3>2
  <2>. QED BY <2>2, <2>3
<1>. QED BY <1>1, <1>2

\* Type correctness of the packet layer: no step leaves the W-bit word, the
\* counters' range or the set of packets.
THEOREM TypeCorrect == Spec => []TypeOK
<1>1. Init => TypeOK
  BY WAssumption, MaxCtrAssumption DEF Init, TypeOK, Ctrs, Verdicts
<1>2. TypeOK /\ [Next]_vars => TypeOK'
  <2> SUFFICES ASSUME TypeOK, [Next]_vars PROVE TypeOK'
    OBVIOUS
  <2> USE WAssumption, MaxCtrAssumption
  <2>1. ASSUME NEW s \in Sides, Encrypt(s) PROVE TypeOK'
    <3>1. [dir |-> SendDir(s), ctr |-> sendCtr[s] + 1, intact |-> TRUE] \in Packets
      BY <2>1 DEF Encrypt, TypeOK, Packets, Ctrs, SendDir
    <3>2. sendCtr' \in [Sides -> 0..MaxCtr] /\ wire' \subseteq Packets
      <4>1. sendCtr' \in [Sides -> 0..MaxCtr]
        BY <2>1 DEF Encrypt, TypeOK
      <4>2. wire' \subseteq Packets
        BY <2>1, <3>1 DEF Encrypt, TypeOK
      <4>. QED BY <4>1, <4>2
    <3>3. UNCHANGED <<recvMax, recvWindow, opened, answer>>
      BY <2>1 DEF Encrypt
    <3>. QED BY <3>2, <3>3 DEF TypeOK
  <2>2. ASSUME NEW s \in Sides, NEW p \in Arriving, DecryptOK(s, p) PROVE TypeOK'
    <3>1. p \in Packets /\ p.ctr \in Ctrs
      BY DEF Arriving, Packets, TypeOK
    <3>2. /\ opened' \in [Sides -> [Ctrs -> Nat]]
          /\ answer' \in [Sides -> (0..MaxCtr) \X Verdicts]
          /\ UNCHANGED <<sendCtr, wire>>
      <4>1. opened' \in [Sides -> [Ctrs -> Nat]]
        BY <2>2, <3>1 DEF DecryptOK, TypeOK
      <4>2. answer' \in [Sides -> (0..MaxCtr) \X Verdicts]
        BY <2>2, <3>1 DEF DecryptOK, TypeOK, Ctrs, Verdicts
      <4>. QED BY <2>2, <4>1, <4>2 DEF DecryptOK
    <3>3. CASE AcceptNew(s, p.ctr)
      <4>1. ShiftLeft(recvWindow[s], p.ctr - recvMax[s]) \in SUBSET (0..(W - 1))
        BY <3>1, <3>3, ShiftLeftType DEF AcceptNew, TypeOK, Ctrs
      <4>2. recvWindow' \in [Sides -> SUBSET (0..(W - 1))]
        BY <3>3, <4>1 DEF AcceptNew, TypeOK
      <4>3. recvMax' \in [Sides -> 0..MaxCtr]
        BY <3>1, <3>3 DEF AcceptNew, TypeOK, Ctrs
      <4>. QED BY <3>2, <4>2, <4>3 DEF TypeOK
    <3>4. CASE AcceptLate(s, p.ctr)
      <4>1. recvMax[s] - p.ctr \in 0..(W - 1)
        BY <3>1, <3>4 DEF AcceptLate, IsReplay, TypeOK, Ctrs
      <4>2. recvWindow' \in [Sides -> SUBSET (0..(W - 1))] /\ UNCHANGED recvMax
        BY <3>4, <4>1 DEF AcceptLate, TypeOK
      <4>. QED BY <3>2, <4>2 DEF TypeOK
    <3>. QED BY <2>2, <3>3, <3>4 DEF DecryptOK
  <2>3. ASSUME NEW s \in Sides, NEW p \in Arriving, DecryptReplay(s, p) PROVE TypeOK'
    <3>1. p.ctr \in Ctrs
      BY DEF Arriving, Packets, TypeOK
    <3>2. answer' \in [Sides -> (0..MaxCtr) \X Verdicts]
      BY <2>3, <3>1 DEF DecryptReplay, TypeOK, Ctrs, Verdicts
    <3>3. UNCHANGED <<sendCtr, recvMax, recvWindow, wire, opened>>
      BY <2>3 DEF DecryptReplay
    <3>. QED BY <3>2, <3>3 DEF TypeOK
  <2>4. ASSUME NEW s \in Sides, NEW p \in Arriving, DecryptRejected(s, p) PROVE TypeOK'
    BY <2>4 DEF DecryptRejected, TypeOK, vars
  <2>5. CASE UNCHANGED vars
    BY <2>5 DEF TypeOK, vars
  <2>. QED BY <2>1, <2>2, <2>3, <2>4, <2>5 DEF Next, Decrypt
<1>. QED BY <1>1, <1>2, PTL DEF Spec

-----------------------------------------------------------------------------
\* A packet that opens was sealed by the other side: its counter is at most
\* the one that side sent last.
LEMMA Openable ==
  ASSUME TypeOK, IInv, NEW s \in Sides, NEW p \in Arriving,
         p.dir = RecvDir(s), AEADOpens(s, p)
  PROVE  p.ctr \in Ctrs /\ p.ctr <= sendCtr[Other(s)]
<1>1. p \in wire /\ p.ctr \in Ctrs
  BY DEF Arriving, AEADOpens, Packets, TypeOK
<1>2. Other(s) \in Sides /\ p.intact /\ p.dir = SendDir(Other(s))
  BY DEF Other, Sides, AEADOpens, RecvDir
<1>. QED BY <1>1, <1>2 DEF IInv, WireSealed

\* Opening a packet whose counter is above the window keeps the mask exact.
LEMMA AcceptNewKeeps ==
  ASSUME TypeOK, NEW s \in Sides, SideInv(s), NEW ctr \in Ctrs,
         AcceptNew(s, ctr), opened' = [opened EXCEPT ![s][ctr] = @ + 1]
  PROVE  SideInv(s)'
<1> USE WAssumption, MaxCtrAssumption
<1> DEFINE w == recvWindow[s]
           shift == ctr - recvMax[s]
<1>1. /\ recvMax[s] \in Nat /\ ctr \in Nat /\ ctr > recvMax[s] /\ shift \in Nat
      /\ w \in SUBSET (0..(W - 1)) /\ shift > 0
  BY DEF TypeOK, Ctrs, AcceptNew
<1>2. recvMax'[s] = ctr /\ recvWindow'[s] = ShiftLeft(w, shift) \cup {0}
  BY DEF TypeOK, AcceptNew
<1>3. \A c \in Ctrs : opened[s][c] \in Nat
  BY DEF TypeOK
<1>4. \A c \in Ctrs : opened'[s][c] = IF c = ctr THEN opened[s][c] + 1
                                               ELSE opened[s][c]
  BY DEF TypeOK
<1>5. opened[s][ctr] = 0
  BY <1>1, <1>3 DEF SideInv
<1>6. \A c \in Ctrs : opened'[s][c] <= 1
  BY <1>3, <1>4, <1>5 DEF SideInv
<1>7. \A c \in Ctrs : opened'[s][c] > 0 => c <= ctr
  BY <1>1, <1>3, <1>4 DEF SideInv, Ctrs
<1>8. ASSUME NEW c \in Ctrs, ctr - c \in 0..(W - 1)
      PROVE  ctr - c \in recvWindow'[s] <=> opened'[s][c] > 0
  <2>1. CASE c = ctr
    BY <1>1, <1>2, <1>4, <1>5, <2>1
  <2>2. CASE c # ctr
    <3>1. c \in Nat /\ ctr - c # 0 /\ (ctr - c) - shift = recvMax[s] - c
      BY <1>1, <2>2 DEF Ctrs
    <3>2. ctr - c \in recvWindow'[s] <=> recvMax[s] - c \in w
      BY <1>1, <1>2, <1>8, <3>1, ShiftLeftBits
    <3>3. recvMax[s] - c \in w <=> opened[s][c] > 0
      <4>1. CASE recvMax[s] - c \in 0..(W - 1)
        BY <4>1 DEF SideInv
      <4>2. CASE recvMax[s] - c \notin 0..(W - 1)
        BY <1>1, <1>3, <1>8, <3>1, <4>2 DEF SideInv
      <4>. QED BY <4>1, <4>2
    <3>. QED BY <1>4, <2>2, <3>2, <3>3
  <2>. QED BY <2>1, <2>2
<1>9. opened'[s][ctr] > 0
  BY <1>4, <1>5
<1>. QED BY <1>2, <1>6, <1>7, <1>8, <1>9 DEF SideInv

\* Opening a late packet inside the window keeps the mask exact.
LEMMA AcceptLateKeeps ==
  ASSUME TypeOK, NEW s \in Sides, SideInv(s), NEW ctr \in Ctrs,
         AcceptLate(s, ctr), opened' = [opened EXCEPT ![s][ctr] = @ + 1]
  PROVE  SideInv(s)'
<1> USE WAssumption, MaxCtrAssumption
<1>1. /\ recvMax[s] \in Nat /\ ctr \in Nat /\ recvMax[s] - ctr \in 0..(W - 1)
      /\ recvMax[s] - ctr \notin recvWindow[s]
  BY DEF TypeOK, Ctrs, AcceptLate, IsReplay
<1>2. /\ recvMax'[s] = recvMax[s]
      /\ recvWindow'[s] = recvWindow[s] \cup {recvMax[s] - ctr}
  BY DEF TypeOK, AcceptLate
<1>3. \A c \in Ctrs : opened[s][c] \in Nat /\ c \in Nat
  BY DEF TypeOK, Ctrs
<1>4. \A c \in Ctrs : opened'[s][c] = IF c = ctr THEN opened[s][c] + 1
                                               ELSE opened[s][c]
  BY DEF TypeOK
<1>5. opened[s][ctr] = 0
  BY <1>1, <1>3 DEF SideInv
<1>6. \A c \in Ctrs : opened'[s][c] <= 1
  BY <1>3, <1>4, <1>5 DEF SideInv
<1>7. \A c \in Ctrs : opened'[s][c] > 0 => c <= recvMax[s]
  BY <1>1, <1>3, <1>4 DEF SideInv
<1>8. ASSUME NEW c \in Ctrs, recvMax[s] - c \in 0..(W - 1)
      PROVE  recvMax[s] - c \in recvWindow'[s] <=> opened'[s][c] > 0
  <2>1. CASE c = ctr
    BY <1>2, <1>4, <1>5, <2>1
  <2>2. CASE c # ctr
    <3>1. recvMax[s] - c # recvMax[s] - ctr
      BY <1>1, <1>3, <2>2
    <3>. QED BY <1>2, <1>4, <1>8, <2>2, <3>1 DEF SideInv
  <2>. QED BY <2>1, <2>2
<1>9. recvMax[s] > 0 => opened'[s][recvMax[s]] > 0
  <2>1. recvMax[s] > 0 => recvMax[s] \in Ctrs
    BY DEF TypeOK, Ctrs
  <2>. QED BY <1>3, <1>4, <2>1 DEF SideInv
<1>. QED BY <1>2, <1>6, <1>7, <1>8, <1>9 DEF SideInv

-----------------------------------------------------------------------------
\* Every step keeps the inductive invariant.
LEMMA InvStep ==
  ASSUME TypeOK, TypeOK', IInv, [Next]_vars
  PROVE  IInv'
<1> USE WAssumption, MaxCtrAssumption
<1>1. ASSUME NEW s \in Sides, Encrypt(s) PROVE IInv'
  <2>1. UNCHANGED <<recvMax, recvWindow, opened>>
    BY <1>1 DEF Encrypt
  <2>2. \A t \in Sides : sendCtr[t] <= sendCtr'[t] /\ sendCtr[t] \in Nat
                         /\ sendCtr'[t] \in Nat /\ recvMax[t] \in Nat
    BY <1>1 DEF Encrypt, TypeOK
  <2>3. \A t \in Sides : SideInv(t)'
    BY <2>1 DEF IInv, SideInv
  <2>4. OpenedWasSealed'
    <3>1. \A t \in Sides : Other(t) \in Sides
      BY DEF Other, Sides
    <3>. QED BY <2>1, <2>2, <3>1 DEF IInv, OpenedWasSealed, Ctrs
  <2>5. WireSealed'
    <3> SUFFICES ASSUME NEW p \in wire', NEW t \in Sides,
                        p.intact, p.dir = SendDir(t)
                 PROVE  p.ctr <= sendCtr'[t]
      BY DEF WireSealed
    <3>1. CASE p \in wire
      <4>1. p.ctr <= sendCtr[t]
        BY <3>1 DEF IInv, WireSealed
      <4>2. p.ctr \in Nat
        BY <3>1 DEF TypeOK, Packets, Ctrs
      <4>. QED BY <2>2, <4>1, <4>2
    <3>2. CASE p = [dir |-> SendDir(s), ctr |-> sendCtr[s] + 1, intact |-> TRUE]
      <4>1. t = s
        BY <3>2 DEF SendDir, Sides, directionLowToHigh, directionHighToLow
      <4>2. sendCtr'[s] = sendCtr[s] + 1
        BY <1>1 DEF Encrypt, TypeOK
      <4>. QED BY <2>2, <3>2, <4>1, <4>2
    <3>. QED BY <1>1, <3>1, <3>2 DEF Encrypt
  <2>. QED BY <2>3, <2>4, <2>5 DEF IInv
<1>2. ASSUME NEW s \in Sides, NEW p \in Arriving, DecryptOK(s, p) PROVE IInv'
  <2>1. p.ctr \in Ctrs /\ p.ctr <= sendCtr[Other(s)]
    BY <1>2, Openable DEF DecryptOK
  <2>2. opened' = [opened EXCEPT ![s][p.ctr] = @ + 1]
    BY <1>2 DEF DecryptOK
  <2>3. SideInv(s)'
    <3>1. SideInv(s)
      BY DEF IInv
    <3>. QED BY <1>2, <2>1, <2>2, <3>1, AcceptNewKeeps, AcceptLateKeeps DEF DecryptOK
  <2>4. ASSUME NEW t \in Sides, t # s
        PROVE  /\ recvMax'[t] = recvMax[t] /\ recvWindow'[t] = recvWindow[t]
               /\ opened'[t] = opened[t]
    BY <1>2, <2>2, <2>4 DEF DecryptOK, AcceptNew, AcceptLate, TypeOK
  <2>5. \A t \in Sides : SideInv(t)'
    <3>1. ASSUME NEW t \in Sides, t # s PROVE SideInv(t)'
      BY <2>4, <3>1 DEF IInv, SideInv
    <3>. QED BY <2>3, <3>1
  <2>6. OpenedWasSealed'
    <3>1. sendCtr' = sendCtr
      BY <1>2 DEF DecryptOK
    <3>2. recvMax'[s] <= sendCtr[Other(s)]
      BY <1>2, <2>1 DEF DecryptOK, AcceptNew, AcceptLate, TypeOK, IInv, OpenedWasSealed
    <3>3. \A c \in Ctrs : opened'[s][c] > 0 => c <= sendCtr[Other(s)]
      BY <2>1, <2>2 DEF TypeOK, IInv, OpenedWasSealed
    <3>. QED BY <2>4, <3>1, <3>2, <3>3 DEF IInv, OpenedWasSealed
  <2>7. WireSealed'
    BY <1>2 DEF DecryptOK, IInv, WireSealed
  <2>. QED BY <2>5, <2>6, <2>7 DEF IInv
<1>3. ASSUME NEW s \in Sides, NEW p \in Arriving, DecryptReplay(s, p) PROVE IInv'
  BY <1>3 DEF DecryptReplay, IInv, SideInv, OpenedWasSealed, WireSealed
<1>4. ASSUME NEW s \in Sides, NEW p \in Arriving, DecryptRejected(s, p) PROVE IInv'
  BY <1>4 DEF DecryptRejected, IInv, SideInv, OpenedWasSealed, WireSealed, vars
<1>5. CASE UNCHANGED vars
  BY <1>5 DEF IInv, SideInv, OpenedWasSealed, WireSealed, vars
<1>. QED BY <1>1, <1>2, <1>3, <1>4, <1>5 DEF Next, Decrypt

\* New sessions have sealed and opened nothing.
LEMMA InvInit == Init => IInv
BY WAssumption, MaxCtrAssumption, SMT
   DEF Init, IInv, SideInv, OpenedWasSealed, WireSealed, Ctrs, Sides, Other

\* The inductive invariant holds in every reachable state.
THEOREM Invariance == Spec => []IInv
BY InvInit, InvStep, TypeCorrect, PTL DEF Spec

\* For every window width and any number of packets, Decrypt returns the
\* plaintext of a packet at most once (acceptCounter).
THEOREM NoReplay == Spec => []AtMostOnce
<1>1. IInv => AtMostOnce
  BY DEF IInv, SideInv, AtMostOnce
<1>. QED BY <1>1, Invariance, PTL

\* Whatever Decrypt opens, the other side sealed, and no damaged, reflected or
\* misdirected packet moves the window (tag before replay check).
THEOREM Authentic == Spec => []OpenedWasSealed
<1>1. IInv => OpenedWasSealed
  BY DEF IInv
<1>. QED BY <1>1, Invariance, PTL

\* The bit mask of acceptCounter is exact over the whole window at all times.
THEOREM MaskExact == Spec => []WindowExact
<1>1. IInv => WindowExact
  BY DEF IInv, SideInv, WindowExact
<1>. QED BY <1>1, Invariance, PTL

-----------------------------------------------------------------------------
\* Under the invariant the mask and the full record of accepted counters give
\* the same verdict on every counter.
LEMMA SameVerdict ==
  ASSUME TypeOK, IInv, NEW s \in Sides, NEW ctr \in Ctrs
  PROVE  /\ ctr > recvMax[s] => ctr \notin Seen[s] /\ Filter!Recent(s, ctr)
         /\ ctr <= recvMax[s] =>
              (IsReplay(s, ctr) <=> (ctr \in Seen[s] \/ ~Filter!Recent(s, ctr)))
<1> USE WAssumption, MaxCtrAssumption
<1>1. recvMax[s] \in Nat /\ ctr \in Nat
  BY DEF TypeOK, Ctrs
<1>2. \A c \in Ctrs : c \in Seen[s] => c <= recvMax[s] /\ c \in Nat
  BY DEF Seen, IInv, SideInv, Ctrs
<1>3. ctr > recvMax[s] => ctr \notin Seen[s] /\ Filter!Recent(s, ctr)
  BY <1>1, <1>2 DEF Filter!Recent, Seen
<1>4. ASSUME ctr <= recvMax[s]
      PROVE  IsReplay(s, ctr) <=> (ctr \in Seen[s] \/ ~Filter!Recent(s, ctr))
  <2>1. recvMax[s] \in Seen[s]
    BY <1>1, <1>4 DEF Seen, IInv, SideInv, TypeOK, Ctrs
  <2>2. Filter!Recent(s, ctr) <=> recvMax[s] < ctr + W
    BY <1>1, <1>2, <2>1 DEF Filter!Recent, Seen
  <2>3. CASE recvMax[s] - ctr \in 0..(W - 1)
    <3>1. recvMax[s] - ctr \in recvWindow[s] <=> ctr \in Seen[s]
      BY <2>3 DEF Seen, IInv, SideInv
    <3>. QED BY <1>1, <2>2, <2>3, <3>1 DEF IsReplay
  <2>4. CASE recvMax[s] - ctr \notin 0..(W - 1)
    BY <1>1, <1>4, <2>2, <2>4 DEF IsReplay
  <2>. QED BY <2>3, <2>4
<1>. QED BY <1>3, <1>4

\* Session implements the filter that remembers every counter: the sliding
\* mask accepts and refuses exactly the same packets.
THEOREM Refinement == Spec => ImplementsFilter
<1> USE WAssumption, MaxCtrAssumption
<1>1. Init => Filter!FInit
  BY DEF Init, Filter!FInit, Seen
<1>2. ASSUME TypeOK, TypeOK', IInv, IInv', [Next]_vars
      PROVE  [Filter!FNext]_(Filter!fvars)
  <2>1. ASSUME NEW s \in Sides, Encrypt(s) PROVE UNCHANGED Filter!fvars
    BY <2>1 DEF Encrypt, Filter!fvars, Seen
  <2>2. ASSUME NEW s \in Sides, NEW p \in Arriving, DecryptOK(s, p)
        PROVE  p.ctr \in Ctrs /\ Filter!Admit(s, p.ctr)
    <3>1. p.ctr \in Ctrs
      BY <1>2, <2>2, Openable DEF DecryptOK
    <3>2. p.ctr \notin Seen[s] /\ Filter!Recent(s, p.ctr)
      BY <1>2, <2>2, <3>1, SameVerdict DEF DecryptOK, AcceptNew, AcceptLate
    <3>3. Seen' = [Seen EXCEPT ![s] = @ \cup {p.ctr}]
      <4>1. opened' = [opened EXCEPT ![s][p.ctr] = @ + 1]
        BY <2>2 DEF DecryptOK
      <4>2. \A t \in Sides : Seen'[t] = IF t = s THEN Seen[t] \cup {p.ctr} ELSE Seen[t]
        BY <1>2, <3>1, <4>1 DEF Seen, TypeOK
      <4>. QED BY <4>2 DEF Seen
    <3>. QED BY <2>2, <3>1, <3>2, <3>3 DEF Filter!Admit, DecryptOK
  <2>3. ASSUME NEW s \in Sides, NEW p \in Arriving, DecryptReplay(s, p)
        PROVE  p.ctr \in Ctrs /\ Filter!Refuse(s, p.ctr)
    <3>1. p.ctr \in Ctrs
      BY <1>2, <2>3, Openable DEF DecryptReplay
    <3>2. p.ctr \in Seen[s] \/ ~Filter!Recent(s, p.ctr)
      BY <1>2, <2>3, <3>1, SameVerdict DEF DecryptReplay
    <3>3. Seen' = Seen
      BY <2>3 DEF DecryptReplay, Seen
    <3>. QED BY <2>3, <3>1, <3>2, <3>3 DEF Filter!Refuse, DecryptReplay
  <2>4. ASSUME NEW s \in Sides, NEW p \in Arriving, DecryptRejected(s, p)
        PROVE  UNCHANGED Filter!fvars
    BY <2>4 DEF DecryptRejected, vars, Filter!fvars, Seen
  <2>5. CASE UNCHANGED vars
    BY <2>5 DEF vars, Filter!fvars, Seen
  <2>. QED BY <1>2, <2>1, <2>2, <2>3, <2>4, <2>5 DEF Next, Decrypt, Filter!FNext
<1>. QED BY <1>1, <1>2, TypeCorrect, Invariance, PTL
         DEF Spec, ImplementsFilter, Filter!FSpec
=============================================================================
