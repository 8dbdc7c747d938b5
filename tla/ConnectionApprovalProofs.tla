---------------------- MODULE ConnectionApprovalProofs ----------------------
(* Safety of connection approval, for any number of peers, requests, answers *)
(* and tabs.                                                                *)
EXTENDS ConnectionApproval, TLAPS

Arrived == {r \in Requests : pc[r] # "none"}

\* A request that has not arrived has no peer, and the counter is behind it;
\* one that has arrived has a peer and a number.
Fresh == \A r \in Requests :
  IF pc[r] = "none" THEN peerOf[r] = "nobody" /\ nextRequestNum < r
                    ELSE peerOf[r] \in Peers /\ num[r] \in Requests

\* What is in the tables belongs to a handler in progress, and the counter is
\* at zero when there is no number.
Owned == /\ \A p \in Peers : pendingApprovals[p] # 0 =>
              pendingApprovals[p] \in Live /\ peerOf[pendingApprovals[p]] = p
         /\ \A k \in Requests : pendingRequestNums[k] # "nobody" =>
              \E r \in Live : num[r] = k /\ peerOf[r] = pendingRequestNums[k]
         /\ (\A k \in Requests : pendingRequestNums[k] = "nobody") => nextRequestNum = 0

\* A user said yes to peer p, or to a number that a request of p has.
YesFor(p) == \E y \in meant, q \in Requests :
               peerOf[q] = p /\ (q = y \/ num[q] = num[y])

\* Wherever a yes is on its way, it was said to the peer it will reach.
YesKept ==
  /\ webPending \subseteq Arrived /\ meant \subseteq Arrived /\ started \subseteq Arrived
  /\ \A u \in Users : responder[u].at # "free" =>
       responder[u].peer \in Peers /\ (responder[u].answer = "yes" => YesFor(responder[u].peer))
  /\ \A u \in Users : responder[u].at = "send" =>
       responder[u].chan \in Arrived /\ peerOf[responder[u].chan] = responder[u].peer
  /\ \A r \in Requests : (ch[r] = "yes" \/ pc[r] = "accepted" \/ r \in started) =>
       pc[r] # "none" /\ YesFor(peerOf[r])

IInv == TypeOK /\ Fresh /\ Owned /\ NumbersDistinct /\ OnlyRequestReachable /\ YesKept

-----------------------------------------------------------------------------
(* Types.                                                                   *)

\* What a responder may be, and what it is after the look-up of the channel.
Responders == [at : {"free", "peer", "send"}, peer : Peers \cup {"nobody"},
               chan : 0..MaxRequests, answer : {"yes", "no"}]
Found(w) == LET r == pendingApprovals[w.peer]
            IN  IF r = 0 THEN Free ELSE Sending(w, r)

\* The initial state has the invariant.
LEMMA InitInv == Init => IInv
<1> USE BoundsAssumption, UsersAssumption DEF Init, Requests, Users, Free
<1>1. Init => TypeOK
  BY DEF TypeOK
<1>2. Init => Fresh /\ Owned /\ NumbersDistinct /\ OnlyRequestReachable
  BY DEF Fresh, Owned, NumbersDistinct, OnlyRequestReachable, Live
<1>3. Init => YesKept
  BY DEF YesKept, Arrived
<1>4. QED
  BY <1>1, <1>2, <1>3 DEF IInv

\* A step keeps the types; Fresh bounds the number Arrive assigns, and Owned
\* and YesKept say which channel a responder found.
LEMMA TypeStep == IInv /\ [Next]_vars => TypeOK'
<1> USE BoundsAssumption, UsersAssumption DEF Requests, table, spoken
<1> SUFFICES ASSUME IInv, [Next]_vars PROVE TypeOK'
  OBVIOUS
<1>0. TypeOK /\ Fresh /\ Owned /\ YesKept
  BY DEF IInv
<1>1. ASSUME NEW r \in Requests, NEW p \in Peers, Arrive(r, p) PROVE TypeOK'
  <2>1. nextRequestNum + 1 \in 1..MaxRequests
    BY <1>0, <1>1 DEF Arrive, Fresh, TypeOK
  <2>2. QED
    BY <1>0, <1>1, <2>1 DEF Arrive, TypeOK
<1>2. ASSUME NEW r \in Requests, Handle(r) PROVE TypeOK'
  <2>1. CASE Notify(r)
    BY <1>0, <2>1 DEF Notify, NotifyConnectionRequest, TypeOK
  <2>2. CASE ReadAnswer(r)
    BY <1>0, <2>2 DEF ReadAnswer, TypeOK
  <2>3. CASE TimeOut(r)
    BY <1>0, <2>3 DEF TimeOut, TypeOK
  <2>4. CASE Cleanup(r)
    <3>1. nextRequestNum' \in 0..MaxRequests
      BY <1>0, <2>4 DEF Cleanup, TypeOK
    <3>2. QED
      BY <1>0, <2>4, <3>1 DEF Cleanup, TypeOK, Fresh
  <2>5. QED
    BY <1>2, <2>1, <2>2, <2>3, <2>4 DEF Handle
<1>3. ASSUME NEW r \in Requests, NEW ok \in BOOLEAN, Establish(r, ok) PROVE TypeOK'
  <2>1. started' \subseteq Requests
    BY <1>0, <1>3 DEF Establish, TypeOK
  <2>2. QED
    BY <1>0, <1>3, <2>1 DEF Establish, TypeOK
<1>4. ASSUME NEW r \in Requests, NEW answer \in {"yes", "no"}, AnswerByNum(r, answer)
      PROVE TypeOK'
  <2>1. num[r] \in Requests
    BY <1>0, <1>4 DEF AnswerByNum, Fresh
  <2>2. /\ pendingRequestNums[num[r]] \in Peers
        /\ responder' = [responder EXCEPT !["cli"] =
             Asking(pendingRequestNums[num[r]], answer)]
    BY <1>0, <1>4, <2>1 DEF AnswerByNum, TypeOK
  <2>3. responder' \in [Users -> Responders] /\ responder'["cli"].at = "peer"
    BY <1>0, <2>2 DEF Asking, Users, TypeOK, Responders
  <2>4. \A v \in Users : responder'[v].at = "send" => responder'[v].chan # 0
    BY <1>0, <2>2, <2>3 DEF TypeOK
  <2>5. answers' \in 0..MaxAnswers /\ meant' \subseteq Requests
    BY <1>0, <1>4 DEF AnswerByNum, Say, TypeOK
  <2>6. QED
    BY <1>0, <1>4, <2>3, <2>4, <2>5 DEF AnswerByNum, TypeOK, Responders
<1>5. ASSUME NEW r \in Requests, NEW answer \in {"yes", "no"}, NEW u \in Tabs,
             AnswerByPeer(u, r, answer)
      PROVE TypeOK'
  <2>1. peerOf[r] \in Peers
    BY <1>0, <1>5 DEF AnswerByPeer, YesKept, Arrived, Fresh
  <2>2. responder' = [responder EXCEPT ![u] = Asking(peerOf[r], answer)]
    BY <1>5 DEF AnswerByPeer
  <2>3. responder' \in [Users -> Responders] /\ responder'[u].at = "peer"
    BY <1>0, <2>1, <2>2 DEF Asking, Users, TypeOK, Responders
  <2>4. \A v \in Users : responder'[v].at = "send" => responder'[v].chan # 0
    BY <1>0, <2>2, <2>3 DEF TypeOK
  <2>5. answers' \in 0..MaxAnswers /\ meant' \subseteq Requests
    BY <1>0, <1>5 DEF AnswerByPeer, Say, TypeOK
  <2>6. QED
    BY <1>0, <1>5, <2>3, <2>4, <2>5
    DEF AnswerByPeer, RemovePendingRequest, TypeOK, Responders
<1>6. ASSUME NEW u \in Users, LookUp(u) PROVE TypeOK'
  <2>1. responder[u].peer \in Peers
    BY <1>0, <1>6 DEF LookUp, YesKept
  <2>2. responder' = [responder EXCEPT ![u] = Found(responder[u])]
    BY <1>0, <1>6 DEF LookUp, Found
  <2>3. /\ Found(responder[u]) \in Responders
        /\ Found(responder[u]).at = "send" => Found(responder[u]).chan # 0
    BY <1>0, <2>1 DEF Found, Free, Sending, TypeOK, Responders
  <2>4. /\ responder' \in [Users -> Responders]
        /\ \A v \in Users : responder'[v].at = "send" => responder'[v].chan # 0
    BY <1>0, <2>2, <2>3 DEF TypeOK, Responders
  <2>5. QED
    BY <1>0, <1>6, <2>4 DEF LookUp, TypeOK, Responders
<1>7. ASSUME NEW u \in Users, Put(u) PROVE TypeOK'
  BY <1>0, <1>7 DEF Put, Free, TypeOK
<1>8. CASE UNCHANGED vars
  BY <1>0, <1>8 DEF vars, TypeOK
<1>9. QED
  BY <1>1, <1>2, <1>3, <1>4, <1>5, <1>6, <1>7, <1>8 DEF Next


-----------------------------------------------------------------------------
(* The tables: only Arrive and Cleanup touch them.                          *)

Tables == Fresh /\ Owned /\ NumbersDistinct /\ OnlyRequestReachable

\* A step that moves a handler between its inner states, or none, and leaves
\* the tables alone.
Inner == /\ Live' = Live /\ UNCHANGED <<peerOf, num, table>>
         /\ \A r \in Requests : pc'[r] = "none" <=> pc[r] = "none"

\* Such a step keeps what the tables say.
LEMMA InnerStep == ASSUME Tables, Inner PROVE Tables'
<1>1. Fresh'
  BY DEF Tables, Inner, Fresh, table
<1>2. Owned'
  BY DEF Tables, Inner, Owned, table
<1>3. NumbersDistinct'
  BY DEF Tables, Inner, NumbersDistinct, table
<1>4. OnlyRequestReachable'
  BY DEF Tables, Inner, OnlyRequestReachable, table
<1>5. QED
  BY <1>1, <1>2, <1>3, <1>4 DEF Tables

\* A new request gets a number above those in use.
LEMMA ArriveStep == ASSUME TypeOK, Tables, NEW r \in Requests, NEW p \in Peers, Arrive(r, p)
                    PROVE Tables'
<1> USE BoundsAssumption, UsersAssumption DEF Requests
<1>1. /\ pc[r] = "none" /\ peerOf[r] = "nobody" /\ nextRequestNum \in Nat
      /\ nextRequestNum + 1 \in 1..r
  BY DEF Arrive, Tables, Fresh, TypeOK
<1>2. /\ peerOf'[r] = p /\ num'[r] = nextRequestNum + 1 /\ pc'[r] = "notify"
      /\ \A q \in Requests : q # r =>
           peerOf'[q] = peerOf[q] /\ num'[q] = num[q] /\ pc'[q] = pc[q]
  BY DEF Arrive, TypeOK
<1>3. Live' = Live \cup {r} /\ r \notin Live
  BY <1>1, <1>2 DEF Live
<1>4. /\ pendingApprovals'[p] = r
      /\ \A x \in Peers : x # p => pendingApprovals'[x] = pendingApprovals[x]
      /\ pendingRequestNums'[nextRequestNum + 1] = p
      /\ \A k \in Requests : k # nextRequestNum + 1 =>
           pendingRequestNums'[k] = pendingRequestNums[k]
      /\ nextRequestNum' = nextRequestNum + 1
  BY <1>1 DEF Arrive, TypeOK
<1>5. Fresh'
  <2> SUFFICES ASSUME NEW q \in Requests
               PROVE IF pc'[q] = "none" THEN peerOf'[q] = "nobody" /\ nextRequestNum' < q
                                        ELSE peerOf'[q] \in Peers /\ num'[q] \in Requests
    BY DEF Fresh
  <2>1. CASE q = r
    BY <1>1, <1>2, <2>1
  <2>2. CASE q # r /\ pc[q] = "none"
    <3>1. q > r
      BY <2>2 DEF Arrive
    <3>2. QED
      BY <1>1, <1>2, <1>4, <2>2, <3>1 DEF Tables, Fresh
  <2>3. CASE q # r /\ pc[q] # "none"
    BY <1>2, <2>3 DEF Tables, Fresh
  <2>4. QED
    BY <2>1, <2>2, <2>3
<1>6. NumbersDistinct'
  <2>1. \A q \in Live : q # r /\ num[q] \in Requests /\ num[q] <= nextRequestNum
                        /\ pendingRequestNums[num[q]] = peerOf[q]
    BY <1>3 DEF Tables, Fresh, NumbersDistinct, Live
  <2>2. \A q \in Live : /\ num'[q] = num[q] /\ num[q] # nextRequestNum + 1
                        /\ num[q] <= nextRequestNum + 1
                        /\ pendingRequestNums'[num[q]] = peerOf'[q]
    BY <1>1, <1>2, <1>4, <2>1 DEF Live
  <2>3. \A q1, q2 \in Live : num'[q1] = num'[q2] => q1 = q2
    BY <2>2 DEF Tables, NumbersDistinct
  <2>4. QED
    BY <1>1, <1>2, <1>3, <1>4, <2>2, <2>3 DEF NumbersDistinct
<1>7. Owned'
  <2>1. ASSUME NEW x \in Peers, pendingApprovals'[x] # 0
        PROVE  pendingApprovals'[x] \in Live' /\ peerOf'[pendingApprovals'[x]] = x
    BY <1>2, <1>3, <1>4, <2>1 DEF Tables, Owned, Live
  <2>2. ASSUME NEW k \in Requests, pendingRequestNums'[k] # "nobody"
        PROVE  \E q \in Live' : num'[q] = k /\ peerOf'[q] = pendingRequestNums'[k]
    <3>1. CASE k = nextRequestNum + 1
      BY <1>2, <1>3, <1>4, <3>1
    <3>2. CASE k # nextRequestNum + 1
      <4>1. PICK q \in Live : num[q] = k /\ peerOf[q] = pendingRequestNums[k]
        BY <1>4, <2>2, <3>2 DEF Tables, Owned
      <4>2. q \in Live' /\ num'[q] = k /\ peerOf'[q] = pendingRequestNums'[k]
        BY <1>2, <1>3, <1>4, <3>2, <4>1 DEF Live
      <4>3. QED
        BY <4>2
    <3>3. QED
      BY <3>1, <3>2
  <2>3. pendingRequestNums'[nextRequestNum + 1] # "nobody" /\ nextRequestNum + 1 \in Requests
    BY <1>1, <1>4
  <2>4. QED
    BY <2>1, <2>2, <2>3 DEF Owned
<1>8. OnlyRequestReachable'
  <2> SUFFICES ASSUME NEW x \in Live', \A q \in Requests : peerOf'[q] = peerOf'[x] => q = x
               PROVE  pendingApprovals'[peerOf'[x]] = x
    BY DEF OnlyRequestReachable
  <2>1. CASE x = r
    BY <1>2, <1>4, <2>1
  <2>2. CASE x # r
    <3>1. x \in Live /\ peerOf'[x] = peerOf[x] /\ peerOf[x] \in Peers /\ peerOf[x] # p
      BY <1>2, <1>3, <2>2 DEF Live, Tables, Fresh
    <3>2. \A q \in Requests : peerOf[q] = peerOf[x] => q = x
      BY <1>1, <1>2, <3>1
    <3>3. QED
      BY <1>4, <3>1, <3>2 DEF Tables, OnlyRequestReachable
  <2>3. QED
    BY <2>1, <2>2
<1>9. QED
  BY <1>5, <1>6, <1>7, <1>8 DEF Tables

\* The cleanup takes away what is its own; the counter starts over only when
\* no handler is left.
LEMMA CleanupStep == ASSUME TypeOK, Tables, NEW r \in Requests, Cleanup(r)
                     PROVE Tables'
<1> USE BoundsAssumption, UsersAssumption DEF Requests
<1>1. /\ r \in Live /\ peerOf[r] \in Peers /\ num[r] \in Requests
      /\ Live' = Live \ {r} /\ UNCHANGED <<peerOf, num>>
      /\ \A q \in Requests : pc'[q] = "none" <=> pc[q] = "none"
  BY DEF Cleanup, Tables, Fresh, TypeOK, Live
<1>2. /\ pendingApprovals'[peerOf[r]] = 0 /\ pendingRequestNums'[num[r]] = "nobody"
      /\ \A x \in Peers : x # peerOf[r] => pendingApprovals'[x] = pendingApprovals[x]
      /\ \A k \in Requests : k # num[r] => pendingRequestNums'[k] = pendingRequestNums[k]
  BY <1>1 DEF Cleanup, TypeOK
<1>3. \A q \in Live' : pendingRequestNums'[num[q]] = peerOf[q] /\ num[q] \in Requests
                       /\ peerOf[q] \in Peers
  BY <1>1, <1>2 DEF Tables, NumbersDistinct, Fresh, Live
<1>4. IF \A k \in Requests : pendingRequestNums'[k] = "nobody"
      THEN nextRequestNum' = 0 /\ Live' = {}
      ELSE nextRequestNum' = nextRequestNum
  BY <1>3 DEF Cleanup
<1>5. Fresh'
  <2>1. \A q \in Requests : pc[q] = "none" => nextRequestNum' < q
    BY <1>4 DEF Tables, Fresh
  <2>2. QED
    BY <1>1, <2>1 DEF Tables, Fresh
<1>6. NumbersDistinct'
  <2> SUFFICES ASSUME NEW q \in Live'
               PROVE /\ pendingRequestNums'[num[q]] = peerOf[q] /\ num[q] <= nextRequestNum'
                     /\ \A x \in Live' : num[x] = num[q] => x = q
    BY <1>1 DEF NumbersDistinct
  <2>1. nextRequestNum' = nextRequestNum /\ q \in Live
    BY <1>1, <1>4
  <2>2. QED
    BY <1>1, <1>3, <2>1 DEF Tables, NumbersDistinct
<1>7. Owned'
  <2>1. ASSUME NEW x \in Peers, pendingApprovals'[x] # 0
        PROVE  pendingApprovals'[x] \in Live' /\ peerOf'[pendingApprovals'[x]] = x
    BY <1>1, <1>2, <2>1 DEF Tables, Owned
  <2>2. ASSUME NEW k \in Requests, pendingRequestNums'[k] # "nobody"
        PROVE  \E q \in Live' : num'[q] = k /\ peerOf'[q] = pendingRequestNums'[k]
    BY <1>1, <1>2, <2>2 DEF Tables, Owned
  <2>3. (\A k \in Requests : pendingRequestNums'[k] = "nobody") => nextRequestNum' = 0
    BY <1>4
  <2>4. QED
    BY <2>1, <2>2, <2>3 DEF Owned
<1>8. OnlyRequestReachable'
  BY <1>1, <1>2 DEF OnlyRequestReachable, Tables, Live, Fresh
<1>9. QED
  BY <1>5, <1>6, <1>7, <1>8 DEF Tables

\* Every step keeps what the tables say.
LEMMA TablesStep == IInv /\ [Next]_vars => Tables'
<1> SUFFICES ASSUME IInv, [Next]_vars PROVE Tables'
  OBVIOUS
<1>0. TypeOK /\ Tables
  BY DEF IInv, Tables
<1>1. ASSUME NEW r \in Requests, NEW p \in Peers, Arrive(r, p) PROVE Tables'
  BY <1>0, <1>1, ArriveStep
<1>2. ASSUME NEW r \in Requests, Handle(r) PROVE Tables'
  <2>1. CASE Notify(r)
    BY <1>0, <2>1, InnerStep DEF Notify, Inner, TypeOK, Live
  <2>2. CASE ReadAnswer(r)
    BY <1>0, <2>2, InnerStep DEF ReadAnswer, Inner, TypeOK, Live
  <2>3. CASE TimeOut(r)
    BY <1>0, <2>3, InnerStep DEF TimeOut, Inner, TypeOK, Live
  <2>4. CASE Cleanup(r)
    BY <1>0, <2>4, CleanupStep
  <2>5. QED
    BY <1>2, <2>1, <2>2, <2>3, <2>4 DEF Handle
<1>3. ASSUME NEW r \in Requests, NEW ok \in BOOLEAN, Establish(r, ok) PROVE Tables'
  BY <1>0, <1>3, InnerStep DEF Establish, Inner, TypeOK, Live
<1>4. ASSUME UNCHANGED <<peerOf, num, pc, table>> PROVE Tables'
  BY <1>0, <1>4, InnerStep DEF Inner, Live
<1>5. ASSUME NEW r \in Requests, NEW answer \in {"yes", "no"},
             AnswerByNum(r, answer) \/ \E u \in Tabs : AnswerByPeer(u, r, answer)
      PROVE Tables'
  BY <1>4, <1>5 DEF AnswerByNum, AnswerByPeer
<1>6. ASSUME NEW u \in Users, LookUp(u) \/ Put(u) PROVE Tables'
  BY <1>4, <1>6 DEF LookUp, Put
<1>7. CASE UNCHANGED vars
  BY <1>4, <1>7 DEF vars
<1>8. QED
  BY <1>1, <1>2, <1>3, <1>5, <1>6, <1>7 DEF Next


-----------------------------------------------------------------------------
(* A yes on its way.                                                        *)

\* A yes said to a peer stays said: no step changes the peer or the number of
\* a request that has arrived.
LEMMA YesStable ==
  ASSUME TypeOK, Fresh, meant \subseteq Arrived, meant \subseteq meant',
         \A r \in Arrived : peerOf'[r] = peerOf[r] /\ num'[r] = num[r],
         NEW p \in Peers, YesFor(p)
  PROVE  YesFor(p)'
<1>1. PICK y \in meant, q \in Requests : peerOf[q] = p /\ (q = y \/ num[q] = num[y])
  BY DEF YesFor
<1>2. q \in Arrived /\ y \in Arrived
  BY <1>1, UsersAssumption DEF Fresh, Arrived
<1>3. QED
  BY <1>1, <1>2 DEF YesFor

\* A step that leaves the users and the responders alone, and gives no handler
\* a yes, keeps YesKept.
LEMMA QuietStep ==
  ASSUME TypeOK, Fresh, YesKept,
         UNCHANGED <<responder, meant>>, Arrived \subseteq Arrived',
         \A r \in Arrived : peerOf'[r] = peerOf[r] /\ num'[r] = num[r],
         webPending' \subseteq Arrived', started' \subseteq Arrived,
         \A r \in Requests : (ch'[r] = "yes" \/ pc'[r] = "accepted" \/ r \in started') =>
                             (ch[r] = "yes" \/ pc[r] = "accepted" \/ r \in started)
  PROVE  YesKept'
<1>1. \A p \in Peers : YesFor(p) => YesFor(p)'
  BY YesStable DEF YesKept
<1>2. \A r \in Arrived : peerOf[r] \in Peers /\ r \in Requests /\ pc[r] # "none" /\ pc'[r] # "none"
  BY DEF Arrived, Fresh
<1>3. webPending' \subseteq Arrived' /\ meant' \subseteq Arrived' /\ started' \subseteq Arrived'
  BY DEF YesKept
<1>4. ASSUME NEW u \in Users, responder'[u].at # "free"
      PROVE /\ responder'[u].peer \in Peers
            /\ responder'[u].answer = "yes" => YesFor(responder[u].peer)'
  BY <1>1, <1>4 DEF YesKept
<1>5. ASSUME NEW u \in Users, responder'[u].at = "send"
      PROVE  responder'[u].chan \in Arrived' /\ peerOf'[responder'[u].chan] = responder'[u].peer
  BY <1>5 DEF YesKept
<1>6. ASSUME NEW r \in Requests, ch'[r] = "yes" \/ pc'[r] = "accepted" \/ r \in started'
      PROVE  pc'[r] # "none" /\ YesFor(peerOf[r])' /\ peerOf'[r] = peerOf[r]
  BY <1>1, <1>2, <1>6 DEF YesKept, Arrived
<1>7. QED
  BY <1>3, <1>4, <1>5, <1>6 DEF YesKept, YesFor


\* An interface that starts to answer peer p, after a user said yes to a request
\* of p or to a number that a request of p has, keeps YesKept.
LEMMA SayStep ==
  ASSUME TypeOK, Fresh, YesKept, UNCHANGED <<peerOf, num, pc, ch, started>>,
         NEW u \in Users, NEW r \in Arrived, NEW p \in Peers, NEW answer \in {"yes", "no"},
         responder' = [responder EXCEPT ![u] = Asking(p, answer)], Say(r, answer),
         webPending' \subseteq webPending,
         \E q \in Requests : peerOf[q] = p /\ (q = r \/ num[q] = num[r])
  PROVE  YesKept'
<1>1. \A x \in Peers : YesFor(x) => YesFor(x)'
  BY YesStable DEF YesKept, Say
<1>2. answer = "yes" => YesFor(p)'
  BY DEF YesFor, Say
<1>3. Arrived' = Arrived /\ \A q \in Arrived : peerOf[q] \in Peers /\ q \in Requests
  BY DEF Arrived, Fresh
<1>4. /\ responder'[u] = Asking(p, answer)
      /\ \A v \in Users : v # u => responder'[v] = responder[v]
  BY DEF TypeOK
<1>5. webPending' \subseteq Arrived' /\ meant' \subseteq Arrived' /\ started' \subseteq Arrived'
  BY <1>3 DEF YesKept, Say
<1>6. ASSUME NEW v \in Users, responder'[v].at # "free"
      PROVE /\ responder'[v].peer \in Peers
            /\ responder'[v].answer = "yes" => YesFor(responder[v].peer)'
  <2>1. CASE v = u
    <3>1. responder'[v].peer = p /\ responder'[v].answer = answer
      BY <1>4, <2>1 DEF Asking
    <3>2. QED
      BY <1>2, <3>1 DEF YesFor
  <2>2. CASE v # u
    <3>1. responder'[v] = responder[v]
      BY <1>4, <2>2
    <3>2. responder[v].peer \in Peers /\ (responder[v].answer = "yes" => YesFor(responder[v].peer))
      BY <1>6, <3>1 DEF YesKept
    <3>3. PICK x \in Peers : x = responder[v].peer /\ x = responder'[v].peer
      BY <3>1, <3>2
    <3>4. responder[v].answer = "yes" => YesFor(x)'
      BY <1>1, <3>2, <3>3
    <3>5. QED
      BY <3>1, <3>3, <3>4 DEF YesFor
  <2>3. QED
    BY <2>1, <2>2
<1>7. ASSUME NEW v \in Users, responder'[v].at = "send"
      PROVE  responder'[v].chan \in Arrived' /\ peerOf'[responder'[v].chan] = responder'[v].peer
  <2>1. v # u
    BY <1>4, <1>7 DEF Asking
  <2>2. QED
    BY <1>3, <1>4, <1>7, <2>1 DEF YesKept
<1>8. ASSUME NEW q \in Requests, ch'[q] = "yes" \/ pc'[q] = "accepted" \/ q \in started'
      PROVE  pc'[q] # "none" /\ YesFor(peerOf[q])'
  <2>1. q \in Arrived /\ YesFor(peerOf[q])
    BY <1>8 DEF YesKept, Arrived
  <2>2. PICK x \in Peers : x = peerOf[q]
    BY <1>3, <2>1
  <2>3. YesFor(x)'
    BY <1>1, <2>1, <2>2
  <2>4. QED
    BY <1>3, <2>1, <2>2, <2>3 DEF YesFor, Arrived
<1>9. QED
  BY <1>5, <1>6, <1>7, <1>8 DEF YesKept

\* Every step keeps YesKept: an answer moves from the user to the responder, to
\* the channel found for the peer, to the handler.
LEMMA YesStep == IInv /\ [Next]_vars => YesKept'
<1> SUFFICES ASSUME IInv, [Next]_vars PROVE YesKept'
  OBVIOUS
<1>0. TypeOK /\ Fresh /\ Owned /\ YesKept
  BY DEF IInv
<1>1. ASSUME NEW r \in Requests, NEW p \in Peers, Arrive(r, p) PROVE YesKept'
  BY <1>0, <1>1, QuietStep DEF Arrive, Arrived, TypeOK, YesKept, spoken
<1>2. ASSUME NEW r \in Requests, Handle(r) PROVE YesKept'
  <2>1. CASE Notify(r)
    BY <1>0, <2>1, QuietStep
    DEF Notify, NotifyConnectionRequest, Arrived, TypeOK, YesKept, spoken
  <2>2. CASE ReadAnswer(r)
    BY <1>0, <2>2, QuietStep DEF ReadAnswer, Arrived, TypeOK, YesKept, spoken
  <2>3. CASE TimeOut(r)
    BY <1>0, <2>3, QuietStep DEF TimeOut, Arrived, TypeOK, YesKept, spoken
  <2>4. CASE Cleanup(r)
    BY <1>0, <2>4, QuietStep DEF Cleanup, Arrived, TypeOK, YesKept, spoken
  <2>5. QED
    BY <1>2, <2>1, <2>2, <2>3, <2>4 DEF Handle
<1>3. ASSUME NEW r \in Requests, NEW ok \in BOOLEAN, Establish(r, ok) PROVE YesKept'
  <2>1. started' \subseteq started \cup {r} /\ pc[r] = "accepted"
    BY <1>3 DEF Establish
  <2>2. QED
    BY <1>0, <1>3, <2>1, QuietStep DEF Establish, Arrived, TypeOK, YesKept, spoken
<1>4. ASSUME NEW r \in Requests, NEW answer \in {"yes", "no"}, AnswerByNum(r, answer)
      PROVE YesKept'
  <2>1. r \in Arrived /\ num[r] \in Requests /\ pendingRequestNums[num[r]] # "nobody"
    BY <1>0, <1>4 DEF AnswerByNum, Fresh, Arrived
  <2>2. PICK q \in Live : num[q] = num[r] /\ peerOf[q] = pendingRequestNums[num[r]]
    BY <1>0, <2>1 DEF Owned
  <2>3. pendingRequestNums[num[r]] \in Peers
    BY <1>0, <2>1 DEF TypeOK
  <2>4. QED
    BY <1>0, <1>4, <2>1, <2>2, <2>3, SayStep DEF AnswerByNum, Users, Live
<1>5. ASSUME NEW r \in Requests, NEW answer \in {"yes", "no"}, NEW u \in Tabs,
             AnswerByPeer(u, r, answer)
      PROVE YesKept'
  <2>1. r \in Arrived /\ peerOf[r] \in Peers /\ u \in Users
    BY <1>0, <1>5 DEF AnswerByPeer, YesKept, Arrived, Fresh, Users
  <2>2. webPending' \subseteq webPending
    BY <1>5 DEF AnswerByPeer, RemovePendingRequest
  <2>3. QED
    BY <1>0, <1>5, <2>1, <2>2, SayStep DEF AnswerByPeer
<1>6. ASSUME NEW u \in Users, LookUp(u) PROVE YesKept'
  <2>1. /\ responder[u].peer \in Peers
        /\ responder[u].answer = "yes" => YesFor(responder[u].peer)
    BY <1>0, <1>6 DEF LookUp, YesKept
  <2>2. responder' = [responder EXCEPT ![u] = Found(responder[u])]
    BY <1>0, <1>6 DEF LookUp, Found
  <2>3. /\ responder'[u] = Found(responder[u])
        /\ \A v \in Users : v # u => responder'[v] = responder[v]
    BY <1>0, <2>2 DEF TypeOK
  <2>4. \/ Found(responder[u]).at = "free"
        \/ /\ Found(responder[u]).peer = responder[u].peer
           /\ Found(responder[u]).answer = responder[u].answer
           /\ Found(responder[u]).chan = pendingApprovals[responder[u].peer]
           /\ pendingApprovals[responder[u].peer] # 0
    BY <1>0, <2>1 DEF Found, Free, Sending, TypeOK
  <2>5. UNCHANGED <<peerOf, num, pc, ch, webPending, started, meant>> /\ Arrived' = Arrived
    BY <1>6 DEF LookUp, spoken, Arrived
  <2>6. \A x : YesFor(x)' <=> YesFor(x)
    BY <2>5 DEF YesFor
  <2>7. ASSUME NEW v \in Users, responder'[v].at # "free"
        PROVE /\ responder'[v].peer \in Peers
              /\ responder'[v].answer = "yes" => YesFor(responder'[v].peer)
    BY <1>0, <2>1, <2>3, <2>4, <2>7 DEF YesKept
  <2>8. ASSUME NEW v \in Users, responder'[v].at = "send"
        PROVE  responder'[v].chan \in Arrived /\ peerOf[responder'[v].chan] = responder'[v].peer
    <3>1. CASE v = u
      <4>1. /\ responder'[v].chan = pendingApprovals[responder[u].peer]
            /\ pendingApprovals[responder[u].peer] # 0 /\ responder'[v].peer = responder[u].peer
        BY <2>3, <2>4, <2>8, <3>1
      <4>2. QED
        BY <1>0, <2>1, <4>1 DEF Owned, Live, Arrived
    <3>2. CASE v # u
      BY <1>0, <2>3, <2>8, <3>2 DEF YesKept
    <3>3. QED
      BY <3>1, <3>2
  <2>9. \A v \in Users : responder'[v].at # "free" =>
          responder'[v].peer \in Peers /\ (responder'[v].answer = "yes" => YesFor(responder[v].peer)')
    BY <2>5, <2>7 DEF YesFor
  <2>10. QED
    BY <1>0, <2>5, <2>6, <2>8, <2>9 DEF YesKept
<1>7. ASSUME NEW u \in Users, Put(u) PROVE YesKept'
  <2> DEFINE c == responder[u].chan
  <2>1. /\ c \in Arrived /\ peerOf[c] = responder[u].peer
        /\ responder[u].answer = "yes" => YesFor(peerOf[c])
    BY <1>0, <1>7 DEF Put, YesKept
  <2>2. /\ responder'[u] = Free /\ \A v \in Users : v # u => responder'[v] = responder[v]
        /\ ch'[c] = responder[u].answer /\ \A r \in Requests : r # c => ch'[r] = ch[r]
    BY <1>0, <1>7, <2>1 DEF Put, TypeOK, Arrived
  <2>3. UNCHANGED <<peerOf, num, pc, webPending, started, meant>> /\ Arrived' = Arrived
    BY <1>7 DEF Put, spoken, Arrived
  <2>4. \A x : YesFor(x)' <=> YesFor(x)
    BY <2>3 DEF YesFor
  <2>5. ASSUME NEW v \in Users, responder'[v].at # "free"
        PROVE  responder'[v] = responder[v]
    BY <2>2, <2>5 DEF Free
  <2>6. \A r \in Requests : (ch'[r] = "yes" \/ pc'[r] = "accepted" \/ r \in started') =>
          pc[r] # "none" /\ YesFor(peerOf[r])
    BY <1>0, <2>1, <2>2, <2>3 DEF YesKept, Arrived
  <2>7. \A v \in Users : responder'[v].at # "free" =>
          responder'[v].peer \in Peers /\ (responder'[v].answer = "yes" => YesFor(responder[v].peer)')
    BY <1>0, <2>3, <2>5 DEF YesKept, YesFor
  <2>8. \A v \in Users : responder'[v].at = "send" =>
          responder'[v].chan \in Arrived /\ peerOf[responder'[v].chan] = responder'[v].peer
    BY <1>0, <2>5 DEF YesKept
  <2>9. QED
    BY <1>0, <2>3, <2>4, <2>6, <2>7, <2>8 DEF YesKept
<1>8. CASE UNCHANGED vars
  BY <1>0, <1>8, QuietStep DEF vars, spoken, table, Arrived, YesKept
<1>9. QED
  BY <1>1, <1>2, <1>3, <1>4, <1>5, <1>6, <1>7, <1>8 DEF Next

-----------------------------------------------------------------------------
(* The theorems.                                                            *)

\* The conjunction of all of the above holds in every reachable state.
LEMMA Invariance == Spec => []IInv
<1>1. IInv /\ [Next]_vars => IInv'
  BY TypeStep, TablesStep, YesStep DEF IInv, Tables
<1>2. QED
  BY InitInv, <1>1, PTL DEF Spec

\* Every variable keeps its type; the request numbers stay within the number of
\* requests, and no answer is sent to a channel that was not found.
THEOREM TypeCorrect == Spec => []TypeOK
<1>1. IInv => TypeOK
  BY DEF IInv
<1>2. QED
  BY <1>1, Invariance, PTL

\* Handlers in progress have different numbers that lead to their own peers,
\* although HandleIncomingStream starts the counter over.
THEOREM DistinctNumbers == Spec => []NumbersDistinct
<1>1. IInv => NumbersDistinct
  BY DEF IInv
<1>2. QED
  BY <1>1, Invariance, PTL

\* The only request of a peer can be answered until its handler cleans up.
THEOREM Reachable == Spec => []OnlyRequestReachable
<1>1. IInv => OnlyRequestReachable
  BY DEF IInv
<1>2. QED
  BY <1>1, Invariance, PTL

\* When the last handler has cleaned up, the tables are empty and the counter is
\* at zero.
THEOREM NothingLeft == Spec => []CleanAtRest
<1>1. IInv => CleanAtRest
  BY DEF IInv, Owned, CleanAtRest
<1>2. QED
  BY <1>1, Invariance, PTL

\* No session is registered without a yes to its peer or to a number its peer
\* has had.
THEOREM YesBeforeSession == Spec => []StartedAfterYes
<1>1. IInv => StartedAfterYes
  BY DEF IInv, YesKept, YesFor, StartedAfterYes, TypeOK
<1>2. QED
  BY <1>1, Invariance, PTL
=============================================================================
