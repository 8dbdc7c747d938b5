------------------------- MODULE ConnectionApproval -------------------------
(***************************************************************************)
(* Approval of incoming connections (main.go, web.go): every incoming      *)
(* stream runs a HandleIncomingStream of its own, which publishes a number *)
(* and a channel of capacity one and waits for an answer or for its timer. *)
(* The CLI answers by number, a browser tab by peer; each is one thread    *)
(* that blocks while the channel it sends to is full.  The requester's     *)
(* side and the handshake itself are in StreamManager: here the handshake  *)
(* ends in success or failure, or never (it has no deadline).              *)
(***************************************************************************)
EXTENDS Integers, FiniteSets

CONSTANTS Peers,       \* remote peers
          MaxRequests, \* bound on the incoming streams
          MaxAnswers,  \* bound on the answers users give
          Tabs         \* browser tabs connected to the local API

ASSUME BoundsAssumption == MaxRequests \in Nat /\ MaxAnswers \in Nat
ASSUME UsersAssumption == "cli" \notin Tabs /\ "nobody" \notin Peers

VARIABLES peerOf,              \* peerOf[r]: the remote peer of request r
          num,                 \* num[r]: the reqNum printed for r
          pc,                  \* pc[r]: where the handler of r is
          ch,                  \* ch[r]: what is in the handler's channel
          pendingApprovals,    \* peer |-> the request whose channel it is, or 0
          pendingRequestNums,  \* number |-> peer, or "nobody"
          nextRequestNum,
          webPending,          \* requests in the web client's pendingRequests
          responder,           \* responder[u]: what user interface u is doing
          started,             \* requests whose session was registered
          meant,               \* requests a user said yes to
          answers              \* answers given so far

table == <<pendingApprovals, pendingRequestNums, nextRequestNum>>
spoken == <<meant, answers>>
vars  == <<peerOf, num, pc, ch, table, webPending, responder, started, spoken>>

Requests == 1..MaxRequests
Users == {"cli"} \cup Tabs
Free == [at |-> "free", peer |-> "nobody", chan |-> 0, answer |-> "no"]

Init ==
  /\ peerOf = [r \in Requests |-> "nobody"] /\ num = [r \in Requests |-> 0]
  /\ pc = [r \in Requests |-> "none"] /\ ch = [r \in Requests |-> "empty"]
  /\ pendingApprovals = [p \in Peers |-> 0]
  /\ pendingRequestNums = [k \in Requests |-> "nobody"]
  /\ nextRequestNum = 0
  /\ webPending = {} /\ started = {} /\ meant = {} /\ answers = 0
  /\ responder = [u \in Users |-> Free]

-----------------------------------------------------------------------------
(* HandleIncomingStream.                                                   *)

\* The request line is read, a number assigned and the channel published.
Arrive(r, p) ==
  /\ pc[r] = "none" /\ \A q \in 1..(r - 1) : pc[q] # "none"
  /\ peerOf' = [peerOf EXCEPT ![r] = p]
  /\ num' = [num EXCEPT ![r] = nextRequestNum + 1]
  /\ nextRequestNum' = nextRequestNum + 1
  /\ pendingApprovals' = [pendingApprovals EXCEPT ![p] = r]
  /\ pendingRequestNums' = [pendingRequestNums EXCEPT ![nextRequestNum + 1] = p]
  /\ pc' = [pc EXCEPT ![r] = "notify"]
  /\ UNCHANGED <<ch, webPending, responder, started, spoken>>

\* The request is appended to the web client's list and shown in its tabs.
NotifyConnectionRequest(r) == webPending' = webPending \cup {r}

\* The prompt is printed and the web client notified.
Notify(r) ==
  /\ pc[r] = "notify"
  /\ pc' = [pc EXCEPT ![r] = "waiting"]
  /\ NotifyConnectionRequest(r)
  /\ UNCHANGED <<peerOf, num, ch, table, responder, started, spoken>>

\* Slip for StartedAfterYes: any answer is taken for a yes.
ReadAnyAnswer(r) ==
  /\ pc[r] = "waiting" /\ ch[r] # "empty"
  /\ pc' = [pc EXCEPT ![r] = "accepted"]
  /\ ch' = [ch EXCEPT ![r] = "empty"]
  /\ UNCHANGED <<peerOf, num, table, webPending, responder, started, spoken>>

ReadAnswer(r) ==
  /\ pc[r] = "waiting" /\ ch[r] # "empty"
  /\ pc' = [pc EXCEPT ![r] = IF ch[r] = "yes" THEN "accepted" ELSE "ending"]
  /\ ch' = [ch EXCEPT ![r] = "empty"]
  /\ UNCHANGED <<peerOf, num, table, webPending, responder, started, spoken>>

\* Slips: a handler that timed out returns without its cleanup (CleanAtRest);
\* the timer is only looked at while the channel is registered (EveryWaitEnds).
TimeOutReturns(r) ==
  /\ pc[r] = "waiting"
  /\ pc' = [pc EXCEPT ![r] = "done"]
  /\ UNCHANGED <<peerOf, num, ch, table, webPending, responder, started, spoken>>
TimeOutRegistered(r) ==
  /\ pc[r] = "waiting" /\ pendingApprovals[peerOf[r]] = r
  /\ pc' = [pc EXCEPT ![r] = "ending"]
  /\ UNCHANGED <<peerOf, num, ch, table, webPending, responder, started, spoken>>

\* Thirty seconds: rejected.
TimeOut(r) ==
  /\ pc[r] = "waiting"
  /\ pc' = [pc EXCEPT ![r] = "ending"]
  /\ UNCHANGED <<peerOf, num, ch, table, webPending, responder, started, spoken>>

\* AddStream returns: the handshake succeeded or failed.
Establish(r, ok) ==
  /\ pc[r] = "accepted"
  /\ started' = IF ok THEN started \cup {r} ELSE started
  /\ pc' = [pc EXCEPT ![r] = "ending"]
  /\ UNCHANGED <<peerOf, num, ch, table, webPending, responder, spoken>>

\* Slips: the counter starts over at every cleanup (NumbersDistinct); all
\* channels are dropped (OnlyRequestReachable).
CleanupResets(r) ==
  /\ pc[r] = "ending"
  /\ pc' = [pc EXCEPT ![r] = "done"]
  /\ pendingApprovals' = [pendingApprovals EXCEPT ![peerOf[r]] = 0]
  /\ pendingRequestNums' = [pendingRequestNums EXCEPT ![num[r]] = "nobody"]
  /\ nextRequestNum' = 0
  /\ UNCHANGED <<peerOf, num, ch, webPending, responder, started, spoken>>
CleanupDropsAll(r) ==
  /\ pc[r] = "ending"
  /\ pc' = [pc EXCEPT ![r] = "done"]
  /\ pendingApprovals' = [p \in Peers |-> 0]
  /\ pendingRequestNums' = [pendingRequestNums EXCEPT ![num[r]] = "nobody"]
  /\ nextRequestNum' =
       IF \A k \in Requests : pendingRequestNums'[k] = "nobody" THEN 0
       ELSE nextRequestNum
  /\ UNCHANGED <<peerOf, num, ch, webPending, responder, started, spoken>>

\* The cleanup: the channel by peer, the number, and the counter when no
\* number is left.
Cleanup(r) ==
  /\ pc[r] = "ending"
  /\ pc' = [pc EXCEPT ![r] = "done"]
  /\ pendingApprovals' = [pendingApprovals EXCEPT ![peerOf[r]] = 0]
  /\ pendingRequestNums' = [pendingRequestNums EXCEPT ![num[r]] = "nobody"]
  /\ nextRequestNum' =
       IF \A k \in Requests : pendingRequestNums'[k] = "nobody" THEN 0
       ELSE nextRequestNum
  /\ UNCHANGED <<peerOf, num, ch, webPending, responder, started, spoken>>

-----------------------------------------------------------------------------
(* The answers.                                                            *)

Say(r, answer) == /\ answers < MaxAnswers
                  /\ answers' = answers + 1
                  /\ meant' = IF answer = "yes" THEN meant \cup {r} ELSE meant

\* A responder that knows the peer and has yet to look up its channel, and one
\* that has found the channel of request r.
Asking(p, answer) == [at |-> "peer", peer |-> p, chan |-> 0, answer |-> answer]
Sending(w, r) == [at |-> "send", peer |-> w.peer, chan |-> r, answer |-> w.answer]

\* /accept or /reject: RespondToConnectionRequestByNum with the number that was
\* printed for r finds a peer under that number; else it only says so.
AnswerByNum(r, answer) ==
  /\ responder["cli"].at = "free" /\ pc[r] \notin {"none", "notify"}
  /\ pendingRequestNums[num[r]] # "nobody"
  /\ responder' = [responder EXCEPT !["cli"] =
       Asking(pendingRequestNums[num[r]], answer)]
  /\ Say(r, answer)
  /\ UNCHANGED <<peerOf, num, pc, ch, table, webPending, started>>

\* Every entry of the peer leaves the web client's list.
RemovePendingRequest(p) == webPending' = {q \in webPending : peerOf[q] # p}

\* connection_response, for a request the tab was shown: RemovePendingRequest,
\* then RespondToConnectionRequest.  The tab may be stale: whether the request is
\* still in the list is not looked at.
AnswerByPeer(u, r, answer) ==
  /\ responder[u].at = "free" /\ pc[r] \notin {"none", "notify"}
  /\ responder' = [responder EXCEPT ![u] = Asking(peerOf[r], answer)]
  /\ RemovePendingRequest(peerOf[r])
  /\ Say(r, answer)
  /\ UNCHANGED <<peerOf, num, pc, ch, table, started>>

\* The channel registered for the peer is looked up; without one the answer is
\* dropped.
LookUp(u) ==
  /\ responder[u].at = "peer"
  /\ LET r == pendingApprovals[responder[u].peer]
     IN  responder' = [responder EXCEPT ![u] =
           IF r = 0 THEN Free ELSE Sending(responder[u], r)]
  /\ UNCHANGED <<peerOf, num, pc, ch, table, webPending, started, spoken>>

\* ch <- accepted, once there is room in the channel.
Put(u) ==
  /\ responder[u].at = "send" /\ ch[responder[u].chan] = "empty"
  /\ ch' = [ch EXCEPT ![responder[u].chan] = responder[u].answer]
  /\ responder' = [responder EXCEPT ![u] = Free]
  /\ UNCHANGED <<peerOf, num, pc, table, webPending, started, spoken>>

Handle(r) == Notify(r) \/ ReadAnswer(r) \/ TimeOut(r) \/ Cleanup(r)

Next == \/ \E r \in Requests : \/ Handle(r) \/ \E p \in Peers : Arrive(r, p)
                               \/ \E ok \in BOOLEAN : Establish(r, ok)
        \/ \E r \in Requests, answer \in {"yes", "no"} :
             \/ AnswerByNum(r, answer)
             \/ \E u \in Tabs : AnswerByPeer(u, r, answer)
        \/ \E u \in Users : LookUp(u) \/ Put(u)

Spec == Init /\ [][Next]_vars

\* Handlers and responders run, and the timer fires; users need not answer and
\* a handshake need not end.
Fairness == /\ \A r \in Requests : WF_vars(Handle(r))
            /\ \A u \in Users : WF_vars(LookUp(u)) /\ WF_vars(Put(u))

FairSpec == Spec /\ Fairness

-----------------------------------------------------------------------------
Live == {r \in Requests : pc[r] \notin {"none", "done"}}

\* Every variable has its type, and a responder sends to a channel it found.
TypeOK ==
  /\ peerOf \in [Requests -> Peers \cup {"nobody"}]
  /\ num \in [Requests -> 0..MaxRequests] /\ nextRequestNum \in 0..MaxRequests
  /\ pc \in [Requests -> {"none", "notify", "waiting", "accepted", "ending", "done"}]
  /\ ch \in [Requests -> {"empty", "yes", "no"}]
  /\ pendingApprovals \in [Peers -> 0..MaxRequests]
  /\ pendingRequestNums \in [Requests -> Peers \cup {"nobody"}]
  /\ answers \in 0..MaxAnswers
  /\ webPending \subseteq Requests /\ started \subseteq Requests /\ meant \subseteq Requests
  /\ responder \in [Users -> [at : {"free", "peer", "send"}, peer : Peers \cup {"nobody"},
                              chan : 0..MaxRequests, answer : {"yes", "no"}]]
  /\ \A u \in Users : responder[u].at = "send" => responder[u].chan # 0

\* Two handlers in progress never share a number and each number leads to the
\* handler's own peer, although the counter starts over.
NumbersDistinct ==
  \A r \in Live : /\ pendingRequestNums[num[r]] = peerOf[r]
                  /\ num[r] <= nextRequestNum
                  /\ \A q \in Live : num[q] = num[r] => q = r

\* A request that is its peer's only one so far can be answered until its
\* handler cleans up.
OnlyRequestReachable ==
  \A r \in Live : (\A q \in Requests : peerOf[q] = peerOf[r] => q = r)
                    => pendingApprovals[peerOf[r]] = r

\* When no handler is left, nothing of any request is left in the tables.
CleanAtRest == Live = {} => /\ \A p \in Peers : pendingApprovals[p] = 0
                            /\ \A k \in Requests : pendingRequestNums[k] = "nobody"
                            /\ nextRequestNum = 0

\* A session starts only after a yes that named its peer, or the number of a
\* request of its peer.
StartedAfterYes ==
  \A r \in started : \E y \in meant, q \in Requests :
    peerOf[q] = peerOf[r] /\ (q = y \/ num[q] = num[y])

\* Every wait ends, also for a handler whose channel was overwritten or
\* deleted by another request of the same peer.
EveryWaitEnds ==
  \A r \in Requests : pc[r] = "waiting" ~> pc[r] \in {"accepted", "done"}
=============================================================================
