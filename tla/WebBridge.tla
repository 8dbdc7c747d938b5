----------------------------- MODULE WebBridge ------------------------------
(***************************************************************************)
(* The web bridge (web.go): the browser tabs, the goroutines of the core   *)
(* that tell them what changed, and the read-write lock clientsMu between  *)
(* them.  Each tab is one goroutine (handleWebSocket, then readWebSocket); *)
(* a Notify* function runs in the goroutine of the core that calls it.     *)
(*                                                                         *)
(* clientsMu is Go's RWMutex: Lock first announces itself, which stops new *)
(* readers, and then waits for the readers there are.  broadcast holds the *)
(* read lock while sendToClient takes it once more for every tab.          *)
(*                                                                         *)
(* One list stands for the three that are read under a lock of their own   *)
(* and sent afterwards (peers, verified, trusted); it is known by its      *)
(* version.  Messages, errors, histories and status lines are broadcasts   *)
(* without a content here.                                                 *)
(***************************************************************************)
EXTENDS Integers, FiniteSetsExt

CONSTANTS Tabs,       \* browser connections
          Core,       \* goroutines of the core that notify the tabs
          Requests,   \* connection requests, each of a different peer
          MaxChanges, \* bound on the changes of the list
          MaxNews,    \* bound on the other broadcasts
          None

ASSUME BoundsAssumption == MaxChanges \in Nat /\ MaxNews \in Nat
ASSUME ThreadsAssumption == Tabs \cap Core = {} /\ None \notin Tabs

VARIABLES clients,   \* wc.clients, and the keys of wc.writeMu
          writer,    \* the tab that announced Lock on clientsMu, or None
          readers,   \* the broadcasts that hold its read lock
          pc,        \* where each goroutine is
          msg,       \* msg[t]: what t sends
          left,      \* left[t]: the tabs t has still to send it to
          table,     \* version of the list
          news,      \* other broadcasts so far
          raised,    \* requests that came in
          pending,   \* wc.pendingRequests
          dead,      \* tabs that the browser closed
          newest,    \* newest[c]: the newest list c was sent, or -1
          asked      \* asked[c]: the requests c was sent

lock    == <<clients, writer, readers>>
threads == <<pc, msg, left>>
data    == <<table, news, raised, pending>>
tabs    == <<dead, newest, asked>>
vars    == <<lock, threads, data, tabs>>

Threads == Tabs \cup Core

\* What is broadcast: the list, connection requests, or neither.
Message(list, requests) == [list |-> list, requests |-> requests]
News == Message(-1, {})

Home(t) == IF t \in Tabs THEN "reading" ELSE "idle"

Init ==
  /\ clients = {} /\ writer = None /\ readers = {}
  /\ pc = [t \in Threads |-> IF t \in Tabs THEN "out" ELSE "idle"]
  /\ msg = [t \in Threads |-> News] /\ left = [t \in Threads |-> {}]
  /\ table = 0 /\ news = 0 /\ raised = {} /\ pending = {}
  /\ dead = {} /\ newest = [c \in Tabs |-> -1] /\ asked = [c \in Tabs |-> {}]

Goto(t, from, next) == pc[t] = from /\ pc' = [pc EXCEPT ![t] = next]

\* What RLock, and Lock before it announces itself, wait for; then what Lock of
\* tab c waits for.
NoWriter == writer = None
NoReader(c) == writer = c /\ readers = {}

-----------------------------------------------------------------------------
(* broadcast and sendToClient.                                             *)

\* At "from", t calls broadcast with m.
Broadcast(t, from, m) ==
  /\ Goto(t, from, "want")
  /\ msg' = [msg EXCEPT ![t] = m]
  /\ UNCHANGED left

\* Slip for NewestSeen: only tabs that have got their initial state are served.
BroadcastLockReadyOnly(t) ==
  /\ Goto(t, "want", "loop") /\ NoWriter
  /\ readers' = readers \cup {t}
  /\ left' = [left EXCEPT ![t] = {c \in clients : pc[c] = "reading"}]
  /\ UNCHANGED <<clients, writer, msg, data, tabs>>

\* broadcast takes the read lock.
BroadcastLock(t) ==
  /\ Goto(t, "want", "loop") /\ NoWriter
  /\ readers' = readers \cup {t}
  /\ left' = [left EXCEPT ![t] = clients]
  /\ UNCHANGED <<clients, writer, msg, data, tabs>>

\* sendToClient finds the tab's mutex under the read lock, taken once more, and
\* writes; the error is ignored when the tab is closed.
SendToClient(t, c) ==
  /\ pc[t] \in {"loop", "greeting", "asking"} /\ c \in left[t] /\ NoWriter
  /\ left' = [left EXCEPT ![t] = @ \ {c}]
  /\ IF c \in dead THEN UNCHANGED <<newest, asked>>
     ELSE /\ newest' = [newest EXCEPT ![c] = Max({@, msg[t].list})]
          /\ asked' = [asked EXCEPT ![c] = @ \cup msg[t].requests]
  /\ UNCHANGED <<lock, pc, msg, data, dead>>

\* Slip for OnlyOneJam: the read lock is never given back.
SentKeepsLock(t) ==
  /\ left[t] = {} /\ Goto(t, "loop", Home(t))
  /\ msg' = [msg EXCEPT ![t] = News]
  /\ UNCHANGED <<lock, left, data, tabs>>

\* All tabs are served; broadcast gives the read lock back.
Sent(t) ==
  /\ left[t] = {} /\ Goto(t, "loop", Home(t))
  /\ readers' = readers \ {t} /\ msg' = [msg EXCEPT ![t] = News]
  /\ UNCHANGED <<clients, writer, left, data, tabs>>

-----------------------------------------------------------------------------
(* What the tabs are told.                                                 *)

\* AddStream, forgetPeer and nicknames change the streams, commands of a tab
\* the trusted or the verified peers.
Change(t) ==
  /\ table < MaxChanges /\ Goto(t, Home(t), "changed")
  /\ table' = table + 1
  /\ UNCHANGED <<lock, msg, left, news, raised, pending, tabs>>

\* notifyPeerUpdate, NotifyTrustedPeersUpdate, broadcastVerifiedPeers: the list
\* is read under its own lock, then broadcast.
NotifyList(t) ==
  /\ Broadcast(t, "changed", Message(table, {}))
  /\ UNCHANGED <<lock, data, tabs>>

\* addMessage, NotifyWebError, NotifyPeerDisconnected, NotifyPeerHistory,
\* NotifyReconnectStatus, sendVerification, handleDiscoverPeers, ...
Notify(t) ==
  /\ news < MaxNews /\ news' = news + 1
  /\ Broadcast(t, Home(t), News)
  /\ UNCHANGED <<lock, table, raised, pending, tabs>>

\* NotifyConnectionRequest: remembered for later tabs, then broadcast.
NotifyConnectionRequest(g, r) ==
  /\ g \in Core /\ r \notin raised /\ raised' = raised \cup {r}
  /\ pending' = pending \cup {r}
  /\ Broadcast(g, "idle", Message(-1, {r}))
  /\ UNCHANGED <<lock, table, news, tabs>>

-----------------------------------------------------------------------------
(* A tab.                                                                  *)

\* handleWebSocket: an authorized connection asks for the lock.
Arrive(c) ==
  /\ Goto(c, "out", "arriving")
  /\ UNCHANGED <<lock, msg, left, data, tabs>>

\* Lock: no new reader from here on.
AnnounceLock(c) ==
  /\ pc[c] \in {"arriving", "leaving"} /\ NoWriter
  /\ writer' = c
  /\ UNCHANGED <<clients, readers, threads, data, tabs>>

\* The readers are gone: the tab is added, and the lock given back.
Register(c) ==
  /\ NoReader(c) /\ Goto(c, "arriving", "registered")
  /\ clients' = clients \cup {c} /\ writer' = None
  /\ UNCHANGED <<readers, msg, left, data, tabs>>

\* sendInitialState: the lists as they are now, to this tab, ...
SendInitialState(c) ==
  /\ Goto(c, "registered", "greeting")
  /\ msg' = [msg EXCEPT ![c] = Message(table, {})]
  /\ left' = [left EXCEPT ![c] = {c}]
  /\ UNCHANGED <<lock, data, tabs>>

\* Slip for RequestSeen: the initial state has no requests.
SendRequestsNone(c) ==
  /\ left[c] = {} /\ Goto(c, "greeting", "asking")
  /\ UNCHANGED <<lock, msg, left, data, tabs>>

\* ... then a copy of the pending requests, ...
SendRequests(c) ==
  /\ left[c] = {} /\ Goto(c, "greeting", "asking")
  /\ msg' = [msg EXCEPT ![c] = Message(-1, pending)]
  /\ left' = [left EXCEPT ![c] = {c}]
  /\ UNCHANGED <<lock, data, tabs>>

\* ... and the trusted peers, which go to all tabs.  The goroutine that sends
\* the stored histories is one of the core.
SendTrusted(c) ==
  /\ left[c] = {} /\ Broadcast(c, "asking", News)
  /\ UNCHANGED <<lock, data, tabs>>

\* connection_response: RemovePendingRequest.
RemovePendingRequest(c, r) ==
  /\ pc[c] = "reading" /\ c \notin dead /\ r \in asked[c] \cap pending
  /\ pending' = pending \ {r}
  /\ UNCHANGED <<lock, threads, table, news, raised, tabs>>

\* The browser closes the tab.
CloseTab(c) ==
  /\ pc[c] # "out" /\ c \notin dead
  /\ dead' = dead \cup {c}
  /\ UNCHANGED <<lock, threads, data, newest, asked>>

\* readWebSocket meets the end of the connection, ...
Leave(c) ==
  /\ c \in dead /\ Goto(c, "reading", "leaving")
  /\ UNCHANGED <<lock, msg, left, data, tabs>>

\* ... and takes the tab out of the maps.
Unregister(c) ==
  /\ NoReader(c) /\ Goto(c, "leaving", "gone")
  /\ clients' = clients \ {c} /\ writer' = None
  /\ newest' = [newest EXCEPT ![c] = -1] /\ asked' = [asked EXCEPT ![c] = {}]
  /\ UNCHANGED <<readers, msg, left, data, dead>>

-----------------------------------------------------------------------------
\* The steps that a goroutine takes by itself once it has begun something.
Step(t) ==
  \/ BroadcastLock(t) \/ Sent(t) \/ NotifyList(t)
  \/ \E c \in Tabs : SendToClient(t, c)
  \/ /\ t \in Tabs
     /\ \/ AnnounceLock(t) \/ Register(t) \/ SendInitialState(t)
        \/ SendRequests(t) \/ SendTrusted(t) \/ Leave(t) \/ Unregister(t)

Next ==
  \/ \E t \in Threads : Step(t) \/ Change(t) \/ Notify(t)
  \/ \E g \in Core, r \in Requests : NotifyConnectionRequest(g, r)
  \/ \E c \in Tabs : Arrive(c) \/ CloseTab(c)
  \/ \E c \in Tabs, r \in Requests : RemovePendingRequest(c, r)

Spec == Init /\ [][Next]_vars

-----------------------------------------------------------------------------
Sending(t, c) == pc[t] = "want" \/ (pc[t] \in {"loop", "greeting", "asking"} /\ c \in left[t])
Reads(c) == pc[c] = "reading" /\ c \notin dead

\* Every change reaches every tab that reads: it has been sent the list as it
\* is now, or that list is on its way, because a tab registers before it reads
\* the list and a change is made before it is broadcast.  (Not as the last one:
\* two broadcasts may overtake each other.)
NewestSeen ==
  \A c \in Tabs : Reads(c) =>
    \/ newest[c] = table
    \/ \E t \in Threads : \/ pc[t] = "changed"
                          \/ msg[t].list = table /\ Sending(t, c)

\* A request that waits in pendingRequests has been shown to every tab that
\* reads, whether the tab came before it or after, or is being sent to it.
RequestSeen ==
  \A r \in pending, c \in Tabs : Reads(c) =>
    r \in asked[c] \/ \E t \in Threads : r \in msg[t].requests /\ Sending(t, c)

Busy(t) == pc[t] \notin {"out", "idle", "reading", "gone"}

\* A tab that comes or goes waits for a broadcast to end, and that broadcast
\* for the tab to have had the lock before it looks its next client up:
\* neither ever goes on.
Jammed == writer # None /\ \E t \in readers : left[t] # {}

\* Goroutine t can go on by itself: the guards of Step(t), in which only the
\* lock and a closed connection are waited for.
Ready(t) ==
  \/ pc[t] = "changed"
  \/ pc[t] = "want" /\ NoWriter
  \/ pc[t] = "loop" /\ (NoWriter \/ left[t] = {})
  \/ /\ t \in Tabs
     /\ \/ pc[t] = "registered"
        \/ pc[t] \in {"greeting", "asking"} /\ (NoWriter \/ left[t] = {})
        \/ pc[t] \in {"arriving", "leaving"} /\ (NoWriter \/ NoReader(t))
        \/ pc[t] = "reading" /\ t \in dead

\* Goroutines never all wait for each other in any other way: unless Jammed,
\* whenever somebody has something to finish, somebody can go on.  Every step
\* brings its goroutine forward, so then all of them finish.
OnlyOneJam == (\E t \in Threads : Busy(t)) /\ ~Jammed => \E t \in Threads : Ready(t)
=============================================================================
