--------------------------- MODULE WebBridgeProofs ---------------------------
(* What every tab has been sent, and who waits for whom, for any number of   *)
(* tabs, goroutines, changes and requests.                                  *)
EXTENDS WebBridge, TLAPS

-----------------------------------------------------------------------------
(* The invariant.                                                           *)

Places == {"out", "idle", "arriving", "registered", "greeting", "asking", "want", "loop",
           "reading", "changed", "leaving", "gone"}

TypeOK ==
  /\ clients \subseteq Tabs /\ pc \in [Threads -> Places]
  /\ msg \in [Threads -> [list : Int, requests : SUBSET Requests]]
  /\ left \in [Threads -> SUBSET Tabs]
  /\ table \in Nat /\ pending \subseteq Requests /\ dead \subseteq Tabs
  /\ newest \in [Tabs -> Int] /\ asked \in [Tabs -> SUBSET Requests]

\* No list that was sent, or is being sent, is newer than the list.
Bounded == /\ \A c \in Tabs : newest[c] <= table
           /\ \A t \in Threads : msg[t].list <= table

\* A tab that was told the list, and one that was told the requests, serves its
\* browser.  It is registered since before that.
Told == {"asking", "want", "loop", "reading", "changed"}
Greeted == Told \cup {"greeting"}
Served == \A c \in Tabs : pc[c] \in Greeted \cup {"registered"} => c \in clients

\* The list as it is now, or request r, is on its way from goroutine t to tab c.
ListFrom(t, c) == pc[t] = "changed" \/ (msg[t].list = table /\ Sending(t, c))
RequestFrom(t, c, r) == r \in msg[t].requests /\ Sending(t, c)

\* Tab c has been sent the newest list, or it is on its way; the same of r.
ListOK(c) == newest[c] = table \/ \E t \in Threads : ListFrom(t, c)
RequestOK(c, r) == r \in asked[c] \/ \E t \in Threads : RequestFrom(t, c, r)

\* From its initial state on, and not only while it reads, no tab misses a
\* change or a request.
ListKnown == \A c \in Tabs : pc[c] \in Greeted /\ c \notin dead => ListOK(c)
RequestsKnown == \A c \in Tabs, r \in pending : pc[c] \in Told /\ c \notin dead => RequestOK(c, r)

IInv == TypeOK /\ Bounded /\ Served /\ ListKnown /\ RequestsKnown

-----------------------------------------------------------------------------
(* What a step of one goroutine may do.                                     *)

\* Only t moves, sends or has less left to send.
OnlyOf(t) == \A u \in Threads \ {t} : pc'[u] = pc[u] /\ msg'[u] = msg[u] /\ left'[u] = left[u]

\* Whatever t had to bring to a tab it has brought, or still has to: the tab gets
\* the list from t, or has it, or knew of it without t.
ListPassedOn(t) == \A c \in Tabs : pc'[c] \in Greeted /\ c \notin dead' =>
  \/ ListFrom(t, c)' \/ newest'[c] = table'
  \/ /\ pc[c] \in Greeted /\ c \notin dead /\ table' = table
     /\ ~ListFrom(t, c) /\ (newest[c] = table => newest'[c] = table)

RequestsPassedOn(t) == \A c \in Tabs, r \in pending' : pc'[c] \in Told /\ c \notin dead' =>
  \/ RequestFrom(t, c, r)' \/ r \in asked'[c]
  \/ /\ r \in pending /\ pc[c] \in Told /\ c \notin dead
     /\ ~RequestFrom(t, c, r) /\ asked[c] \subseteq asked'[c]

Allowed(t) == /\ TypeOK' /\ Bounded' /\ Served'
              /\ OnlyOf(t) /\ ListPassedOn(t) /\ RequestsPassedOn(t)

\* Such a step keeps the invariant.
LEMMA AllowedKeeps ==
  ASSUME IInv, NEW t \in Threads, Allowed(t)
  PROVE  IInv'
<1> USE DEF IInv, Allowed
<1>1. ASSUME NEW c \in Tabs, pc'[c] \in Greeted, c \notin dead'
      PROVE  ListOK(c)'
  <2>1. CASE ListFrom(t, c)' \/ newest'[c] = table'
    BY <2>1 DEF ListOK
  <2>2. CASE /\ pc[c] \in Greeted /\ c \notin dead /\ table' = table
             /\ ~ListFrom(t, c) /\ (newest[c] = table => newest'[c] = table)
    <3>1. ListOK(c)
      BY <2>2 DEF ListKnown
    <3>2. \A u \in Threads : ListFrom(u, c) => ListFrom(u, c)'
      BY <2>2 DEF OnlyOf, ListFrom, Sending
    <3> QED
      BY <2>2, <3>1, <3>2 DEF ListOK
  <2> QED
    BY <1>1, <2>1, <2>2 DEF ListPassedOn
<1>2. ASSUME NEW c \in Tabs, NEW r \in pending', pc'[c] \in Told, c \notin dead'
      PROVE  RequestOK(c, r)'
  <2>1. CASE RequestFrom(t, c, r)' \/ r \in asked'[c]
    BY <2>1 DEF RequestOK
  <2>2. CASE /\ r \in pending /\ pc[c] \in Told /\ c \notin dead
             /\ ~RequestFrom(t, c, r) /\ asked[c] \subseteq asked'[c]
    <3>1. RequestOK(c, r)
      BY <2>2 DEF RequestsKnown
    <3>2. \A u \in Threads : RequestFrom(u, c, r) => RequestFrom(u, c, r)'
      BY <2>2 DEF OnlyOf, RequestFrom, Sending
    <3> QED
      BY <2>2, <3>1, <3>2 DEF RequestOK
  <2> QED
    BY <1>2, <2>1, <2>2 DEF RequestsPassedOn
<1> QED
  BY <1>1, <1>2 DEF ListKnown, RequestsKnown

-----------------------------------------------------------------------------
(* The steps.                                                               *)

\* Max of two lists, as sendToClient's tab sees them.
LEMMA MaxOfTwo ==
  ASSUME NEW i \in Int, NEW j \in Int
  PROVE  Max({i, j}) \in {i, j} /\ Max({i, j}) >= i /\ Max({i, j}) >= j
<1>1. \E x \in {i, j} : \A y \in {i, j} : x >= y
  OBVIOUS
<1> QED
  BY <1>1 DEF Max

\* broadcast takes its copy of the tabs: those that were greeted are among them.
LEMMA BroadcastLockStep ==
  ASSUME IInv, NEW t \in Threads, BroadcastLock(t)
  PROVE  Allowed(t)
<1> USE DEF IInv, BroadcastLock, Goto, NoWriter, data, tabs
<1>1. TypeOK' /\ Bounded' /\ OnlyOf(t)
  BY DEF TypeOK, Places, Bounded, OnlyOf
<1>2. Served'
  BY DEF TypeOK, Served, Greeted, Told
<1>3. ListPassedOn(t)
  BY DEF TypeOK, ListPassedOn, ListFrom, Sending, Served, Greeted, Told
<1>4. RequestsPassedOn(t)
  BY DEF TypeOK, RequestsPassedOn, RequestFrom, Sending, Served, Greeted, Told
<1> QED
  BY <1>1, <1>2, <1>3, <1>4 DEF Allowed

\* sendToClient.
LEMMA SendToClientStep ==
  ASSUME IInv, NEW t \in Threads, NEW d \in Tabs, SendToClient(t, d)
  PROVE  Allowed(t)
<1> USE DEF IInv, SendToClient, lock, data
<1> DEFINE m == Max({newest[d], msg[t].list})
<1>1. /\ newest[d] \in Int /\ msg[t].list \in Int /\ msg[t].requests \subseteq Requests
      /\ newest[d] <= table /\ msg[t].list <= table /\ table \in Nat
  BY DEF TypeOK, Bounded
<1>2. m \in Int /\ m <= table /\ m >= newest[d] /\ m >= msg[t].list
  BY <1>1, MaxOfTwo
<1> HIDE DEF m
<1>3. /\ pc[t] \in {"loop", "greeting", "asking"} /\ d \in left[t]
      /\ left' = [left EXCEPT ![t] = @ \ {d}]
      /\ \/ d \in dead /\ newest' = newest /\ asked' = asked
         \/ /\ d \notin dead /\ newest' = [newest EXCEPT ![d] = m]
            /\ asked' = [asked EXCEPT ![d] = @ \cup msg[t].requests]
      /\ UNCHANGED <<clients, pc, msg, table, pending, dead>>
  BY DEF m
<1>4. TypeOK' /\ Bounded' /\ OnlyOf(t) /\ Served'
  BY <1>1, <1>2, <1>3 DEF TypeOK, Bounded, OnlyOf, Served
<1>5. ListPassedOn(t)
  <2> SUFFICES ASSUME NEW c \in Tabs, pc'[c] \in Greeted, c \notin dead', ListFrom(t, c)
               PROVE  ListFrom(t, c)' \/ newest'[c] = table'
    <3>1. newest[d] = table => m = table
      BY <1>1, <1>2
    <3>2. \A c \in Tabs : newest[c] = table => newest'[c] = table
      BY <1>3, <3>1 DEF TypeOK
    <3> QED
      BY <1>3, <3>2 DEF ListPassedOn
  <2>1. CASE c = d
    <3>1. newest'[c] = m /\ msg[t].list = table
      BY <1>3, <2>1 DEF TypeOK, ListFrom
    <3> QED
      BY <1>1, <1>2, <1>3, <3>1
  <2>2. CASE c # d
    BY <1>3, <2>2 DEF TypeOK, ListFrom, Sending
  <2> QED
    BY <2>1, <2>2
<1>6. RequestsPassedOn(t)
  BY <1>1, <1>3 DEF TypeOK, RequestsPassedOn, RequestFrom, Sending
<1> QED
  BY <1>4, <1>5, <1>6 DEF Allowed

\* broadcast is done.
LEMMA SentStep ==
  ASSUME IInv, NEW t \in Threads, Sent(t)
  PROVE  Allowed(t)
<1> USE DEF IInv, Sent, Goto, Home, data, tabs
<1>1. TypeOK'
  BY DEF TypeOK, Places, Message, News
<1>2. Bounded' /\ OnlyOf(t)
  BY DEF TypeOK, Bounded, OnlyOf, Message, News
<1>3. Served'
  BY DEF TypeOK, Served, Greeted, Told
<1>4. ListPassedOn(t)
  BY DEF TypeOK, ListPassedOn, ListFrom, Sending, Served, Greeted, Told, Message, News
<1>5. RequestsPassedOn(t)
  BY DEF TypeOK, RequestsPassedOn, RequestFrom, Sending, Served, Greeted, Told, Message, News
<1> QED
  BY <1>1, <1>2, <1>3, <1>4, <1>5 DEF Allowed

\* A change, not broadcast yet.
LEMMA ChangeStep ==
  ASSUME IInv, NEW t \in Threads, Change(t)
  PROVE  Allowed(t)
<1> USE DEF IInv, Change, Goto, Home, lock, tabs
<1>1. TypeOK'
  BY DEF TypeOK, Places, Message, News
<1>2. Bounded' /\ OnlyOf(t)
  BY DEF TypeOK, Bounded, OnlyOf, Message, News
<1>3. Served'
  BY DEF TypeOK, Served, Greeted, Told
<1>4. ListPassedOn(t)
  BY DEF TypeOK, ListPassedOn, ListFrom, Sending, Served, Greeted, Told, Message, News
<1>5. RequestsPassedOn(t)
  BY DEF TypeOK, RequestsPassedOn, RequestFrom, Sending, Served, Greeted, Told, Message, News
<1> QED
  BY <1>1, <1>2, <1>3, <1>4, <1>5 DEF Allowed

\* The list is read and broadcast.
LEMMA NotifyListStep ==
  ASSUME IInv, NEW t \in Threads, NotifyList(t)
  PROVE  Allowed(t)
<1> USE DEF IInv, NotifyList, Broadcast, Goto, lock, data, tabs
<1>1. TypeOK'
  BY DEF TypeOK, Places, Message, News
<1>2. Bounded' /\ OnlyOf(t)
  BY DEF TypeOK, Bounded, OnlyOf, Message, News
<1>3. Served'
  BY DEF TypeOK, Served, Greeted, Told
<1>4. ListPassedOn(t)
  BY DEF TypeOK, ListPassedOn, ListFrom, Sending, Served, Greeted, Told, Message, News
<1>5. RequestsPassedOn(t)
  BY DEF TypeOK, RequestsPassedOn, RequestFrom, Sending, Served, Greeted, Told, Message, News
<1> QED
  BY <1>1, <1>2, <1>3, <1>4, <1>5 DEF Allowed

\* A broadcast without a content.
LEMMA NotifyStep ==
  ASSUME IInv, NEW t \in Threads, Notify(t)
  PROVE  Allowed(t)
<1> USE DEF IInv, Notify, Broadcast, Goto, Home, lock, tabs
<1>1. TypeOK'
  BY DEF TypeOK, Places, Message, News
<1>2. Bounded' /\ OnlyOf(t)
  BY DEF TypeOK, Bounded, OnlyOf, Message, News
<1>3. Served'
  BY DEF TypeOK, Served, Greeted, Told
<1>4. ListPassedOn(t)
  BY DEF TypeOK, ListPassedOn, ListFrom, Sending, Served, Greeted, Told, Message, News
<1>5. RequestsPassedOn(t)
  BY DEF TypeOK, RequestsPassedOn, RequestFrom, Sending, Served, Greeted, Told, Message, News
<1> QED
  BY <1>1, <1>2, <1>3, <1>4, <1>5 DEF Allowed

\* A connection request comes in.
LEMMA RequestStep ==
  ASSUME IInv, NEW t \in Core, NEW r \in Requests, NotifyConnectionRequest(t, r)
  PROVE  Allowed(t)
<1> USE DEF IInv, NotifyConnectionRequest, Broadcast, Goto, lock, tabs
<1> t \in Threads /\ t \notin Tabs
  BY ThreadsAssumption DEF Threads
<1>1. TypeOK'
  BY DEF TypeOK, Places, Message, News
<1>2. Bounded' /\ OnlyOf(t)
  BY DEF TypeOK, Bounded, OnlyOf, Message, News
<1>3. Served'
  BY DEF TypeOK, Served, Greeted, Told
<1>4. ListPassedOn(t)
  BY DEF TypeOK, ListPassedOn, ListFrom, Sending, Served, Greeted, Told, Message, News
<1>5. RequestsPassedOn(t)
  BY DEF TypeOK, RequestsPassedOn, RequestFrom, Sending, Served, Greeted, Told, Message, News
<1> QED
  BY <1>1, <1>2, <1>3, <1>4, <1>5 DEF Allowed

\* A tab connects.
LEMMA ArriveStep ==
  ASSUME IInv, NEW t \in Tabs, Arrive(t)
  PROVE  Allowed(t)
<1> USE DEF IInv, Arrive, Goto, lock, data, tabs
<1> t \in Threads
  BY DEF Threads
<1>1. TypeOK'
  BY DEF TypeOK, Places, Message, News
<1>2. Bounded' /\ OnlyOf(t)
  BY DEF TypeOK, Bounded, OnlyOf, Message, News
<1>3. Served'
  BY DEF TypeOK, Served, Greeted, Told
<1>4. ListPassedOn(t)
  BY DEF TypeOK, ListPassedOn, ListFrom, Sending, Served, Greeted, Told, Message, News
<1>5. RequestsPassedOn(t)
  BY DEF TypeOK, RequestsPassedOn, RequestFrom, Sending, Served, Greeted, Told, Message, News
<1> QED
  BY <1>1, <1>2, <1>3, <1>4, <1>5 DEF Allowed

\* A tab is registered.
LEMMA RegisterStep ==
  ASSUME IInv, NEW t \in Tabs, Register(t)
  PROVE  Allowed(t)
<1> USE DEF IInv, Register, Goto, data, tabs
<1> t \in Threads
  BY DEF Threads
<1>1. TypeOK'
  BY DEF TypeOK, Places, Message, News
<1>2. Bounded' /\ OnlyOf(t)
  BY DEF TypeOK, Bounded, OnlyOf, Message, News
<1>3. Served'
  BY DEF TypeOK, Served, Greeted, Told
<1>4. ListPassedOn(t)
  BY DEF TypeOK, ListPassedOn, ListFrom, Sending, Served, Greeted, Told, Message, News
<1>5. RequestsPassedOn(t)
  BY DEF TypeOK, RequestsPassedOn, RequestFrom, Sending, Served, Greeted, Told, Message, News
<1> QED
  BY <1>1, <1>2, <1>3, <1>4, <1>5 DEF Allowed

\* A registered tab is sent the list.
LEMMA InitialStateStep ==
  ASSUME IInv, NEW t \in Tabs, SendInitialState(t)
  PROVE  Allowed(t)
<1> USE DEF IInv, SendInitialState, Goto, lock, data, tabs
<1> t \in Threads
  BY DEF Threads
<1>1. TypeOK'
  BY DEF TypeOK, Places, Message, News
<1>2. Bounded' /\ OnlyOf(t)
  BY DEF TypeOK, Bounded, OnlyOf, Message, News
<1>3. Served'
  BY DEF TypeOK, Served, Greeted, Told
<1>4. ListPassedOn(t)
  BY DEF TypeOK, ListPassedOn, ListFrom, Sending, Served, Greeted, Told, Message, News
<1>5. RequestsPassedOn(t)
  BY DEF TypeOK, RequestsPassedOn, RequestFrom, Sending, Served, Greeted, Told, Message, News
<1> QED
  BY <1>1, <1>2, <1>3, <1>4, <1>5 DEF Allowed

\* It is sent the requests.
LEMMA RequestsStep ==
  ASSUME IInv, NEW t \in Tabs, SendRequests(t)
  PROVE  Allowed(t)
<1> USE DEF IInv, SendRequests, Goto, lock, data, tabs
<1> t \in Threads
  BY DEF Threads
<1>1. TypeOK'
  BY DEF TypeOK, Places, Message, News
<1>2. Bounded' /\ OnlyOf(t)
  BY DEF TypeOK, Bounded, OnlyOf, Message, News
<1>3. Served'
  BY DEF TypeOK, Served, Greeted, Told
<1>4. ListPassedOn(t)
  BY DEF TypeOK, ListPassedOn, ListFrom, Sending, Served, Greeted, Told, Message, News
<1>5. RequestsPassedOn(t)
  BY DEF TypeOK, RequestsPassedOn, RequestFrom, Sending, Served, Greeted, Told, Message, News
<1> QED
  BY <1>1, <1>2, <1>3, <1>4, <1>5 DEF Allowed

\* It broadcasts the trusted peers.
LEMMA TrustedStep ==
  ASSUME IInv, NEW t \in Tabs, SendTrusted(t)
  PROVE  Allowed(t)
<1> USE DEF IInv, SendTrusted, Broadcast, Goto, lock, data, tabs
<1> t \in Threads
  BY DEF Threads
<1>1. TypeOK'
  BY DEF TypeOK, Places, Message, News
<1>2. Bounded' /\ OnlyOf(t)
  BY DEF TypeOK, Bounded, OnlyOf, Message, News
<1>3. Served'
  BY DEF TypeOK, Served, Greeted, Told
<1>4. ListPassedOn(t)
  BY DEF TypeOK, ListPassedOn, ListFrom, Sending, Served, Greeted, Told, Message, News
<1>5. RequestsPassedOn(t)
  BY DEF TypeOK, RequestsPassedOn, RequestFrom, Sending, Served, Greeted, Told, Message, News
<1> QED
  BY <1>1, <1>2, <1>3, <1>4, <1>5 DEF Allowed

\* A closed tab stops reading.
LEMMA LeaveStep ==
  ASSUME IInv, NEW t \in Tabs, Leave(t)
  PROVE  Allowed(t)
<1> USE DEF IInv, Leave, Goto, lock, data, tabs
<1> t \in Threads
  BY DEF Threads
<1>1. TypeOK'
  BY DEF TypeOK, Places, Message, News
<1>2. Bounded' /\ OnlyOf(t)
  BY DEF TypeOK, Bounded, OnlyOf, Message, News
<1>3. Served'
  BY DEF TypeOK, Served, Greeted, Told
<1>4. ListPassedOn(t)
  BY DEF TypeOK, ListPassedOn, ListFrom, Sending, Served, Greeted, Told, Message, News
<1>5. RequestsPassedOn(t)
  BY DEF TypeOK, RequestsPassedOn, RequestFrom, Sending, Served, Greeted, Told, Message, News
<1> QED
  BY <1>1, <1>2, <1>3, <1>4, <1>5 DEF Allowed

\* It is taken out of the maps.
LEMMA UnregisterStep ==
  ASSUME IInv, NEW t \in Tabs, Unregister(t)
  PROVE  Allowed(t)
<1> USE DEF IInv, Unregister, Goto, data
<1> t \in Threads
  BY DEF Threads
<1>1. TypeOK'
  BY DEF TypeOK, Places, Message, News
<1>2. Bounded' /\ OnlyOf(t)
  BY DEF TypeOK, Bounded, OnlyOf, Message, News
<1>3. Served'
  BY DEF TypeOK, Served, Greeted, Told
<1>4. ListPassedOn(t)
  BY DEF TypeOK, ListPassedOn, ListFrom, Sending, Served, Greeted, Told, Message, News
<1>5. RequestsPassedOn(t)
  BY DEF TypeOK, RequestsPassedOn, RequestFrom, Sending, Served, Greeted, Told, Message, News
<1> QED
  BY <1>1, <1>2, <1>3, <1>4, <1>5 DEF Allowed

\* Steps that no goroutine's message depends on: a tab announces that it wants
\* the lock, is closed by its browser, or answers a request.
LEMMA QuietStep ==
  ASSUME IInv, UNCHANGED <<clients, pc, msg, left, table, newest, asked>>,
         pending' \subseteq pending, dead \subseteq dead', dead' \subseteq Tabs
  PROVE  IInv'
<1> USE DEF IInv
<1>1. TypeOK' /\ Bounded' /\ Served'
  BY DEF TypeOK, Bounded, Served
<1>2. \A c \in Tabs : ListOK(c) => ListOK(c)'
  BY DEF ListOK, ListFrom, Sending
<1>3. \A c \in Tabs, r \in pending' : RequestOK(c, r) => RequestOK(c, r)'
  BY DEF RequestOK, RequestFrom, Sending
<1>4. ListKnown'
  BY <1>2 DEF ListKnown
<1>5. RequestsKnown'
  BY <1>3 DEF RequestsKnown
<1> QED
  BY <1>1, <1>4, <1>5

-----------------------------------------------------------------------------
(* The theorems.                                                            *)

\* No tab is there at first.
LEMMA InitIInv == Init => IInv
<1> SUFFICES ASSUME Init PROVE IInv
  OBVIOUS
<1>1. TypeOK /\ Bounded
  BY DEF Init, TypeOK, Places, Bounded, Message, News
<1>2. \A c \in Tabs : pc[c] = "out"
  BY DEF Init, Threads
<1> QED
  BY <1>1, <1>2 DEF IInv, Served, ListKnown, RequestsKnown, Greeted, Told

\* Every step of a goroutine keeps the invariant.
LEMMA NextIInv == IInv /\ [Next]_vars => IInv'
<1> SUFFICES ASSUME IInv, [Next]_vars PROVE IInv'
  OBVIOUS
<1>0. Tabs \subseteq Threads /\ Core \subseteq Threads /\ dead \subseteq Tabs
  BY DEF Threads, IInv, TypeOK
<1>1. ASSUME NEW t \in Threads, Step(t) \/ Change(t) \/ Notify(t)
      PROVE  IInv'
  <2>1. CASE BroadcastLock(t) \/ Sent(t) \/ NotifyList(t) \/ Change(t) \/ Notify(t)
    BY <2>1, BroadcastLockStep, SentStep, NotifyListStep, ChangeStep, NotifyStep, AllowedKeeps
  <2>2. CASE \E c \in Tabs : SendToClient(t, c)
    BY <2>2, SendToClientStep, AllowedKeeps
  <2>3. CASE t \in Tabs /\ (Register(t) \/ SendInitialState(t) \/ SendRequests(t)
                              \/ SendTrusted(t) \/ Leave(t) \/ Unregister(t))
    BY <2>3, RegisterStep, InitialStateStep, RequestsStep, TrustedStep, LeaveStep,
       UnregisterStep, AllowedKeeps
  <2>4. CASE AnnounceLock(t)
    BY <1>0, <2>4, QuietStep DEF AnnounceLock, threads, data, tabs
  <2> QED
    BY <1>1, <2>1, <2>2, <2>3, <2>4 DEF Step
<1>2. CASE \E g \in Core, r \in Requests : NotifyConnectionRequest(g, r)
  BY <1>0, <1>2, RequestStep, AllowedKeeps
<1>3. CASE \E c \in Tabs : Arrive(c)
  BY <1>0, <1>3, ArriveStep, AllowedKeeps
<1>4. CASE \E c \in Tabs : CloseTab(c)
  BY <1>0, <1>4, QuietStep DEF CloseTab, lock, threads, data
<1>5. CASE \E c \in Tabs, r \in Requests : RemovePendingRequest(c, r)
  BY <1>0, <1>5, QuietStep DEF RemovePendingRequest, lock, threads, tabs
<1>6. CASE UNCHANGED vars
  BY <1>0, <1>6, QuietStep DEF vars, lock, threads, data, tabs
<1> QED
  BY <1>1, <1>2, <1>3, <1>4, <1>5, <1>6 DEF Next

\* The invariant is inductive.
THEOREM Invariance == Spec => []IInv
BY InitIInv, NextIInv, PTL DEF Spec

\* No tab ever misses a change, with any number of tabs coming and going and any
\* number of goroutines: a tab that reads was sent the list as it is, or will be.
THEOREM ListsReachTabs == Spec => []NewestSeen
<1>1. IInv => NewestSeen
  BY DEF IInv, ListKnown, NewestSeen, Reads, ListOK, ListFrom, Greeted, Told
<1> QED
  BY <1>1, Invariance, PTL

\* No tab ever misses a connection request that waits, whether it connected
\* before the request came or after.
THEOREM RequestsReachTabs == Spec => []RequestSeen
<1>1. IInv => RequestSeen
  BY DEF IInv, RequestsKnown, RequestSeen, Reads, RequestOK, RequestFrom, Told
<1> QED
  BY <1>1, Invariance, PTL

-----------------------------------------------------------------------------
(* Who holds clientsMu, and who can go on.                                  *)

\* The tab that announced Lock is still at it, a holder of the read lock is in
\* its broadcast, and a goroutine of the core does nothing but broadcast.
Locks ==
  /\ writer \in Tabs \cup {None} /\ readers \subseteq Threads
  /\ writer # None => pc[writer] \in {"arriving", "leaving"}
  /\ \A t \in readers : pc[t] = "loop"
  /\ \A g \in Core : pc[g] \in {"idle", "changed", "want", "loop"}

\* A step of t that leaves the lock alone, from a place where t does not hold it.
LEMMA LocksElsewhere ==
  ASSUME IInv, Locks, NEW t \in Threads, NEW p,
         pc[t] \notin {"arriving", "leaving", "loop"}, pc' = [pc EXCEPT ![t] = p],
         t \in Core => p \in {"idle", "changed", "want", "loop"},
         UNCHANGED <<writer, readers>>
  PROVE  Locks'
<1> pc \in [Threads -> Places] /\ Tabs \subseteq Threads /\ Core \subseteq Threads
  BY DEF IInv, TypeOK, Threads
<1> QED
  BY DEF Locks

\* The steps of the lock itself, and those in which nobody moves.
LEMMA LocksAtLock ==
  ASSUME IInv, Locks, NEW t \in Threads,
         \/ BroadcastLock(t) \/ Sent(t)
         \/ t \in Tabs /\ (Arrive(t) \/ AnnounceLock(t) \/ Register(t) \/ Unregister(t))
  PROVE  Locks'
<1> pc \in [Threads -> Places] /\ Tabs \subseteq Threads /\ Core \subseteq Threads
  BY DEF IInv, TypeOK, Threads
<1> t \in Tabs => t \notin Core /\ t # None
  BY ThreadsAssumption
<1> t \in Core => t \notin Tabs
  BY ThreadsAssumption
<1>1. CASE BroadcastLock(t)
  BY <1>1 DEF Locks, BroadcastLock, Goto, NoWriter
<1>2. CASE Sent(t)
  BY <1>2 DEF Locks, Sent, Goto, Home
<1>3. CASE t \in Tabs /\ Arrive(t)
  BY <1>3 DEF Locks, Arrive, Goto, lock
<1>4. CASE t \in Tabs /\ AnnounceLock(t)
  BY <1>4 DEF Locks, AnnounceLock, NoWriter, threads
<1>5. CASE t \in Tabs /\ (Register(t) \/ Unregister(t))
  BY <1>5 DEF Locks, Register, Unregister, Goto, NoReader
<1> QED
  BY <1>1, <1>2, <1>3, <1>4, <1>5

\* Every step keeps the lock in order.
LEMMA NextLocks == IInv /\ Locks /\ [Next]_vars => Locks'
<1> SUFFICES ASSUME IInv, Locks, [Next]_vars PROVE Locks'
  OBVIOUS
<1>0. Tabs \subseteq Threads /\ Core \subseteq Threads /\ Tabs \cap Core = {}
  BY ThreadsAssumption DEF Threads
<1>1. CASE UNCHANGED <<writer, readers, pc>>
  BY <1>1 DEF Locks
<1>2. ASSUME NEW t \in Threads, Step(t) \/ Change(t) \/ Notify(t)
      PROVE  Locks'
  <2>1. CASE BroadcastLock(t) \/ Sent(t)
    BY <2>1, LocksAtLock
  <2>2. CASE NotifyList(t) \/ Change(t) \/ Notify(t)
    <3>1. \E p \in {"changed", "want"} : pc' = [pc EXCEPT ![t] = p]
      BY <2>2 DEF NotifyList, Change, Notify, Broadcast, Goto
    <3>2. /\ UNCHANGED <<writer, readers>>
          /\ pc[t] \in {"changed", "idle", "reading"}
      BY <2>2 DEF NotifyList, Change, Notify, Broadcast, Goto, Home, lock
    <3> QED
      BY <3>1, <3>2, LocksElsewhere
  <2>3. CASE \E c \in Tabs : SendToClient(t, c)
    BY <1>1, <2>3 DEF SendToClient, lock
  <2>4. CASE t \in Tabs /\ (AnnounceLock(t) \/ Register(t) \/ Unregister(t))
    BY <2>4, LocksAtLock
  <2>5. CASE t \in Tabs /\ (SendInitialState(t) \/ SendRequests(t) \/ SendTrusted(t) \/ Leave(t))
    <3>1. \E p \in {"greeting", "asking", "want", "leaving"} : pc' = [pc EXCEPT ![t] = p]
      BY <2>5 DEF SendInitialState, SendRequests, SendTrusted, Leave, Broadcast, Goto
    <3>2. /\ UNCHANGED <<writer, readers>> /\ t \notin Core
          /\ pc[t] \in {"registered", "greeting", "asking", "reading"}
      BY <1>0, <2>5 DEF SendInitialState, SendRequests, SendTrusted, Leave, Broadcast, Goto, lock
    <3> QED
      BY <3>1, <3>2, LocksElsewhere
  <2> QED
    BY <1>2, <2>1, <2>2, <2>3, <2>4, <2>5 DEF Step
<1>3. ASSUME NEW g \in Core, NEW r \in Requests, NotifyConnectionRequest(g, r)
      PROVE  Locks'
  <2>1. pc[g] = "idle" /\ pc' = [pc EXCEPT ![g] = "want"] /\ UNCHANGED <<writer, readers>>
    BY <1>3 DEF NotifyConnectionRequest, Broadcast, Goto, lock
  <2> QED
    BY <1>0, <2>1, LocksElsewhere
<1>4. CASE \E c \in Tabs : Arrive(c)
  BY <1>0, <1>4, LocksAtLock
<1>5. CASE \/ \E c \in Tabs : CloseTab(c)
           \/ \E c \in Tabs, r \in Requests : RemovePendingRequest(c, r)
           \/ UNCHANGED vars
  BY <1>1, <1>5 DEF CloseTab, RemovePendingRequest, vars, lock, threads
<1> QED
  BY <1>2, <1>3, <1>4, <1>5 DEF Next

\* Nobody holds or wants the lock at first.
LEMMA LocksAlways == Spec => []Locks
<1>1. Init => Locks
  BY ThreadsAssumption DEF Init, Locks, Threads
<1> QED
  BY <1>1, NextLocks, Invariance, PTL DEF Spec

\* Goroutines wait for each other for ever in one way only, with any number of
\* tabs and of broadcasts: when nobody announced Lock, whoever is busy goes on;
\* when somebody did, it gets the lock, or a broadcast that holds it goes on.
THEOREM OnlyJam == Spec => []OnlyOneJam
<1>1. ASSUME IInv, Locks, NEW t \in Threads, Busy(t), ~Jammed
      PROVE  \E u \in Threads : Ready(u)
  <2>0. /\ pc \in [Threads -> Places] /\ Tabs \subseteq Threads
        /\ t \in Tabs \/ t \in Core
    BY <1>1 DEF IInv, TypeOK, Threads
  <2>1. CASE writer = None
    <3>1. pc[t] \in Places \ {"out", "idle", "reading", "gone"}
      BY <1>1, <2>0 DEF Busy
    <3>2. t \in Tabs \/ pc[t] \in {"changed", "want", "loop"}
      BY <1>1, <2>0, <3>1 DEF Locks
    <3> QED
      BY <2>1, <3>1, <3>2 DEF Ready, NoWriter, Places
  <2>2. CASE writer # None /\ readers = {}
    <3>1. writer \in Tabs /\ pc[writer] \in {"arriving", "leaving"}
      BY <1>1, <2>2 DEF Locks
    <3> QED
      BY <2>0, <2>2, <3>1 DEF Ready, NoReader
  <2>3. CASE writer # None /\ readers # {}
    <3>1. PICK u \in readers : TRUE
      BY <2>3
    <3>2. u \in Threads /\ pc[u] = "loop" /\ left[u] = {}
      BY <1>1, <2>3 DEF Locks, Jammed
    <3> QED
      BY <3>2 DEF Ready
  <2> QED
    BY <2>1, <2>2, <2>3
<1>2. IInv /\ Locks => OnlyOneJam
  BY <1>1 DEF OnlyOneJam
<1> QED
  BY <1>2, Invariance, LocksAlways, PTL

\* What a jam costs: it stays, nobody is added to the tabs or taken out, and no
\* tab is told anything any more.
Stuck == Jammed => Jammed' /\ UNCHANGED <<clients, writer, newest, asked>>

\* A jam never ends: the broadcast cannot look its next tab up before the tab
\* that waits for the lock has had it, and keeps the read lock until then.
THEOREM JamIsFinal == Spec => [][Stuck]_vars
<1>1. ASSUME IInv, Locks, [Next]_vars, Jammed
      PROVE  Jammed' /\ UNCHANGED <<clients, writer, newest, asked>>
  <2> USE DEF lock, threads, data, tabs
  <2>0. PICK u \in readers : left[u] # {}
    BY <1>1 DEF Jammed
  <2>1. /\ u \in Threads /\ pc[u] = "loop" /\ left \in [Threads -> SUBSET Tabs]
        /\ Tabs \subseteq Threads /\ Core \subseteq Threads
        /\ ~NoWriter /\ (\A c \in Tabs : ~NoReader(c))
    BY <1>1, <2>0 DEF IInv, TypeOK, Locks, Jammed, NoWriter, NoReader, Threads
  <2>2. ASSUME u \in readers', left'[u] = left[u], UNCHANGED <<clients, writer, newest, asked>>
        PROVE  Jammed' /\ UNCHANGED <<clients, writer, newest, asked>>
    BY <1>1, <2>0, <2>2 DEF Jammed
  <2>3. ASSUME NEW t \in Threads, Step(t) \/ Change(t) \/ Notify(t)
        PROVE  Jammed' /\ UNCHANGED <<clients, writer, newest, asked>>
    <3>1. /\ ~BroadcastLock(t) /\ (\A c \in Tabs : ~SendToClient(t, c)) /\ ~AnnounceLock(t)
          /\ t \in Tabs => ~Register(t) /\ ~Unregister(t)
      BY <2>1 DEF BroadcastLock, SendToClient, AnnounceLock, Register, Unregister
    <3>2. CASE Sent(t)
      BY <2>0, <2>2, <3>2 DEF Sent
    <3>3. CASE NotifyList(t) \/ Change(t) \/ Notify(t) \/ SendTrusted(t) \/ Leave(t)
      BY <2>0, <2>2, <3>3 DEF NotifyList, Change, Notify, SendTrusted, Leave, Broadcast
    <3>4. CASE SendInitialState(t) \/ SendRequests(t)
      BY <2>0, <2>1, <2>2, <3>4 DEF SendInitialState, SendRequests, Goto
    <3> QED
      BY <2>3, <3>1, <3>2, <3>3, <3>4 DEF Step
  <2>4. CASE \E g \in Core, r \in Requests : NotifyConnectionRequest(g, r)
    BY <2>0, <2>2, <2>4 DEF NotifyConnectionRequest, Broadcast
  <2>5. CASE \E c \in Tabs : Arrive(c) \/ CloseTab(c)
    BY <2>0, <2>2, <2>5 DEF Arrive, CloseTab
  <2>6. CASE \E c \in Tabs, r \in Requests : RemovePendingRequest(c, r)
    BY <2>0, <2>2, <2>6 DEF RemovePendingRequest
  <2>7. CASE UNCHANGED vars
    BY <2>0, <2>2, <2>7 DEF vars
  <2> QED
    BY <1>1, <2>3, <2>4, <2>5, <2>6, <2>7 DEF Next
<1>2. IInv /\ Locks /\ [Next]_vars => [Stuck]_vars
  BY <1>1 DEF Stuck
<1> QED
  BY <1>2, Invariance, LocksAlways, PTL DEF Spec
=============================================================================
