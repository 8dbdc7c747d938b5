----------------------------- MODULE CommandLine -----------------------------
(***************************************************************************)
(* The command line (HandleInput and handleCommand of main.go) and the     *)
(* active peer it works on, while streams come and go in other goroutines. *)
(* One line is read and worked off at a time.                              *)
(*                                                                         *)
(* A command reads activeID, or the list of peers, under sm.mu and acts on *)
(* it later.  /accept and /reject are in ConnectionApproval, /save,        *)
(* /rename, /remove and /verify in LocalStore, what a message does in      *)
(* ChatTransport; /list, /peers, /help and the two measurements change     *)
(* nothing here.                                                           *)
(***************************************************************************)
EXTENDS Discovery, FiniteSets

CONSTANTS Peers,
          MaxConnects,  \* bound on the streams ever added
          None

ASSUME PeersAssumption == None \notin Peers
ASSUME ConnectsAssumption == MaxConnects \in Nat

VARIABLES streams,   \* sm.streams: a stream is <<its peer, its number>>
          open,      \* the streams, registered or not, that still work
          ending,    \* streams whose readLoop met their end and is about to
                     \* call forgetPeer
          activeID,  \* sm.activeID, or None for ""
          line,      \* the line in work: its command, and what it read
          connects   \* streams added so far

peers == <<streams, open, ending, activeID, connects>>
vars  == <<program, search, peers, line>>

NoStream == <<None, 0>>
NoLine   == [do |-> "nothing", peer |-> None, stream |-> NoStream]

Streams == Peers \X (1..MaxConnects)
Of(p)   == {s \in streams : s[1] = p}
Known(p) == Of(p) # {}

Init ==
  /\ DiscoveryInit
  /\ streams = {} /\ open = {} /\ ending = {} /\ activeID = None
  /\ line = NoLine /\ connects = 0

-----------------------------------------------------------------------------
(* The streams, as the other goroutines change them.                       *)

\* AddStream: a stream takes the place of the peer's last one, whose readLoop
\* goes on; the first peer becomes the active one.
Register(p) ==
  /\ connects < MaxConnects /\ connects' = connects + 1
  /\ streams' = (streams \ Of(p)) \cup {<<p, connects + 1>>}
  /\ open' = open \cup {<<p, connects + 1>>}
  /\ activeID' = IF activeID = None THEN p ELSE activeID
  /\ UNCHANGED ending

\* forgetPeer: it closes nothing.
ForgetPeer(p) ==
  /\ streams' = streams \ Of(p)
  /\ activeID' = IF activeID = p THEN None ELSE activeID
  /\ UNCHANGED <<open, connects>>

\* A stream ends, by the remote end or by Close here.
EndStream(s) == open' = open \ {s} /\ ending' = ending \cup {s}

\* HandleIncomingStream, or connectToPeer for a tab.
AddStream(p) == Register(p) /\ UNCHANGED <<program, search, line>>

\* The stream breaks, a tab disconnects it, or its readLoop finds no session.
Break(s) ==
  /\ s \in open /\ EndStream(s)
  /\ UNCHANGED <<program, search, streams, activeID, connects, line>>

\* readLoop returns; what it forgets may be a newer stream of the same peer.
ReadEnd(s) ==
  /\ s \in ending /\ ending' = ending \ {s} /\ ForgetPeer(s[1])
  /\ UNCHANGED <<program, search, line>>

-----------------------------------------------------------------------------
(* HandleInput: a line is read when the last one is done.  It may stand     *)
(* still where it waits for somebody else: in "write" for a peer that takes *)
(* a frame, in "handshake" for a peer's lines, which have no deadline, and  *)
(* in "notify" for the tabs, and for the peer that is sent the nickname.    *)

Outside == {"write", "handshake", "notify"}

Begin(do, p) ==
  /\ main = "ready" /\ line = NoLine
  /\ line' = [do |-> do, peer |-> p, stream |-> NoStream]
GoOn(do) == line' = [line EXCEPT !.do = do]
Done == line' = NoLine

\* The broadcasts at the end of a line return.
Notified ==
  /\ line.do = "notify" /\ Done
  /\ UNCHANGED <<program, search, peers>>

\* Text: activeID is read, then sendChat looks the stream up again ...
TypeText ==
  /\ activeID # None /\ Begin("send", activeID)
  /\ UNCHANGED <<program, search, peers>>

SendChat ==
  /\ line.do = "send" /\ Known(line.peer) /\ GoOn("write")
  /\ UNCHANGED <<program, search, peers>>

\* ... and writes on it.
Written ==
  /\ line.do = "write" /\ GoOn("notify")
  /\ UNCHANGED <<program, search, peers>>

\* Slip for StaleActiveHeals: the error is only printed.
SendChatFailsQuietly ==
  /\ line.do \in {"send", "write"} /\ Done
  /\ UNCHANGED <<program, search, peers>>

\* It fails, for want of a stream, in the write, or for the size of the text:
\* the peer is forgotten.
SendChatFails ==
  /\ line.do \in {"send", "write"} /\ GoOn("notify") /\ ForgetPeer(line.peer)
  /\ UNCHANGED <<program, search, ending>>

\* switchPeer: the number is looked up in a sorted copy of the list ...
SwitchPeer(p) ==
  /\ Known(p) /\ Begin("switch", p)
  /\ UNCHANGED <<program, search, peers>>

\* ... and the peer made active in a second critical section.
SetActive ==
  /\ line.do = "switch" /\ Done /\ activeID' = line.peer
  /\ UNCHANGED <<program, search, streams, open, ending, connects>>

\* connectToPeer: refused if there is a stream; else a request, ...
ConnectToPeer(p) ==
  /\ Begin(IF Known(p) THEN "notify" ELSE "connect", p)
  /\ UNCHANGED <<program, search, peers>>

\* ... a rejection, an error or the end of 35 seconds, ...
NotConnected ==
  /\ line.do = "connect" /\ GoOn("notify")
  /\ UNCHANGED <<program, search, peers>>

\* ... or an acceptance, and then AddStream with its handshake, ...
Accepted ==
  /\ line.do = "connect" /\ GoOn("handshake")
  /\ UNCHANGED <<program, search, peers>>

\* ... which registers the stream, ...
Connected ==
  /\ line.do = "handshake" /\ GoOn("notify") /\ Register(line.peer)
  /\ UNCHANGED <<program, search>>

\* ... or fails.
HandshakeFails ==
  /\ line.do = "handshake" /\ Done
  /\ UNCHANGED <<program, search, peers>>

\* disconnectActivePeer: activeID and its stream are read together; that stream
\* is closed, registered or not by then, and its readLoop forgets the peer.
DisconnectActivePeer ==
  /\ main = "ready" /\ line = NoLine
  /\ \E s \in Of(activeID) : line' = [do |-> "close", peer |-> activeID, stream |-> s]
  /\ UNCHANGED <<program, search, peers>>

CloseStream ==
  /\ line.do = "close" /\ Done
  /\ IF line.stream \in open THEN EndStream(line.stream) ELSE UNCHANGED <<open, ending>>
  /\ UNCHANGED <<program, search, streams, activeID, connects>>

\* discoverPeers works a search off and returns.
Discover(s) ==
  /\ Begin("discover", None)
  /\ DiscoverPeers(s, "cli") \/ FindPeersFails(s, "cli")
  /\ UNCHANGED <<program, peers>>

Discovered ==
  /\ line.do = "discover" /\ Done
  /\ \A s \in Searches : by[s] = "cli" => caller[s] = "gone"
  /\ UNCHANGED <<program, search, peers>>

\* handleDiscoverPeers, in a goroutine of its own.
WebDiscover(s) ==
  /\ DiscoverPeers(s, "web") \/ FindPeersFails(s, "web")
  /\ UNCHANGED <<program, peers, line>>

-----------------------------------------------------------------------------
\* What a line does by itself.
Work == \/ SendChat \/ SendChatFails \/ SetActive \/ NotConnected
        \/ CloseStream \/ Discovered

\* What it needs a peer or a tab for.
Answered == Notified \/ Written \/ Accepted \/ Connected \/ HandshakeFails

Next ==
  \/ \E p \in Peers : AddStream(p) \/ SwitchPeer(p) \/ ConnectToPeer(p)
  \/ \E s \in Streams : Break(s) \/ ReadEnd(s)
  \/ TypeText \/ DisconnectActivePeer
  \/ Work \/ Answered
  \/ \E s \in Searches : Discover(s) \/ WebDiscover(s)
  \/ (\E s \in Searches : SearchStep(s)) /\ UNCHANGED <<peers, line>>
  \/ ProgramStep /\ UNCHANGED <<peers, line>>

Spec == Init /\ [][Next]_vars

\* The goroutines of a search run, the five seconds of a caller and the 35 of
\* connectToPeer end, a line goes on unless it waits for a peer or a tab, and a
\* readLoop that met the end of its stream calls forgetPeer.  Nothing is assumed
\* of the network, of FindPeers, of the tabs or of the user.
Fairness ==
  /\ \A s \in Searches : /\ WF_vars(Goroutines(s) /\ UNCHANGED <<program, peers, line>>)
                         /\ WF_vars(StopReceiving(s) /\ UNCHANGED <<program, peers, line>>)
  /\ WF_vars(line.do \notin Outside /\ Work)
  /\ \A s \in Streams : WF_vars(ReadEnd(s))

FairSpec == Spec /\ Fairness

-----------------------------------------------------------------------------
\* A peer that was forgotten between the two critical sections of /switch stays
\* active although it has no stream; the first text puts that right.
StaleActiveHeals ==
  \A p \in Peers :
    line.do = "send" /\ line.peer = p /\ ~Known(p)
      ~> activeID # p \/ Known(p)

\* A line comes to an end by itself, unless it stands where it waits for a peer
\* to take a frame or to go on with the handshake, or for a broadcast to the
\* tabs to return: /discover and the wait for the answer to a request hold the
\* only input thread for a bounded time, whatever the DHT finds and whatever
\* streams are added and forgotten meanwhile.
LineEnds == line # NoLine ~> line = NoLine \/ line.do \in Outside
=============================================================================
