# Formal models of the decentralized P2P chat core

TLA+ models of the Go core under `src/`, the TLC configurations that check them
on small instances, and TLAPS proofs of the properties that matter most.
`PROJECT.json` lists components, runs, mutants, the definition-to-source map,
findings, hazards and theorems.

## 1. The system

| Component | State it keeps | Operations | Talks to | What makes it correct |
|---|---|---|---|---|
| Encrypted session, `security/e2ee.go` | send counter, highest received counter, 64-bit replay window | `Encrypt`, `Decrypt`, `acceptCounter` | stream manager | no packet opened twice, only genuine packets opened, nothing recent refused |
| Handshake, `security/e2ee.go` | ephemeral keys, transcript | `Handshake` | libp2p identity keys | both ends derive the same keys and opposite directions |
| Chat transport, `chat_envelope.go` | sequence numbers, pending table, receive buffer | `sendChat`, `retransmitDue`, `handleEnvelope`, `drainReceiveBuffer` | session, web bridge | in-order exactly-once delivery, truthful acks, every message has one outcome |
| Stream manager, `main.go` | peer -> stream, peer -> session, active peer | `connectToPeer`, `AddStream`, `readLoop`, `forgetPeer`, disconnect | transport, approval | dead streams are forgotten, a replaced stream disturbs nothing |
| Connection approval, `main.go`, `web.go` | peer -> channel, number -> peer, counter, web list | `HandleIncomingStream`, the two `RespondToConnectionRequest...` | CLI, browser | a session starts only for a peer the user meant; every request ends |
| Message history, `storage/history.go` | one encrypted file per peer | `SaveMessage`, `LoadHistory`, `ClearHistory` | CLI, web bridge | no lost update, no torn file, an unreadable file is kept |
| Trusted peers, `storage/peers.go` | one JSON file | save, rename, remove | CLI, browser | one entry per peer, an update is lost only by a fault |
| Verification markers, `storage/verifications.go`, `verification.go` | one JSON file | `SetVerified`, `IsVerified`, `safetyNumber` | CLI, browser | markers survive, the number is symmetric |
| Envelopes, `protocol/envelope.go` | - | construct, `Validate`, `Encode`, `Decode` | transport | what is built validates |
| Discovery, `discovery/dht.go` | DHT handle | bootstrap, advertise, `DiscoverPeers`, `FindPeer` | CLI, browser | a search ends with its context |
| Web bridge, `web.go` | WebSocket clients, their locks, message list | handlers, `broadcast` | all of the above | no deadlock, last broadcast state is current |
| Browser client, `web/app.js` | messages by peer, lists | handlers, `mergeHistory` | web bridge | each message shown once |
| Command line, `main.go` | active peer | text, `/switch`, `/connect`, `/disconnect`, `/discover`, ... | stream manager, discovery, stores | the input thread waits for no search and no answer for ever, a stale active peer heals |
| Identity and start-up, `main.go` | key file, flags | `main` | all of the above | - |

Hard behaviour: one read loop per stream, a retransmission loop, one handler per
incoming request, an input thread, a goroutine per WebSocket and per saved
message, all sharing maps under several locks that are released between related
steps; streams that end, cross or are replaced; timers of 2, 30 and 35 seconds
racing answers; crashes between the steps of a file write. The list of hazards
with their lines is in `PROJECT.json`.

## 2. Modules

| Module | Models | Kind |
|---|---|---|
| `ReplayFilter` | what a session promises about counters | abstract specification |
| `Session` | `security.Session`, both ends | component, implements `ReplayFilter` |
| `SessionProofs` | | theorems |
| `Handshake` | establishing a session, both ends | component |
| `HandshakeProofs` | | theorems |
| `ChatService` | what chat over one stream promises to its two users | abstract specification |
| `ChatTransport` | chat over one established stream | component, implements `ChatService` |
| `ChatTransportProofs` | | theorems, those about `Envelope` too |
| `StreamManager` | streams, registration, read loops and the chat books of two nodes | composition of stream life and transport |
| `StreamManagerProofs` | | theorems |
| `ConnectionApproval` | approval of incoming connections | component |
| `ConnectionApprovalProofs` | | theorems |
| `CommandLine` | the command line and the active peer | component, composed with `Discovery` |
| `Discovery` | the DHT service and its searches | component, extended by `CommandLine` |
| `WebBridge` | the tabs, the broadcasts and their lock | component |
| `WebBridgeProofs` | | theorems |
| `Envelope` | envelopes, conversation IDs, safety numbers | pure operators |
| `HistoryLog` | a log that is appended to in one step | abstract specification |
| `HistoryStore` | one history file and its saving goroutines | component, implements `HistoryLog` |
| `HistoryStoreProofs` | | theorems |
| `LocalStore` | trusted peers and verification markers | component |
| `LocalStoreProofs` | | theorems |
| `MC...` | what the runs instantiate; `MCStreamManager` also states a sentence of the documents that TLC refutes | |

Definitions marked *Slip* are plausible mistakes in the code below which they
stand; no specification uses them. For every checked property one of them,
put in place of the definition it follows, makes TLC report the property.

### Session

`sendCtr`, `recvMax` and `recvWindow` are the fields of `Session`; the 64-bit
mask is the set of its one bits and `W` is `replayWindowBits`. `wire` keeps every
packet ever sealed, and any of them, or any damaged packet, may be handed to
either end at any time, so loss, duplication, reordering and reflection need no
actions of their own. AEAD is ideal: a packet opens exactly if its tag is intact
and it was sealed for the direction. `opened` and `answer` are history. The
counter's overflow at 2^64 is out of reach of any run of the program; `MaxCtr`
bounds it.

### Handshake

The dialer writes its request, the listener's user answers, the listener writes
the answer and the dialer reads it with `readLine`, byte by byte; both then run
`Handshake`. `how` says whether the dialer asks at all: `main` with an address
argument opens a stream and runs `Handshake` at once (`stream` is then `refused`
by the listener, which expects a request). `net[e]` holds lines under way and `buf[e]`
those a `bufio.Reader` has taken: it takes all that has arrived. A transcript is
the set of the two keys and the set of the two identities, which is what sorting
makes of them; a derived key is the set of the two ephemeral keys with the
transcript and the label. A signature verifies if it is by the expected identity
over the same transcript. `expect` may name a stranger. The two ends draw
different keys: `Agreement` rests on that, as the sorted transcript does not say
which key is whose. Missing identities and failing random
sources are left out. `Session` starts from what `OppositeKeys` states.

### ChatTransport

One direction of one stream. Three goroutines work on the sender's books: the
command line and a web client, which call `sendChat`, and the `readLoop`; `pc[c]`
says where each is. `sendChat` looks the stream up (`SendLookup`), waits for
`sendMu`, takes a number and tracks the message (`SendTrack`), and writes it
(`SendWrite`, `SendWriteFails`). `forgetPeer` deletes the maps in one step and
clears the pending entries in another (`ForgetPeer`, then
`ClearPending`), so a message may be tracked after its peer was forgotten. Such a
message has kind `"late"`; the code gives it number 1 again, the model a number of
its own, and what becomes of its frame is in `StreamManager`. The properties of
delivery speak of the messages numbered while the peer is registered.

`attempts[n]` is the pending entry of message `n` (0: none); `due`, `rtx` and
`rtxErr` are the locals of `retransmitDue`, whose write happens without
`pendingMu` and is a step of its own; `sending` is the message between
`trackPending` and the end of the write. `refused`, `reported` and `acked` record
how the sender learned of an outcome. Texts are abstracted to `"text"`, `"blank"`
(trimmed to nothing by the receiver) and `"big"` (refused by `newChatEnvelope`).
The medium is a bag that reorders and loses frames. It is wider than the ordered
stream of today, on purpose: the sequence check exists "for transports that can
reorder", and `readLoop` skips frames it cannot decrypt.

`trackPending` counts the first write as attempt 1 and `retransmitDue` gives up
when it finds five attempts *after* writing once more. The code therefore writes a
message up to six times, the first write and five retries, and `WriteBound` says
`maxPendingRetries + 1`; "gives up after five attempts" in `docs/protocol-v2.md`
is read as five retries.

`ChatService` is the same conversation without frames, retries and buffers. The
mapping takes the pending table for the messages whose outcome is awaited, and the
delivered and the buffered messages for those the receiver holds. `sendChat` that
fails is one of two refusals there: before the message is tracked, or after. What
`retransmitDue` and lost or repeated frames do is not seen at all.

### StreamManager

Two nodes, up to `MaxStreams` streams. A stream is a pair of ordered channels.
`registered[n]` stands for both `sm.streams` and `sm.sessions`, which are always
written together. `Dial` and `Abandon` are `connectToPeer` and every way it or the
approval can fail; `AddStream` happens at each end on its own. `at[n][s]` is where
`n`'s `readLoop` of stream `s` is, and each lock it takes is a step of its own:

* the end of the stream: `ReadEnd` forgets the peer (`sm.mu`), `ReadClears` clears
  the pending entries (`pendingMu`), `ReadReturn` closes the stream;
* no session registered: `ReadSessionLost` closes the stream, and `LostForgets`
  forgets the peer later, with whatever stream is registered by then;
* a chat message: `ReadChat` decrypts with the session registered at that moment;
  `HandleDuplicate`, `HandleEarly` or `HandleNext` compares and takes the number
  under `sm.mu`; `Show` is `deliverChat`, which runs without the lock;
  `Acknowledge` looks a stream up again and writes; `Drain` takes the lock for each
  buffered message. Another `readLoop` or a reset may come between any two.

Chat flows from `a` to `b`; `SendLookup`, `SendTrack` and `SendWrite` are the
three parts of `sendChat`, `InputForgets` and `InputClears` what the command line
does after a failure, and one call is in progress at a time. A pass of
`retransmitDue` for one message is one step here, because its races are in
`ChatTransport`. `base` counts what was shown before the last reset, and `late`
are the `readLoop`s that were in the middle of a message then. Control frames (the
nickname, latency messages) change nothing modelled here and are not kept;
`ControlLost` is what one does at an end without a session. An end that closes a
stream discards what it has not read. `MaxEvents` bounds the messages and the
streams ended from outside together: the interesting cases need one or two of
either, and all combinations of more would not fit.

### ConnectionApproval

`pc[r]` follows one `HandleIncomingStream`; its channel `ch[r]` has room for one
answer. `responder[u]` is the input thread of the CLI or the reader of one tab,
between its two locked look-ups and the channel send that may block. `meant`
records which request a user said yes to: the CLI user types the number that was
printed for `r`, the browser user clicks on `r`. The handshake that follows an
acceptance may take for ever, because it has no deadline.

### HistoryStore

One file. A `SaveMessage` goroutine goes through `queued`, `read`, `written`,
`synced` and `saved`; `mu` is the store's lock. `versions` is what a power
failure may leave: the directory is not synced after the rename, so any version
since the last flush can come back. Left-over temporary files are not modelled:
their names do not end in `.enc` and nothing reads them. Damage from outside
happens between two calls of the store. `HistoryLog` knows the file, its versions
and the messages saved; only the rename of a save is seen there.

### LocalStore

`kind` says which of the two files a behaviour is about. `call[u]` follows the
CLI's input thread or a tab's reader through a call; `mu` is the store's lock.
`Truncate` and `Finish` are the two halves of `os.WriteFile`; for the markers
`WriteTemp` and `Finish` are the temporary file and the rename. `LoadError` is a
`ReadFile` that fails on a file that is there: most calls return the error, but
`SavePeer` and `SetVerified` ignore it (`LoadIgnored`) and go on with an empty list.
`ledger` is what the completed calls amount to. It follows the three ways in which
entries are lost: a torn file, a read error that was ignored, and a power failure
that brings older markers back. `renameSavedPeer` takes the
lock twice, and a removal in between makes the rename save the peer anew.

### WebBridge

`clientsMu` is Go's `RWMutex`, taken apart: `writer` is the tab that has announced
`Lock`, which stops new readers, and `readers` are the broadcasts that hold the read
lock. `left[t]` are the tabs a broadcast has still to serve, each with another read
lock of its own in `sendToClient`. `NoWriter` and `NoReader` are what the two sides
of the lock wait for, and `Ready(t)` puts together what the steps of one goroutine
wait for: those two, and a closed connection. One list, known by its version, stands
for the three (peers, verified, trusted) that are read under a lock of their own and
broadcast afterwards; `newest[c]` and `asked[c]` are what a tab has been sent. All
other messages are broadcasts without a content.

### Discovery and CommandLine

A search is four parties: libp2p's `FindPeers`, the watcher, the forwarder and the
caller. `outChan` has no buffer, so `Receive` is a step of two. The context of
`/discover` ends with the command; a tab passes the context of the program. `line`
is the line in work with what it read under `sm.mu`. A stream is its peer and a
number, so that `/disconnect` closes the stream it found, which may have been
replaced; `streams`, `open` and `ending` are the streams in the map, those that
still work, and those whose `readLoop` is about to forget their peer. `Outside` are
the places where a line waits for somebody else, without a deadline: for a peer that
takes a frame (`"write"`), for a peer's lines in the handshake after an accepted
request (`"handshake"`), and for the tabs (`"notify"`). `CommandLine` extends
`Discovery`, so that `/discover` occupies the input thread while streams come and
go.

### Envelope

Times, lengths and peers are numbers; a digest is what was digested. `Validate`,
`Encodes`, `Decodes`, `NewEnvelope`, `Admitted` and `safetyNumber` are operators
without state, and are used by the theorems only. `json.Marshal` compacts a body
that is a `RawMessage` and writes six bytes for each `<`, `>`, `&` and line
separator left in it: `plain` counts these bytes. A body that `newEnvelope`
marshalled itself has none.

## 3. Runs

| Run | Bounds | Shows |
|---|---|---|
| `session_window` | window of 3, 5 packets each way | each packet opened at most once and only genuine ones; the mask is exact; the session refines `ReplayFilter` |
| `chat_safety` | 3 messages, no loss, 1 retry, buffer of 1, texts and too big ones, CLI and web | in-order exactly-once delivery, truthful acks, one outcome per message; the transport refines `ChatService` |
| `chat_liveness` | 2 messages, 1 loss, 2 retries, no buffer, texts and blanks, CLI | bounded writes; tracking ends while the peer is connected; a text is delivered or its loss known |
| `chat_gives_up` | 1 message, web | a sentence of the documents is refuted: `GivesUp` |
| `streams` | 2 streams, 2 messages, 2 events, 1 retry, one dialler, CLI | a registered stream is read; between two resets 1, 2, 3, ... is shown; dead streams are forgotten, half-open ones heal |
| `streams_twice` | 2 streams, 1 message, 2 retries | a sentence of the documents is refuted: `ShownOnce` |
| `approval` | 2 peers, 2 requests, 3 answers, CLI and one tab | numbers stay apart, tables come clean, no session without a yes, every wait ends |
| `handshake` | 3 keys, 2 changed lines, with and without a request | the ends agree and their keys fit; every handshake ends; undisturbed, the first packet is read |
| `local_store` | 3 peers, 2 nicknames, CLI and one tab, 4 calls, 2 faults | one entry per peer; entries are lost only in the three ways above |
| `history` | 4 messages, 2 faults | whole files, no lost update, a clear is final, damage is kept |
| `web_bridge` | 2 tabs, 1 goroutine of the core, 1 request, 2 changes, 1 other broadcast | no change and no request passes a tab by; there is one way to jam |
| `command_line` | 2 peers, 2 streams, 1 search with 2 results, 1 bootstrap peer | a stale active peer heals, a line ends unless it waits for a peer or a tab, a search stops |

Why the bounds are enough for the cases that matter. A window of three and five
counters let it slide by less than, exactly and more than its width, with late
packets inside, on the edge and outside. Three messages and a buffer of one give
a gap, a full buffer, a drained buffer and a dropped early frame at the same
time; frames are reordered there and repeated by a retransmission, and losses are
in `chat_liveness`. Two retries let an entry be counted up before it is given up. Two
streams give replacement, late registration and retransmission across streams; two
messages give the collision of an old and a new number. Streams dialled from both
sides, more messages and more events are covered by the theorems. Two requests let the
counter start over while a number is still shown, and may come from the same
peer; three answers let both interfaces answer a handler that stopped reading.
Larger numbers of requests are covered by the theorems. Two changed lines let
both keys of a handshake be exchanged for a third. Two tabs and one goroutine of
the core give a broadcast that serves several tabs while one comes and the other
goes, and two changes let two lists overtake each other. Two peers and two streams
give a `/switch` to a peer that is forgotten in between, a peer that connects while
another is active, and a `readLoop` that forgets the peer's newer stream; a second
search would only repeat the first, as searches share nothing. Deadlock checking is
off where the system may rest: users need not do anything, and the bounds end every
behaviour. It is on for `session_window`.

### Fairness

* `chat_liveness`, `chat_gives_up`: the retransmission loop ticks for as long as the
  program runs; a write returns; a `forgetPeer` that was called, and its
  `clearPending`, run to their end; while the stream is up, frames are read. Nothing
  is assumed of users, of losses or of a broken stream. Weak fairness suffices.
* `streams`: every `readLoop` keeps going, and nothing else does. That a loop gets
  through a message assumes that the writes and the broadcasts it makes return; the
  code does not guarantee this, as `JamIsFinal` and section 5 say. Users need not
  dial, send or disconnect.
* `handshake`: each end goes on with its handshake and its `readLoop`; nothing is
  assumed of the 35-second timer, the medium or the users. A peer that stays
  connected and stops in the middle is outside: without a deadline nothing ends the
  wait for it.
* `approval`: handlers run and their timers fire; responders run, but a
  responder whose channel stays full stays blocked. No fairness for the handshake.
* `command_line`: the goroutines of a search run, the five seconds of its caller
  and the 35 of `connectToPeer` end, a line goes on except in `Outside`, and a
  `readLoop` that met the end of its stream calls `forgetPeer`. Nothing is assumed
  of `FindPeers`, the peers, the tabs or the user.
* `web_bridge` needs none: `OnlyOneJam` states progress as an invariant. Unless two
  goroutines are jammed, somebody is `Ready` for a step of what it has begun, and
  each of these steps brings its goroutine nearer to its end. Apart from its guard
  such a step only assigns, so whoever is ready can take it.
* `history` and `local_store` check safety only.

### Where the documents and the code differ

* `GivesUp` (`chat_gives_up`). `docs/protocol-v2.md` line 113 says that the sender
  gives a message up and reports it. A message that was tracked after `forgetPeer`
  cleared the pending entries is passed over by `retransmitDue`, and nothing is
  reported unless the peer connects again. `EveryPendingEnds` states what does hold.
* `ShownOnce` (`streams_twice`). Line 111: "Duplicate chat messages are acknowledged
  and dropped." `AddStream` restarts the numbers and keeps the pending entries; a
  message that was shown is retransmitted on the new stream and shown again.
* `InOrderPerReset` (`streams`). Lines 109 and 112: a message is delivered when it
  is the next one, and a new stream resets the counters. A `readLoop` that was
  handling a message when the numbers were reset may show it between the new ones,
  or count it as one of them; the property has to leave these resets out (`late`).
* `ImplementsFilter` (`session_window`). The comment on `ErrReplay`
  (`security/e2ee.go` lines 36-37) and `CHANGELOG.md` line 15 say that counters out of
  order are rejected. `acceptCounter` accepts a late counter that the window covers
  and has not seen, and the run passes for a filter that does so.
* `DeliveredOrKnown` (`chat_liveness`). `docs/security/threat-model.md` line 80 says
  that messages which find the buffer full "can only be recovered by a new stream".
  They are not acknowledged, and the sender retransmits them on the same one.

### Behaviours the models contain

No run of its own is about them; the properties are stated so that they hold
nevertheless, and say so.

* A line of blanks is sent like any other, but the receiver returns before it
  looks at the sequence number. The number is never passed: every later message
  waits in the buffer until the stream is replaced (`RecvBlank`; excepted in
  `DeliveredOrKnown`).
* A retransmitted copy of a *buffered* message is dropped without an ack while the
  buffer is full.
* A `sendChat` that looked up the old stream and takes its number after a new one was
  registered writes number 1 on the old stream. A receiver that has not changed over
  takes it for a message it has shown, acknowledges and drops it; one that has cannot
  decrypt it and skips it.
* A `readLoop` that lost its session forgets the peer after it closed its own stream;
  a stream registered in between is forgotten with it (`LostForgets`).
* A second request of a peer takes the channel of the first one; request numbers
  start over when no request is left, so `/accept` with a number printed for one
  peer can reach a request of another; the web client's list keeps requests that
  ended elsewhere.
* A program started with an address never gets its chat: it does not send the
  request the listener waits for. It prints that the chat started all the same.
* A tab that connects or leaves while a broadcast is under way waits for the write
  lock of `clientsMu`; the broadcast then waits for the same lock in
  `sendToClient`. Neither goes on, nor does any later broadcast (`Jammed`, and the
  theorem `JamIsFinal`).
* Two lists may overtake each other, so the last one a tab gets may be the older.
* The forwarder of a search stays in its send when its caller stopped receiving;
  after a search of a tab nothing cancels the search before the program ends.
* `/switch` to a peer that is forgotten in between leaves an active peer without a
  stream until the next text. A text goes to whoever is active when it is read: a
  peer that was forgotten may have been followed by another one that connected.
* A crash while the trusted peers are rewritten loses all of them. So does saving a
  peer, or setting a marker, when the file cannot be read at that moment.

## 4. Proofs

All theorems hold for every value of the constants, under the assumptions that
the modules name. Bounds are naturals (`MaxCtrAssumption`, `MaxMsgsAssumption`,
the `BoundsAssumption`s, `DamageAssumption`, `FaultsAssumption`). The window has at
least one packet (`WAssumption`) and there is at least one retry
(`LimitsAssumption`, `RetriesAssumption`); the buffer may have any size. Names that
stand for nobody or for another kind of caller are not names of peers, tabs or
messages (`UsersAssumption`, `ThreadsAssumption`, `FreeAssumption`). `Kinds`,
`Dialers` and `Callers` are among the values the code knows, and keys are positive
numbers (`KeysAssumption`): 0 stands for a key that is not known yet.

A state invariant is proved by an inductive one, `IInv` in each module; TLC checked
each of them on the run of its module first.

* `SessionProofs`. `AtMostOnce` is not inductive: it says nothing of what the mask
  remembers. The invariant adds `WindowExact`, which ties each bit of the window
  to the packets opened, and `WireSealed`, which ties the wire to the sending
  counters. The lemmas `ShiftLeftType` and `ShiftLeftBits` say what a shift does
  to the bits. From the invariant follow `NoReplay`, `Authentic`, `MaskExact` and
  `Refinement`: each step of the session is a step of `ReplayFilter` or leaves its
  variables alone, with `seen` mapped to the counters opened.
* `ChatTransportProofs`. `TypeCorrect` first. The invariant then adds: numbers not
  yet assigned are unused everywhere (`Fresh`); what the sender's books say of each
  message (`SInv`); and a count that ties the writes of a message to its attempts
  and to a write in progress (`WriteInv`), which makes `WriteBound` inductive.
  `Clears`, a part of `SInv`, says that a goroutine between the two locks of
  `forgetPeer` finds the peer not registered: what `ClearPending` takes out of the
  table is of no connected peer (`PcStep`, `ClearsStep`). `DrainStops` shows that
  `drainReceiveBuffer` ends at the run that continues the delivered message. From it
  follow `InOrderDelivery`, `AckSafety`, `BufferSafety`, `Accounting`,
  `SingleOutcome` and `RetryBound`. `ServiceRefinement` takes the steps one by one.
  On the receiver's side `RecvEarly` is `Hold` and `RecvNext` is `Show`, where
  `DrainStops` gives the promise that no message whose turn it is stays behind
  (`ReceiverServes`); all other steps leave what the receiver holds alone
  (`ReceiverStays`). On the sender's side a failed `sendChat` speaks of the last
  message, because `sendMu` keeps a second one out (`SendsLast`); a pass that gives
  up finds its entry still pending; and an acknowledgement that is read is of a
  message the receiver holds, which is `AckMeansKept` (`SenderServes`).
  `SettledIsDelivered` is the safety half of `DeliveredOrKnown`: when nothing is
  pending, the first message that was not delivered, if there is one, is no
  acknowledged message, so it has another outcome.
* `ConnectionApprovalProofs`. `NumbersDistinct` needs to know that the counter is
  above every number in use, and `CleanAtRest` that whatever is in the tables
  belongs to a handler in progress (`Owned`). `Fresh` bounds the counter by the
  requests that have arrived. `YesKept` follows a yes from the user through the
  responder, the channel and the handler to the session. `InnerStep`, `ArriveStep`
  and `CleanupStep` are the three ways a step can treat the tables. From the
  conjunction follow `TypeCorrect`, `DistinctNumbers`, `Reachable`, `NothingLeft`
  and `YesBeforeSession`, for any number of peers, requests, answers and tabs.
* `HandshakeProofs`. `Agreement` relates the two ends, and all an end sees is lines
  that the medium may have changed. `Signatures` is what makes it inductive: a
  signature on its way to an end is by the other end, over the transcript that this
  end fixed before it signed. An end that accepts one therefore has the other's view
  of the transcript; as the two keys differ (`Setting`), equal sets of keys mean
  that each has the other's. `Oriented` says that a session comes from that
  transcript by role, and `KeysAreOpposite` follows.
  `Undropped` is the safety part of `UndisturbedWorks`: while nothing interferes, no
  end fails, the ends never wait for each other, and an end with nothing left to read
  has opened the other's first packet. Its invariant `Flow` counts the lines each end
  has written and read (`put`, `got`, from where the end is): what was written and not
  read is in the `bufio.Reader` and on the stream, in order and unchanged
  (`InOrder`), and the `bufio.Reader` holds nothing while lines are still read by the
  byte (`Knows`). So each line a reader takes is the one it waits for; a signature is
  only written by an end that has read the key, and therefore verifies.
* `StreamManagerProofs`. `RegisteredAlwaysRead` holds step by step: `AddStream`
  starts the reader, and a `readLoop` that ends forgets the peer first. For
  `OrderPerReset` taking a number, showing the message and draining the buffer are
  separate steps, so the invariant has to say what holds between them. A message's
  number is fixed when it is tracked, and a `readLoop` that handles a message has one
  (`Sending`, `Held` and the type of `chan`); the buffer keeps a message under its
  own number (`Buffered`). If the last reset met no loop in the middle of a message,
  then only the loop of the registered stream works with the numbers (`Alone`): the
  others skip what they read, because they decrypt with another session. So at most
  one message is between its number and its showing, and `recvSeq` counts what was
  shown since the reset together with that one (`Counted`). `HandStep`, `TakeStep`,
  `ShowStep` and `DoneStep` are the four parts of a message's way; `Removed` and
  `QuietKeeps` are for the resets and for everything else.
* `WebBridgeProofs`. `NewestSeen` and `RequestSeen` speak of tabs that read; the
  invariant says the same of a tab from its registration on (`ListKnown`,
  `RequestsKnown`): what it has to know it was sent, or some goroutine has it still
  to send. Each step is shown to leave every goroutine with what it had to bring,
  or to have brought it. `Bounded` (nothing newer than the newest list is sent) and
  `Served` (a tab with its initial state is registered) are needed for a broadcast
  to reach it. For any number of tabs, goroutines, requests and changes.
  For `OnlyJam` a second invariant, `Locks`, says where the holders of `clientsMu`
  are: whoever announced `Lock` is still waiting for it, and whoever holds the read
  lock is in its broadcast. Without a writer every busy goroutine can go on; with
  one and no reader the writer can; with readers, none of which has a tab left to
  look up, a reader can. `JamIsFinal` shows that the remaining case has no way out:
  it stays, and no tab is added, taken out or told anything again.
* `HistoryStoreProofs`. The lock determines where every goroutine is (`LockHolds`);
  a goroutine under the lock writes what the file holds and its own message; every
  version a power failure may bring back is whole, unless there was damage, and has
  each message once and only saved ones (`VersionsSound`); a saved message is in the
  file unless a clear or a power failure excused it (`SavedKept`). From it follow
  `NeverTorn`, `NothingLost`, `ClearsAreFinal` and, as an action property,
  `UnreadableKept`. `SaveIsAtomic` is the refinement of `HistoryLog`: by `LockHolds`
  the rename writes the file as it is at that moment with one message more, so the
  save seems to happen there at once.
* `LocalStoreProofs`. First what the calls make of a list, for lists of any length:
  every finite set of naturals can be sorted (by a least set that cannot), keeping
  some positions keeps the entries there and no others (`KeptGood`), and `Upsert`,
  both removals and the sorted markers change what the list says of one peer
  (`Changed`) and give no peer two entries. `ResultPromised` concludes that what a
  call saves is what it promised. The invariant then says that the lock is held from
  the load to the return (`Locked`), that the loaded list is what the calls before
  amount to (`Loaded`), that the file says the same unless a call is writing it
  (`Says`), and who may have torn it (`OnDisk`, `Torn`). `OneEntryEach` and
  `NothingForgotten` follow.
* `Envelope` (in `ChatTransportProofs`). Facts about single calls, from arithmetic
  on clocks and lengths. `StaysValid` and `CatchesUp`: `Validate` is monotone in the
  clock, so a retransmission is never refused by its own sender, and a refusal for
  the time stamp passes. `SkewTolerated`: sender and receiver may differ by up to
  `MaxFutureSkew`. `OwnFits` and `OnlyTooBigRefused`: for the bodies the program
  builds itself the three limits fit together, which is why `ChatTransport` needs
  one kind of text that is refused. `PeersAgree`, `NoForeignEnvelope`,
  `NumberSymmetric` and `NumberChanges` rest on two lemmas about sorting a pair. The
  length of a marshalled envelope is bounded by `Marshalled` (six bytes for a byte
  of an identifier and for a byte of the body that has to be escaped, 128 for the
  rest).

Only model-checked: every liveness property, because the prover does not handle
fairness (of `UndisturbedWorks` and `DeliveredOrKnown` the safety part is proved).
`Discovery` and `CommandLine` have liveness properties only.

## 5. Not modelled

* The browser client: one thread that renders what it is sent and keeps no state
  of the core.
* The key file, flags and node creation: sequential I/O before anything runs. A
  crash while the key is written leaves a file that the next start refuses.
* `/latencytest` and `/concurrenttest`: they measure and keep nothing.
* Flow control: a peer that stops reading holds `writeMu`, and a tab that stops
  reading holds up a broadcast. libp2p and WebSocket writes always return here.
* Whether a message that is being saved while a tab connects is seen by that tab:
  `HistoryStore` and `WebBridge` are not composed.
* Advertising, authorisation of WebSockets, printing, libp2p itself and the
  cryptographic primitives.

## 6. Plan

Done: all modules of section 2 and the proofs of section 4. Every state invariant
and every refinement a run checks is a theorem.

Open: the composition of `HistoryStore` and `WebBridge` (see section 5), and flow
control, which would make `writeMu` and the mutex of one tab's connection matter.
