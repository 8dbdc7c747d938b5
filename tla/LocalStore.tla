----------------------------- MODULE LocalStore ------------------------------
(***************************************************************************)
(* The two JSON files beside the history (storage/peers.go and             *)
(* storage/verifications.go): trusted peers, rewritten in place, and       *)
(* verification markers, replaced through a temporary file.  Which of the  *)
(* two a behaviour is about is chosen at the start; they share nothing.    *)
(* The input thread of the CLI and the readers of the browser tabs call    *)
(* them.  The process or the machine may stop at any point.                *)
(*                                                                         *)
(* What is broadcast to the tabs after a call changes no file and is left  *)
(* out; so are the time stamps of the entries.                             *)
(***************************************************************************)
EXTENDS Integers, Sequences, FiniteSets

CONSTANTS NumIds,     \* number of peers
          Nicks,      \* nicknames
          Tabs,       \* browser tabs
          MaxCalls,   \* bound on the calls
          MaxFaults   \* bound on the crashes, power failures and I/O errors

ASSUME BoundsAssumption == {NumIds, MaxCalls, MaxFaults} \subseteq Nat
ASSUME UsersAssumption == Tabs \cap {"cli", "none"} = {}

VARIABLES kind,     \* "peers" or "verified"
          file,     \* "absent", "torn" (does not parse) or "whole"
          list,     \* its entries when it is whole
          flushed,  \* lists a power failure may bring back (verified)
          mu,       \* the caller that holds the store's lock, or "none"
          unread,   \* the holder of the lock if its read failed, or "none"
          call,     \* call[u]: what caller u is doing
          ledger,   \* peer |-> nickname: what the completed calls amount to
          calls, faults

disk == <<file, list, flushed>>
lock == <<mu, unread>>
vars == <<kind, disk, lock, call, ledger, calls, faults>>

Ids == 1..NumIds
Users == {"cli"} \cup Tabs
Entry(i, x) == [id |-> i, nick |-> x]
IdsOf(l) == {l[k].id : k \in DOMAIN l}

\* A call: how far it is, what it does to which peer or position, and the list
\* it loaded.
Call(at, op, id, nick, l) == [at |-> at, op |-> op, id |-> id, nick |-> nick, list |-> l]
Idle == Call("idle", "none", 0, "", <<>>)

\* What a list says of the peers.
NickIn(l, i) == IF i \in IdsOf(l) THEN l[CHOOSE k \in DOMAIN l : l[k].id = i].nick ELSE ""
LedgerOf(l) == [i \in Ids |-> NickIn(l, i)]
Nothing == LedgerOf(<<>>)

Init ==
  /\ kind \in {"peers", "verified"}
  /\ file = "absent" /\ list = <<>> /\ flushed = {<<>>}
  /\ mu = "none" /\ unread = "none" /\ call = [u \in Users |-> Idle]
  /\ ledger = Nothing /\ calls = 0 /\ faults = 0

-----------------------------------------------------------------------------
(* What a call makes of the list it loaded.                                 *)

\* Slip for OneEntryPerPeer: an entry is always appended.
UpsertAppends(l, i, x) == Append(l, Entry(i, x))

\* SavePeer: the entry of the peer gets the nickname, or one is appended.
Upsert(l, i, x) ==
  IF i \in IdsOf(l)
  THEN [k \in DOMAIN l |-> IF l[k].id = i THEN Entry(i, x) ELSE l[k]]
  ELSE Append(l, Entry(i, x))

\* The numbers of S in ascending order.
Ascending(S, f) == /\ \A j, k \in DOMAIN f : j < k => f[j] < f[k]
                   /\ \A x \in S : \E j \in DOMAIN f : f[j] = x
Sorted(S) == CHOOSE f \in [1..Cardinality(S) -> S] : Ascending(S, f)

\* RemovePeerByNum and RemovePeerByID keep some positions, in their order.
Kept(l, S) == [j \in 1..Cardinality(S) |-> l[Sorted(S)[j]]]
WithoutNum(l, n) == Kept(l, DOMAIN l \ {n})
Without(l, i) == Kept(l, {k \in DOMAIN l : l[k].id # i})

\* SetVerified rebuilds the file from a map, sorted by peer.
SortedMarks(S) == [j \in 1..Cardinality(S) |-> Entry(Sorted(S)[j], "verified")]

\* The list the call saves.
Result(u) ==
  LET c == call[u]
  IN  CASE c.op = "save"     -> Upsert(c.list, c.id, c.nick)
        [] c.op = "remove"   -> Without(c.list, c.id)
        [] c.op = "mark"     -> SortedMarks(IdsOf(c.list) \cup {c.id})
        [] c.op = "unmark"   -> SortedMarks(IdsOf(c.list) \ {c.id})
        [] c.op = "number"   -> WithoutNum(c.list, c.id)

-----------------------------------------------------------------------------
(* The calls.                                                               *)

Start(u, c) == /\ call[u].at = "idle" /\ calls < MaxCalls /\ calls' = calls + 1
               /\ call' = [call EXCEPT ![u] = c]
               /\ UNCHANGED <<kind, disk, lock, ledger, faults>>

\* /save and save_peer.
SavePeer(u, i, x) ==
  kind = "peers" /\ Start(u, Call("lock", "save", i, x, <<>>))

\* remove_peer.
RemovePeerByID(u, i) ==
  kind = "peers" /\ u # "cli"
  /\ Start(u, Call("lock", "remove", i, "", <<>>))

\* The remove command: the position is looked up under the lock.
RemovePeerByNum(n) ==
  kind = "peers" /\ Start("cli", Call("lock", "number", n, "", <<>>))

\* renameSavedPeer: LoadPeers, with the lock for itself, then SavePeer.
RenamePeer(n, x) ==
  kind = "peers" /\ Start("cli", Call("pick", "save", n, x, <<>>))

PickNumber(u) ==
  /\ call[u].at = "pick" /\ mu = "none"
  /\ call' = [call EXCEPT ![u] =
       IF file # "torn" /\ call[u].id \in DOMAIN list
       THEN Call("lock", "save", list[call[u].id].id, call[u].nick, <<>>) ELSE Idle]
  /\ UNCHANGED <<kind, disk, lock, ledger, calls, faults>>

\* /verify ok, /verify remove and set_verification.
SetVerified(u, i, on) ==
  kind = "verified"
  /\ Start(u, Call("lock", IF on THEN "mark" ELSE "unmark", i, "", <<>>))

-----------------------------------------------------------------------------
(* Under the lock.                                                          *)

\* The calls that give up when the file does not load, and the position test.
Refused(u) == \/ call[u].op \in {"remove", "number"} /\ file = "torn"
              \/ call[u].op = "number" /\ call[u].id \notin DOMAIN list

\* The call goes on, with list l.
Advance(u, at, l) ==
  call' = [call EXCEPT ![u] = Call(at, call[u].op, call[u].id, call[u].nick, l)]

\* Slip for NoLostEntry: the file is read without waiting for the lock.
LoadUnlocked(u) ==
  /\ call[u].at = "lock" /\ ~Refused(u)
  /\ mu' = u
  /\ Advance(u, "save", IF file = "whole" THEN list ELSE <<>>)
  /\ UNCHANGED <<kind, disk, unread, ledger, calls, faults>>

\* load: a missing file is an empty list; SavePeer and SetVerified take one that
\* does not parse for empty too.
Load(u) ==
  /\ call[u].at = "lock" /\ mu = "none" /\ ~Refused(u)
  /\ mu' = u
  /\ Advance(u, "save", IF file = "whole" THEN list ELSE <<>>)
  /\ UNCHANGED <<kind, disk, unread, ledger, calls, faults>>

LoadRefused(u) ==
  /\ call[u].at = "lock" /\ mu = "none" /\ Refused(u)
  /\ call' = [call EXCEPT ![u] = Idle]
  /\ UNCHANGED <<kind, disk, lock, ledger, calls, faults>>

\* os.WriteFile truncates the file of trusted peers before it writes.
Truncate(u) ==
  /\ call[u].at = "save" /\ kind = "peers"
  /\ Advance(u, "write", call[u].list)
  /\ file' = "torn" /\ list' = <<>>
  /\ UNCHANGED <<kind, flushed, lock, ledger, calls, faults>>

\* The markers go to a temporary file, which is synced; the file is not touched.
WriteTemp(u) ==
  /\ call[u].at = "save" /\ kind = "verified"
  /\ Advance(u, "write", call[u].list)
  /\ UNCHANGED <<kind, disk, lock, ledger, calls, faults>>

\* What the call promises, as a change of the ledger: of an empty one if the
\* call took a file it could not read for empty.
Promise(u) ==
  LET c == call[u]
      i == IF c.op = "number" THEN c.list[c.id].id ELSE c.id
      x == CASE c.op = "save" -> c.nick [] c.op = "mark" -> "verified" [] OTHER -> ""
      before == IF unread = u THEN Nothing ELSE ledger
  IN  [before EXCEPT ![i] = x]

\* The write, or the rename, is done and the call returns.
Finish(u) ==
  /\ call[u].at = "write"
  /\ file' = "whole" /\ list' = Result(u)
  /\ flushed' = IF kind = "verified" THEN flushed \cup {Result(u)} ELSE flushed
  /\ ledger' = Promise(u) /\ mu' = "none" /\ unread' = "none"
  /\ call' = [call EXCEPT ![u] = Idle]
  /\ UNCHANGED <<kind, calls, faults>>

-----------------------------------------------------------------------------
(* Faults.                                                                  *)

Fault == faults < MaxFaults /\ faults' = faults + 1

\* What is left of the ledger: a file that does not parse has lost everything.
Left == IF file = "torn" THEN Nothing ELSE ledger

\* ReadFile fails, and not for want of a file: the removals and the rename give
\* up ...
LoadError(u) ==
  /\ Fault /\ mu = "none" /\ file # "absent"
  /\ \/ call[u].at = "pick"
     \/ call[u].at = "lock" /\ call[u].op \in {"remove", "number"}
  /\ call' = [call EXCEPT ![u] = Idle]
  /\ UNCHANGED <<kind, disk, lock, ledger, calls>>

\* ... and SavePeer and SetVerified go on as if the file were empty.
LoadIgnored(u) ==
  /\ Fault /\ call[u].at = "lock" /\ mu = "none" /\ file # "absent"
  /\ call[u].op \in {"save", "mark", "unmark"}
  /\ mu' = u /\ unread' = u /\ Advance(u, "save", <<>>)
  /\ UNCHANGED <<kind, disk, ledger, calls>>

\* A write or sync fails and the call returns the error: what was truncated
\* stays so.
SaveError(u) ==
  /\ Fault /\ call[u].at \in {"save", "write"}
  /\ mu' = "none" /\ unread' = "none" /\ call' = [call EXCEPT ![u] = Idle]
  /\ ledger' = Left
  /\ UNCHANGED <<kind, disk, calls>>

Restart == mu' = "none" /\ unread' = "none" /\ call' = [u \in Users |-> Idle]

\* The process stops.
Crash == /\ Fault /\ Restart
         /\ ledger' = Left
         /\ UNCHANGED <<kind, disk, calls>>

\* The machine stops.  Trusted peers are not synced: the file may be torn.  The
\* markers are synced and the directory is not: a version may come back.
PowerFail ==
  /\ Fault /\ Restart
  /\ \/ /\ kind = "peers"
        /\ \/ file' = "torn" /\ list' = <<>> /\ ledger' = Nothing
           \/ UNCHANGED <<file, list>> /\ ledger' = Left
     \/ /\ kind = "verified" /\ list' \in flushed /\ ledger' = LedgerOf(list')
        /\ file' = IF file = "whole" /\ list' = <<>> THEN "absent" ELSE file
  /\ flushed' = {list'}
  /\ UNCHANGED <<kind, calls>>

Work(u) == PickNumber(u) \/ Load(u) \/ LoadRefused(u) \/ Truncate(u) \/ WriteTemp(u) \/ Finish(u)

Next ==
  \/ \E u \in Users : \/ Work(u) \/ LoadError(u) \/ LoadIgnored(u) \/ SaveError(u)
                      \/ \E i \in Ids : \/ \E x \in Nicks : SavePeer(u, i, x)
                                        \/ RemovePeerByID(u, i)
                                        \/ \E on \in BOOLEAN : SetVerified(u, i, on)
  \/ \E n \in Ids : RemovePeerByNum(n) \/ \E x \in Nicks : RenamePeer(n, x)
  \/ Crash \/ PowerFail

Spec == Init /\ [][Next]_vars

-----------------------------------------------------------------------------
Lists == {list} \cup flushed \cup {call[u].list : u \in Users}

\* No peer has two entries, whatever saves, renames and removals of the CLI and
\* the tabs overlap.
OneEntryPerPeer ==
  \A l \in Lists : \A j, k \in DOMAIN l : l[j].id = l[k].id => j = k

\* At every moment a file that parses says exactly what the completed calls
\* amount to, whatever calls overlap and fail.  Entries are lost in three ways
\* only, which the ledger follows: a file torn by a crash, a failed write or a
\* power failure is empty to the calls that come after; a save or a marking that
\* ignored a read error leaves its own entry alone (peers.go:43,
\* verifications.go:43); and a power failure may bring an older set of markers
\* back.  A file does not parse only while it is written, or after a fault.
NoLostEntry ==
  IF file = "torn" THEN faults > 0 \/ mu # "none" ELSE LedgerOf(list) = ledger
=============================================================================
