---------------------------- MODULE HistoryStore ----------------------------
(***************************************************************************)
(* The encrypted history file of one conversation (storage/history.go) and *)
(* the goroutines that save into it (main.go, web.go): SaveMessage reads   *)
(* the whole file, appends, writes a temporary file, syncs it and renames  *)
(* it over the old one, all under HistoryStore.mu.  The process may crash  *)
(* and the power may fail between any two steps.                           *)
(*                                                                         *)
(* A file is the messages it decrypts to, or it is bad: readFile returns   *)
(* an error.  A file that does not exist reads like an empty one.          *)
(***************************************************************************)
EXTENDS Integers, Sequences, FiniteSets

CONSTANTS Msgs,       \* the messages of the conversation
          MaxFaults   \* bound on crashes, power failures and damage together

ASSUME FaultsAssumption == MaxFaults \in Nat
ASSUME FreeAssumption == "free" \notin Msgs

VARIABLES step,      \* step[m]: where the SaveMessage goroutine of m is
          buf,       \* buf[m]: the messages it will write
          mu,        \* the goroutine that holds HistoryStore.mu, or "free"
          file,      \* what readFile finds
          versions,  \* what it may find after a power failure
          cleared,   \* messages that were in the file when it was cleared
          excused,   \* saved messages that a fault or a clear took away
          damage,    \* "yes" once something outside damaged the file
          faults

disk  == <<file, versions>>
notes == <<cleared, excused, damage, faults>>
vars  == <<step, buf, mu, disk, notes>>

Good(msgs) == [state |-> "good", msgs |-> msgs]
Bad == [state |-> "bad", msgs |-> <<>>]
Contents(f) == {f.msgs[i] : i \in DOMAIN f.msgs}

Init ==
  /\ step = [m \in Msgs |-> "none"] /\ buf = [m \in Msgs |-> <<>>]
  /\ mu = "free"
  /\ file = Good(<<>>) /\ versions = {Good(<<>>)}
  /\ cleared = {} /\ excused = {} /\ damage = "no" /\ faults = 0

-----------------------------------------------------------------------------
(* SaveMessage.                                                            *)

\* A message was sent or delivered: HandleInput or addMessage starts a
\* goroutine to save it.
Spawn(m) ==
  /\ step[m] = "none"
  /\ step' = [step EXCEPT ![m] = "queued"]
  /\ UNCHANGED <<buf, mu, disk, notes>>

\* Slips: a read error is ignored (DamageKept); what was read is not kept
\* (NoLostUpdate).
SaveReadUnchecked(m) ==
  /\ step[m] = "queued" /\ mu = "free"
  /\ mu' = m
  /\ buf' = [buf EXCEPT ![m] = Append(file.msgs, m)]
  /\ step' = [step EXCEPT ![m] = "read"]
  /\ UNCHANGED <<disk, notes>>

SaveReadFresh(m) ==
  /\ step[m] = "queued" /\ mu = "free" /\ file.state = "good"
  /\ mu' = m
  /\ buf' = [buf EXCEPT ![m] = <<m>>]
  /\ step' = [step EXCEPT ![m] = "read"]
  /\ UNCHANGED <<disk, notes>>

\* The lock is taken and the file read.
SaveRead(m) ==
  /\ step[m] = "queued" /\ mu = "free" /\ file.state = "good"
  /\ mu' = m
  /\ buf' = [buf EXCEPT ![m] = Append(file.msgs, m)]
  /\ step' = [step EXCEPT ![m] = "read"]
  /\ UNCHANGED <<disk, notes>>

\* readFile fails: the file is left as it is and the error returned, which the
\* goroutine drops.
SaveUnreadable(m) ==
  /\ step[m] = "queued" /\ mu = "free" /\ file.state = "bad"
  /\ step' = [step EXCEPT ![m] = "failed"]
  /\ UNCHANGED <<buf, mu, disk, notes>>

\* writeFile: the temporary file is created and written.
SaveWrite(m) ==
  /\ step[m] = "read"
  /\ step' = [step EXCEPT ![m] = "written"]
  /\ UNCHANGED <<buf, mu, disk, notes>>

SaveSync(m) ==
  /\ step[m] = "written"
  /\ step' = [step EXCEPT ![m] = "synced"]
  /\ UNCHANGED <<buf, mu, disk, notes>>

\* Rename(new, old): until the directory reaches the disk, a power failure
\* may bring back any version since the last time it did.
Rename(f) == file' = f /\ versions' = versions \cup {f}

\* Slip for WholeFile: the file is renamed without having been synced, so what
\* a power failure leaves is not the whole file.
SaveRenameUnsynced(m) ==
  /\ step[m] = "written"
  /\ file' = Good(buf[m]) /\ versions' = versions \cup {Bad}
  /\ mu' = "free"
  /\ step' = [step EXCEPT ![m] = "saved"]
  /\ UNCHANGED <<buf, notes>>

\* The temporary file replaces the history file; SaveMessage returns.
SaveRename(m) ==
  /\ step[m] = "synced"
  /\ Rename(Good(buf[m]))
  /\ mu' = "free"
  /\ step' = [step EXCEPT ![m] = "saved"]
  /\ UNCHANGED <<buf, notes>>

\* Creating, writing, syncing or renaming fails: the deferred calls remove the
\* temporary file and unlock.
SaveFails(m) ==
  /\ step[m] \in {"read", "written", "synced"}
  /\ step' = [step EXCEPT ![m] = "failed"]
  /\ mu' = "free"
  /\ UNCHANGED <<buf, disk, notes>>

\* Slip for ClearIsFinal: the file is removed without taking the lock.
ClearHistoryUnlocked ==
  /\ file # Good(<<>>)
  /\ Rename(Good(<<>>))
  /\ cleared' = cleared \cup Contents(file)
  /\ excused' = excused \cup Contents(file)
  /\ UNCHANGED <<step, buf, mu, damage, faults>>

ClearHistory ==
  /\ mu = "free" /\ file # Good(<<>>)
  /\ Rename(Good(<<>>))
  /\ cleared' = cleared \cup Contents(file)
  /\ excused' = excused \cup Contents(file)
  /\ UNCHANGED <<step, buf, mu, damage, faults>>

-----------------------------------------------------------------------------
(* The machine.                                                            *)

Fault == faults < MaxFaults /\ faults' = faults + 1

\* The goroutines and the lock are gone; a restarted program does not save
\* what was queued.
Restart ==
  /\ mu' = "free"
  /\ step' = [m \in Msgs |-> IF step[m] \in {"queued", "read", "written", "synced"}
                             THEN "lost" ELSE step[m]]
  /\ UNCHANGED buf

Crash == Fault /\ Restart /\ UNCHANGED <<disk, cleared, excused, damage>>

\* A power failure may also undo renames and removals.
PowerFailure ==
  /\ Fault /\ Restart
  /\ file' \in versions
  /\ versions' = {file'}
  /\ excused' = excused \cup (Contents(file) \ Contents(file'))
  /\ cleared' = cleared \ Contents(file')
  /\ UNCHANGED damage

\* The directory reaches the disk.
Flush ==
  /\ versions # {file}
  /\ versions' = {file}
  /\ UNCHANGED <<step, buf, mu, file, notes>>

\* Something outside the program damages the file, between two calls.
Damage ==
  /\ Fault /\ file.state = "good" /\ file.msgs # <<>> /\ mu = "free"
  /\ file' = Bad /\ versions' = {Bad}
  /\ excused' = excused \cup Contents(file)
  /\ damage' = "yes"
  /\ UNCHANGED <<step, buf, mu, cleared>>

Save(m) == \/ SaveRead(m) \/ SaveUnreadable(m) \/ SaveWrite(m) \/ SaveSync(m)
           \/ SaveRename(m) \/ SaveFails(m)

Next == \/ \E m \in Msgs : Spawn(m) \/ Save(m)
        \/ ClearHistory \/ Crash \/ PowerFailure \/ Flush \/ Damage

Spec == Init /\ [][Next]_vars

-----------------------------------------------------------------------------
\* No crash, power failure or error of SaveMessage leaves a file that does not
\* decrypt: only damage from outside does.
WholeFile == file.state = "bad" => damage = "yes"

\* A message whose SaveMessage succeeded is in the file exactly once, unless a
\* clear, a power failure or damage took it: concurrent saves lose nothing.
NoLostUpdate ==
  /\ \A m \in Msgs : step[m] = "saved" => m \in Contents(file) \cup excused
  /\ \A i, j \in DOMAIN file.msgs : file.msgs[i] = file.msgs[j] => i = j

\* What was cleared does not come back with a save that was under way when the
\* history was cleared.
ClearIsFinal == cleared \cap Contents(file) = {}

\* An unreadable file is never replaced by a save: it stays until it is
\* cleared.
DamageKept == [][file = Bad => file' = Bad \/ file' = Good(<<>>)]_vars

\* The file as a log.
History == INSTANCE HistoryLog WITH saved <- {m \in Msgs : step[m] = "saved"}

\* SaveMessage is atomic to everybody else: although it reads, writes, syncs and
\* renames in steps between which others run and the machine stops, the file
\* changes as a log that is appended to in one step does.
ImplementsLog == History!LSpec
=============================================================================
