----------------------------- MODULE HistoryLog -----------------------------
(***************************************************************************)
(* What the history file promises to the goroutines that save into it: a   *)
(* log to which a message is appended in one step, or not at all.  A       *)
(* machine that fails may go back to a version since the last flush, and   *)
(* nothing but a clear touches a log that cannot be read.  HistoryStore is *)
(* shown to implement this module.                                         *)
(***************************************************************************)
EXTENDS Integers, Sequences

CONSTANT Msgs   \* the messages of the conversation

VARIABLES file,      \* the log, readable or not
          versions,  \* what a failure of the machine may leave of it
          saved      \* the messages that were ever saved

lvars == <<file, versions, saved>>

Log(msgs) == [state |-> "good", msgs |-> msgs]
Unreadable == [state |-> "bad", msgs |-> <<>>]

LInit == file = Log(<<>>) /\ versions = {Log(<<>>)} /\ saved = {}

Replace(f) == file' = f /\ versions' = versions \cup {f}

\* A message is saved once, after all that are there.
Save(m) == /\ m \notin saved /\ file.state = "good"
           /\ Replace(Log(Append(file.msgs, m)))
           /\ saved' = saved \cup {m}

Clear == Replace(Log(<<>>)) /\ UNCHANGED saved

\* The machine fails, or the log reaches the disk.
FallBack == file' \in versions /\ versions' = {file'} /\ UNCHANGED saved

\* Damage from outside.
Spoil == file' = Unreadable /\ versions' = {Unreadable} /\ UNCHANGED saved

LNext == (\E m \in Msgs : Save(m)) \/ Clear \/ FallBack \/ Spoil

LSpec == LInit /\ [][LNext]_lvars
=============================================================================
