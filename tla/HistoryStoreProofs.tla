------------------------- MODULE HistoryStoreProofs -------------------------
(* Safety of the history file, for any number of messages and faults.       *)
EXTENDS HistoryStore, SequenceTheorems, TLAPS

Files == [state : {"good", "bad"}, msgs : Seq(Msgs)]
Steps == {"none", "queued", "read", "written", "synced", "saved", "failed", "lost"}

TypeOK ==
  /\ step \in [Msgs -> Steps] /\ buf \in [Msgs -> Seq(Msgs)]
  /\ mu \in Msgs \cup {"free"}
  /\ file \in Files /\ versions \subseteq Files
  /\ damage \in {"yes", "no"} /\ cleared \subseteq Msgs

\* Between the read and the rename of its file a goroutine holds the lock.
UnderLock(m) == step[m] \in {"read", "written", "synced"}

\* The lock is what makes read, append and rename one: whoever is between them
\* holds it, and what it will write is the file as it is now and its message.
LockHolds ==
  \A m \in Msgs : UnderLock(m) =>
    /\ mu = m
    /\ file.state = "good" /\ buf[m] = Append(file.msgs, m)

Distinct(s) == \A i, j \in DOMAIN s : s[i] = s[j] => i = j

\* A version of the file is a whole one, unless there was damage; it has each
\* message once, and only messages that were saved.
SoundVersion(v) ==
  /\ v.state = "bad" => v = Bad /\ damage = "yes"
  /\ Distinct(v.msgs)
  /\ \A m \in Contents(v) : step[m] = "saved"

\* The file is one of the versions, and damage leaves no other.
VersionsSound == /\ file \in versions
                 /\ file.state = "bad" => versions = {file}
                 /\ \A v \in versions : SoundVersion(v)

SavedKept == \A m \in Msgs : step[m] = "saved" => m \in Contents(file) \cup excused
ClearedWasSaved == \A m \in cleared : step[m] = "saved"

IInv == TypeOK /\ LockHolds /\ VersionsSound /\ SavedKept /\ ClearedWasSaved /\ ClearIsFinal

-----------------------------------------------------------------------------
(* Files.                                                                   *)

\* What the appending of SaveMessage makes of a file without the message: every
\* message still once, and the new one.
LEMMA AppendOnce ==
  ASSUME NEW s \in Seq(Msgs), NEW m \in Msgs, Distinct(s), \A i \in DOMAIN s : s[i] # m
  PROVE  /\ Append(s, m) \in Seq(Msgs)
         /\ Distinct(Append(s, m))
         /\ Contents(Good(Append(s, m))) = Contents(Good(s)) \cup {m}
<1>1. /\ Append(s, m) \in Seq(Msgs) /\ Len(Append(s, m)) = Len(s) + 1
      /\ \A i \in 1..Len(s) : Append(s, m)[i] = s[i]
      /\ Append(s, m)[Len(s) + 1] = m /\ Len(s) \in Nat
      /\ DOMAIN s = 1..Len(s)
  BY AppendProperties, LenProperties
<1>2. DOMAIN Append(s, m) = 1..(Len(s) + 1)
  BY <1>1, LenProperties
<1>3. Distinct(Append(s, m))
  BY <1>1, <1>2 DEF Distinct
<1>4. Contents(Good(Append(s, m))) = Contents(Good(s)) \cup {m}
  BY <1>1, <1>2 DEF Contents, Good
<1> QED
  BY <1>1, <1>3, <1>4

\* The empty file.
LEMMA EmptyFile == Good(<<>>) \in Files /\ Bad \in Files
                   /\ Contents(Good(<<>>)) = {} /\ Contents(Bad) = {}
                   /\ Distinct(<<>>)
BY DEF Good, Bad, Files, Contents, Distinct

\* Versions stay sound when no file is written and saved messages stay saved.
LEMMA VersionsKept ==
  ASSUME IInv, TypeOK', versions' \subseteq versions, file' \in versions',
         file' = file \/ versions' = {file'},
         damage = "yes" => damage' = "yes",
         \A m \in Msgs : step[m] = "saved" => step'[m] = "saved"
  PROVE  VersionsSound'
<1>1. \A v \in versions' : SoundVersion(v)'
  <2> SUFFICES ASSUME NEW v \in versions' PROVE SoundVersion(v)'
    OBVIOUS
  <2>1. SoundVersion(v) /\ v \in Files
    BY DEF IInv, VersionsSound, TypeOK
  <2>2. \A m \in Contents(v) : m \in Msgs
    BY <2>1, LenProperties DEF Contents, Files
  <2> QED
    BY <2>1, <2>2 DEF SoundVersion
<1>2. file'.state = "bad" => versions' = {file'}
  BY DEF IInv, VersionsSound
<1> QED
  BY <1>1, <1>2 DEF VersionsSound

-----------------------------------------------------------------------------
(* Steps.                                                                   *)

\* The initial state has the invariant.
LEMMA InitInv == Init => IInv
BY FreeAssumption, EmptyFile DEF Init, IInv, TypeOK, Steps, LockHolds, UnderLock,
   VersionsSound, SoundVersion, SavedKept, ClearedWasSaved, ClearIsFinal, Good, Bad

\* Every step keeps the types.
LEMMA TypeStep == IInv /\ [Next]_vars => TypeOK'
<1> SUFFICES ASSUME IInv, [Next]_vars PROVE TypeOK'
  OBVIOUS
<1> USE FreeAssumption, EmptyFile DEF IInv, TypeOK, Steps, disk, notes
<1>1. ASSUME NEW m \in Msgs, Spawn(m) \/ SaveUnreadable(m) \/ SaveWrite(m)
                             \/ SaveSync(m) \/ SaveFails(m)
      PROVE  TypeOK'
  BY <1>1 DEF Spawn, SaveUnreadable, SaveWrite, SaveSync, SaveFails
<1>2. ASSUME NEW m \in Msgs, SaveRead(m) PROVE TypeOK'
  <2>1. Append(file.msgs, m) \in Seq(Msgs)
    BY AppendProperties DEF Files
  <2> QED
    BY <1>2, <2>1 DEF SaveRead
<1>3. ASSUME NEW m \in Msgs, SaveRename(m) PROVE TypeOK'
  <2>1. Good(buf[m]) \in Files
    BY DEF Good, Files
  <2> QED
    BY <1>3, <2>1 DEF SaveRename, Rename
<1>4. Contents(file) \subseteq Msgs
  BY LenProperties DEF Contents, Files
<1>5. CASE ClearHistory
  BY <1>4, <1>5 DEF ClearHistory, Rename
<1>6. CASE Crash
  BY <1>6 DEF Crash, Restart, Fault
<1>7. CASE PowerFailure
  BY <1>7 DEF PowerFailure, Restart, Fault
<1>8. CASE Flush \/ Damage
  BY <1>8 DEF Flush, Damage, Fault
<1>9. CASE UNCHANGED vars
  BY <1>9 DEF vars
<1> QED
  BY <1>1, <1>2, <1>3, <1>5, <1>6, <1>7, <1>8, <1>9 DEF Next, Save

\* The steps of SaveMessage up to the rename write no file.
LEMMA PrepareStep ==
  ASSUME IInv, TypeOK', NEW m \in Msgs,
         Spawn(m) \/ SaveRead(m) \/ SaveUnreadable(m) \/ SaveWrite(m) \/ SaveSync(m)
           \/ SaveFails(m)
  PROVE  IInv'
<1> USE DEF Spawn, SaveRead, SaveUnreadable, SaveWrite, SaveSync, SaveFails, disk, notes
<1>1. /\ file' = file /\ versions' = versions /\ UNCHANGED notes
      /\ \A n \in Msgs : step[n] = "saved" <=> step'[n] = "saved"
  BY DEF IInv, TypeOK
<1>2. VersionsSound'
  BY <1>1, VersionsKept DEF IInv, VersionsSound
<1>3. LockHolds'
  BY <1>1, FreeAssumption DEF IInv, TypeOK, LockHolds, UnderLock
<1>4. (SavedKept /\ ClearedWasSaved /\ ClearIsFinal)'
  BY <1>1 DEF IInv, TypeOK, SavedKept, ClearedWasSaved, ClearIsFinal, Contents
<1> QED
  BY <1>2, <1>3, <1>4 DEF IInv

\* The rename: the new file is the old one and the message, which was in none of
\* the versions.
LEMMA RenameStep ==
  ASSUME IInv, TypeOK', NEW m \in Msgs, SaveRename(m)
  PROVE  IInv'
<1> USE DEF SaveRename, Rename, disk, notes
<1>1. /\ UnderLock(m) /\ mu = m /\ file.state = "good"
      /\ buf[m] = Append(file.msgs, m) /\ file \in Files
  BY DEF IInv, LockHolds, UnderLock, TypeOK
<1>2. /\ file' = Good(Append(file.msgs, m)) /\ versions' = versions \cup {file'}
      /\ step' = [step EXCEPT ![m] = "saved"] /\ step[m] = "synced" /\ UNCHANGED notes
  BY <1>1
<1>3. file = Good(file.msgs)
  BY <1>1 DEF Files, Good
<1>4. /\ Distinct(file.msgs) /\ file.msgs \in Seq(Msgs)
      /\ \A i \in DOMAIN file.msgs : file.msgs[i] # m
  BY <1>1, <1>2 DEF IInv, VersionsSound, SoundVersion, Contents, Files
<1>5. Distinct(file'.msgs) /\ Contents(file') = Contents(file) \cup {m}
  <2>1. /\ Distinct(Append(file.msgs, m))
        /\ Contents(Good(Append(file.msgs, m))) = Contents(Good(file.msgs)) \cup {m}
    BY <1>4, AppendOnce
  <2>2. file'.msgs = Append(file.msgs, m)
    BY <1>2 DEF Good
  <2>3. /\ Contents(file') = Contents(Good(Append(file.msgs, m)))
        /\ Contents(file) = Contents(Good(file.msgs))
    BY <1>2, <1>3, Zenon
  <2> QED
    BY <2>1, <2>2, <2>3
<1>6. \A n \in Msgs : step[n] = "saved" => step'[n] = "saved"
  BY <1>2 DEF IInv, TypeOK
<1>7. VersionsSound'
  <2>1. SoundVersion(file)' /\ file'.state = "good"
    <3>1. \A n \in Contents(file) : n \in Msgs /\ step[n] = "saved"
      BY <1>1, LenProperties DEF IInv, VersionsSound, SoundVersion, Contents, Files
    <3> QED
      BY <1>2, <1>5, <1>6, <3>1 DEF SoundVersion, Good, IInv, TypeOK
  <2>2. ASSUME NEW v \in versions PROVE SoundVersion(v)'
    <3>1. SoundVersion(v) /\ \A n \in Contents(v) : n \in Msgs
      BY LenProperties DEF IInv, VersionsSound, TypeOK, Contents, Files
    <3> QED
      BY <1>2, <1>6, <3>1 DEF SoundVersion
  <2> QED
    BY <1>2, <2>1, <2>2 DEF VersionsSound
<1>8. LockHolds'
  BY <1>1, <1>2, FreeAssumption DEF IInv, TypeOK, LockHolds, UnderLock
<1>9. (SavedKept /\ ClearedWasSaved /\ ClearIsFinal)'
  BY <1>2, <1>5, <1>6 DEF IInv, TypeOK, SavedKept, ClearedWasSaved, ClearIsFinal
<1> QED
  BY <1>7, <1>8, <1>9 DEF IInv

\* Removing the file, under the lock.
LEMMA ClearStep == IInv /\ TypeOK' /\ ClearHistory => IInv'
<1> SUFFICES ASSUME IInv, TypeOK', ClearHistory PROVE IInv'
  OBVIOUS
<1>1. /\ mu = "free" /\ mu' = mu /\ step' = step /\ buf' = buf /\ damage' = damage
      /\ file' = Good(<<>>) /\ versions' = versions \cup {Good(<<>>)}
      /\ cleared' = cleared \cup Contents(file) /\ excused' = excused \cup Contents(file)
  BY DEF ClearHistory, Rename
<1>2. Contents(file') = {}
  BY <1>1, EmptyFile
<1>3. VersionsSound'
  <2>1. SoundVersion(file)' /\ file'.state = "good"
    BY <1>1, <1>2, EmptyFile DEF SoundVersion, Good
  <2>2. \A v \in versions : SoundVersion(v)'
    BY <1>1 DEF IInv, VersionsSound, SoundVersion
  <2> QED
    BY <1>1, <2>1, <2>2 DEF VersionsSound
<1>4. LockHolds'
  BY <1>1, FreeAssumption DEF IInv, TypeOK, LockHolds, UnderLock
<1>5. (SavedKept /\ ClearedWasSaved /\ ClearIsFinal)'
  BY <1>1, <1>2 DEF IInv, VersionsSound, SoundVersion, SavedKept, ClearedWasSaved, ClearIsFinal
<1> QED
  BY <1>3, <1>4, <1>5 DEF IInv

\* A stop of the process or the machine: nobody is under the lock afterwards,
\* and what comes back was a version.
LEMMA StopStep ==
  ASSUME IInv, TypeOK', Restart, damage' = damage, file' \in versions',
         \/ /\ file' = file /\ versions' = versions
            /\ cleared' = cleared /\ excused' = excused
         \/ /\ versions' = {file'} /\ file' \in versions
            /\ excused' = excused \cup (Contents(file) \ Contents(file'))
            /\ cleared' = cleared \ Contents(file')
  PROVE  IInv'
<1>1. /\ \A m \in Msgs : step[m] = "saved" <=> step'[m] = "saved"
      /\ \A m \in Msgs : ~UnderLock(m)'
  BY DEF Restart, UnderLock, IInv, TypeOK, Steps
<1>2. VersionsSound'
  BY <1>1, VersionsKept
<1>3. LockHolds'
  BY <1>1 DEF LockHolds
<1>4. (SavedKept /\ ClearedWasSaved /\ ClearIsFinal)'
  BY <1>1 DEF IInv, TypeOK, SavedKept, ClearedWasSaved, ClearIsFinal
<1> QED
  BY <1>2, <1>3, <1>4 DEF IInv

\* The directory reaches the disk.
LEMMA FlushStep == IInv /\ TypeOK' /\ Flush => IInv'
<1> SUFFICES ASSUME IInv, TypeOK', Flush PROVE IInv'
  OBVIOUS
<1>1. versions' = {file'} /\ UNCHANGED <<step, buf, mu, file, notes>>
  BY DEF Flush
<1>2. VersionsSound'
  BY <1>1, VersionsKept DEF IInv, VersionsSound, notes
<1>3. (LockHolds /\ SavedKept /\ ClearedWasSaved /\ ClearIsFinal)'
  BY <1>1 DEF IInv, LockHolds, UnderLock, SavedKept, ClearedWasSaved, ClearIsFinal, notes
<1> QED
  BY <1>2, <1>3 DEF IInv

\* Damage from outside: an unreadable file and no other version.
LEMMA DamageStep == IInv /\ TypeOK' /\ Damage => IInv'
<1> SUFFICES ASSUME IInv, TypeOK', Damage PROVE IInv'
  OBVIOUS
<1>1. /\ mu = "free" /\ file' = Bad /\ versions' = {Bad} /\ damage' = "yes"
      /\ excused' = excused \cup Contents(file) /\ UNCHANGED <<step, buf, mu, cleared>>
  BY DEF Damage
<1>2. Contents(file') = {} /\ Distinct(file'.msgs)
  BY <1>1, EmptyFile DEF Bad
<1>3. VersionsSound'
  BY <1>1, <1>2 DEF VersionsSound, SoundVersion
<1>4. LockHolds'
  BY <1>1, FreeAssumption DEF IInv, TypeOK, LockHolds, UnderLock
<1>5. (SavedKept /\ ClearedWasSaved /\ ClearIsFinal)'
  BY <1>1, <1>2 DEF IInv, SavedKept, ClearedWasSaved, ClearIsFinal
<1> QED
  BY <1>3, <1>4, <1>5 DEF IInv

-----------------------------------------------------------------------------
(* The theorems.                                                            *)

\* A step keeps the invariant.
LEMMA InvStep == IInv /\ [Next]_vars => IInv'
<1> SUFFICES ASSUME IInv, [Next]_vars PROVE IInv'
  OBVIOUS
<1>1. TypeOK'
  BY TypeStep
<1>2. ASSUME NEW m \in Msgs, Spawn(m) \/ Save(m) PROVE IInv'
  BY <1>1, <1>2, PrepareStep, RenameStep DEF Save
<1>3. CASE Crash
  BY <1>1, <1>3, StopStep DEF Crash, disk, IInv, VersionsSound
<1>4. CASE PowerFailure
  BY <1>1, <1>4, StopStep DEF PowerFailure
<1>5. CASE UNCHANGED vars
  BY <1>1, <1>5 DEF vars, disk, notes, IInv, LockHolds, UnderLock, VersionsSound, SoundVersion,
     SavedKept, ClearedWasSaved, ClearIsFinal
<1> QED
  BY <1>1, <1>2, <1>3, <1>4, <1>5, ClearStep, FlushStep, DamageStep DEF Next

\* The invariant holds in every reachable state.
LEMMA Invariance == Spec => []IInv
BY InitInv, InvStep, PTL DEF Spec

\* Whatever saves, clears, crashes and power failures do, a history file that
\* does not decrypt was damaged from outside.
THEOREM NeverTorn == Spec => []WholeFile
<1>1. IInv => WholeFile
  BY DEF IInv, VersionsSound, SoundVersion, WholeFile
<1> QED
  BY <1>1, Invariance, PTL

\* Concurrent SaveMessage goroutines lose no message and write none twice.
THEOREM NothingLost == Spec => []NoLostUpdate
<1>1. IInv => NoLostUpdate
  BY DEF IInv, SavedKept, VersionsSound, SoundVersion, Distinct, NoLostUpdate
<1> QED
  BY <1>1, Invariance, PTL

\* A save that was under way does not bring back what ClearHistory removed.
THEOREM ClearsAreFinal == Spec => []ClearIsFinal
<1>1. IInv => ClearIsFinal
  BY DEF IInv
<1> QED
  BY <1>1, Invariance, PTL

\* SaveMessage never replaces a file that readFile refused: only a clear does.
THEOREM UnreadableKept == Spec => DamageKept
<1>1. IInv /\ [Next]_vars => [file = Bad => file' = Bad \/ file' = Good(<<>>)]_vars
  <2> SUFFICES ASSUME IInv, Next, file = Bad PROVE file' = Bad \/ file' = Good(<<>>)
    OBVIOUS
  <2>1. file.state = "bad" /\ versions = {Bad}
    BY DEF IInv, VersionsSound, Bad
  <2>2. \A m \in Msgs : step[m] # "synced"
    BY <2>1 DEF IInv, LockHolds, UnderLock
  <2> QED
    BY <2>1, <2>2 DEF Next, Spawn, Save, SaveRead, SaveUnreadable, SaveWrite, SaveSync,
       SaveRename, SaveFails, ClearHistory, Rename, Crash, PowerFailure, Flush, Damage, disk
<1> QED
  BY <1>1, Invariance, PTL DEF Spec, DamageKept

-----------------------------------------------------------------------------
(* SaveMessage is atomic.                                                   *)

\* The messages that were saved; only the rename adds to them.
Saved == {m \in Msgs : step[m] = "saved"}

\* A step of SaveMessage other than the rename changes nothing of the log.
LEMMA LogStays ==
  ASSUME IInv, NEW m \in Msgs,
         \/ Spawn(m) \/ SaveRead(m) \/ SaveUnreadable(m) \/ SaveWrite(m) \/ SaveSync(m)
         \/ SaveFails(m)
  PROVE  UNCHANGED <<file, versions, Saved>>
<1>1. UNCHANGED <<file, versions>>
  BY DEF Spawn, SaveRead, SaveUnreadable, SaveWrite, SaveSync, SaveFails, disk
<1>2. \A n \in Msgs : step[n] = "saved" <=> step'[n] = "saved"
  BY DEF Spawn, SaveRead, SaveUnreadable, SaveWrite, SaveSync, SaveFails, IInv, TypeOK
<1> QED
  BY <1>1, <1>2 DEF Saved

\* The rename appends the message to the log as it is then, because the lock
\* kept it what it was when SaveMessage read it.
LEMMA RenameSaves ==
  ASSUME IInv, NEW m \in Msgs, SaveRename(m)
  PROVE  History!Save(m)
<1>1. /\ file.state = "good" /\ buf[m] = Append(file.msgs, m)
      /\ step[m] = "synced" /\ step' = [step EXCEPT ![m] = "saved"]
  BY DEF IInv, LockHolds, UnderLock, SaveRename
<1>2. file' = Good(Append(file.msgs, m)) /\ versions' = versions \cup {file'}
  BY <1>1 DEF SaveRename, Rename
<1>3. Saved' = Saved \cup {m} /\ m \notin Saved
  BY <1>1 DEF Saved, IInv, TypeOK
<1> QED
  BY <1>1, <1>2, <1>3 DEF History!Save, History!Replace, History!Log, Good, Saved

\* The history file implements the log: with any number of goroutines that save,
\* clears, crashes, power failures and damage, a save happens in one step.
THEOREM SaveIsAtomic == Spec => ImplementsLog
<1> USE DEF History!Log, History!Unreadable
<1>1. Init => History!LInit
  BY DEF Init, History!LInit, Good
<1>2. IInv /\ [Next]_vars => [History!LNext]_(History!lvars)
  <2> SUFFICES ASSUME IInv, [Next]_vars
               PROVE  History!LNext \/ UNCHANGED <<file, versions, Saved>>
    BY DEF History!lvars, Saved
  <2>1. ASSUME NEW m \in Msgs, Spawn(m) \/ Save(m)
        PROVE  History!LNext \/ UNCHANGED <<file, versions, Saved>>
    BY <2>1, LogStays, RenameSaves DEF Save, History!LNext
  <2>2. CASE ClearHistory
    BY <2>2 DEF ClearHistory, Rename, Good, History!LNext, History!Clear, History!Replace
  <2>3. CASE Crash
    <3>1. UNCHANGED <<file, versions>>
      BY <2>3 DEF Crash, disk
    <3>2. \A n \in Msgs : step[n] = "saved" <=> step'[n] = "saved"
      BY <2>3 DEF Crash, Restart, IInv, TypeOK
    <3> QED
      BY <3>1, <3>2 DEF Saved
  <2>4. CASE PowerFailure
    <3>1. \A n \in Msgs : step[n] = "saved" <=> step'[n] = "saved"
      BY <2>4 DEF PowerFailure, Restart, IInv, TypeOK
    <3> QED
      BY <2>4, <3>1 DEF PowerFailure, History!LNext, History!FallBack
  <2>5. CASE Flush
    BY <2>5 DEF Flush, IInv, VersionsSound, History!LNext, History!FallBack
  <2>6. CASE Damage
    BY <2>6 DEF Damage, Bad, History!LNext, History!Spoil
  <2>7. CASE UNCHANGED vars
    BY <2>7 DEF vars, disk, Saved
  <2> QED
    BY <2>1, <2>2, <2>3, <2>4, <2>5, <2>6, <2>7 DEF Next
<1> QED
  BY <1>1, <1>2, Invariance, PTL DEF Spec, ImplementsLog, History!LSpec
=============================================================================
