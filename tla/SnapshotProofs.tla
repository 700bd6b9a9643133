--------------------------- MODULE SnapshotProofs ---------------------------
(***************************************************************************)
(* The snapshot file, on the disk and read back.                           *)
(*                                                                         *)
(* DirectoryIsSound, for any number of overlapping saves, removals, failed *)
(* file operations, kills and power losses, is not inductive: a power loss *)
(* can bring back any value the name had since the directory was synced,   *)
(* so what holds of the entry has to hold of all of those, and a save may  *)
(* only report success because no change made after its rename can be      *)
(* older than it.                                                          *)
(*                                                                         *)
(* AllocationsFitTheFile holds on every file, because nothing is allocated *)
(* that was not claimed first.  OnlyWholeAccepted needs, one way, only the *)
(* checksum; the other way, that the reader goes through the written file  *)
(* exactly as it was laid down: the place of every section (Starts), and   *)
(* that no claim the reader makes there is refused.                        *)
(*                                                                         *)
(* AcceptedIsSafe is a fact about the check alone: offsets that never run  *)
(* backwards and end at what they index stay inside it, and a span that    *)
(* ends inside the arena is one whose end does not wrap.  It needs only    *)
(* that a file's arrays, damaged or not, hold numbers of the wire's types. *)
(***************************************************************************)
EXTENDS SnapshotStore, SnapshotFormat, SnapshotBase, SequenceTheorems, WellFoundedInduction, TLAPS


Entry == [file : Save \cup {Null}, at : Nat]

\* The variables hold what their comments say.
StoreType ==
    /\ up \in BOOLEAN
    /\ entry \in Entry /\ since \in SUBSET Entry
    /\ temps \in SUBSET Save /\ tempsSince \in SUBSET Save
    /\ bytes \in [Save -> {"none", "part", "whole", "torn"}] /\ synced \in SUBSET Save
    /\ pc \in [Save -> {"idle", "temp", "written", "synced", "renamed", "saved", "failed", "dead"}]
    /\ made \in [Save -> Nat]
    /\ remover \in [pc : {"idle", "unlinked", "removed", "failed", "dead"},
                    removed : BOOLEAN, at : Nat]
    /\ changes \in Nat /\ settled \in Nat
    /\ leaked \in SUBSET Save
    /\ used \in [removals : Nat, faults : Nat, stops : Nat]

\* A file is renamed only once its bytes are on the disk, and those never
\* change again.
SyncedIsWhole ==
    /\ \A s \in synced : bytes[s] = "whole" /\ pc[s] \notin {"idle", "temp", "written"}
    /\ \A s \in Save : /\ pc[s] = "written" => bytes[s] = "whole"
                       /\ pc[s] = "synced" => s \in synced

\* Every value of the name a power loss can bring back is a file whose bytes
\* are safe, and is no older than the newest change reported as done.
RecoverableIsSound ==
    /\ entry \in since
    /\ \A e \in since : /\ e.file # Null => e.file \in synced
                        /\ settled <= e.at /\ e.at <= changes

\* A call that has yet to sync the directory made a change the name still has
\* or one made after it.
PendingIsCovered ==
    /\ \A s \in Save : pc[s] = "renamed" => made[s] <= entry.at
    /\ remover.pc = "unlinked" => remover.at <= entry.at

\* No save survives its process.
StoppedWritesNothing == ~up => \A s \in Save : ~Writing(s)

StoreInv ==
    StoreType /\ SyncedIsWhole /\ RecoverableIsSound /\ PendingIsCovered
    /\ StoppedWritesNothing /\ TempsAreLive
-----------------------------------------------------------------------------
\* The first state of a machine that has no snapshot file.
LEMMA StoreStarts == Init => StoreInv
  <1> SUFFICES ASSUME Init  PROVE StoreInv  OBVIOUS
  <1> USE DEF Init, Writing
  <1>1. StoreType
    <2>1. entry \in Entry  BY DEF Entry
    <2>2. remover \in [pc : {"idle", "unlinked", "removed", "failed", "dead"},
                       removed : BOOLEAN, at : Nat]
      OBVIOUS
    <2>3. used \in [removals : Nat, faults : Nat, stops : Nat]  OBVIOUS
    <2> QED  BY <2>1, <2>2, <2>3 DEF StoreType
  <1>2. SyncedIsWhole  BY DEF SyncedIsWhole
  <1>3. RecoverableIsSound  BY DEF RecoverableIsSound
  <1>4. PendingIsCovered /\ StoppedWritesNothing /\ TempsAreLive
    BY DEF PendingIsCovered, StoppedWritesNothing, TempsAreLive
  <1> QED  BY <1>1, <1>2, <1>3, <1>4 DEF StoreInv

\* What the invariant says of the directory.
LEMMA StoreInvIsSound == StoreInv => DirectoryIsSound
  BY DEF StoreInv, StoreType, Entry, SyncedIsWhole, RecoverableIsSound, DirectoryIsSound,
         FileIsWhole, NothingComesBack

\* The steps of WriteSnapshotFile up to the rename touch only the temporary
\* file.
LEMMA WritingKeepsStore ==
    ASSUME StoreInv, NEW s \in Save, CreateTemp(s) \/ WriteBody(s) \/ SyncFile(s) \/ SaveFails(s)
    PROVE  StoreInv'
  <1> USE DEF StoreInv, StoreType, Goto, SetTemps, dirVars, tempVars, Writing
  <1>1. CASE CreateTemp(s)
    <2>1. s \notin synced  BY <1>1 DEF CreateTemp, SyncedIsWhole
    <2>2. StoreType'  BY <1>1 DEF CreateTemp, Entry
    <2>3. (SyncedIsWhole /\ RecoverableIsSound /\ PendingIsCovered)'
      BY <1>1, <2>1 DEF CreateTemp, SyncedIsWhole, RecoverableIsSound, PendingIsCovered
    <2>4. (StoppedWritesNothing /\ TempsAreLive)'
      BY <1>1 DEF CreateTemp, StoppedWritesNothing, TempsAreLive
    <2> QED  BY <2>2, <2>3, <2>4
  <1>2. CASE WriteBody(s)
    <2>1. s \notin synced  BY <1>2 DEF WriteBody, SyncedIsWhole
    <2>2. StoreType'  BY <1>2 DEF WriteBody, Entry
    <2>3. (SyncedIsWhole /\ RecoverableIsSound /\ PendingIsCovered)'
      BY <1>2, <2>1 DEF WriteBody, SyncedIsWhole, RecoverableIsSound, PendingIsCovered
    <2>4. (StoppedWritesNothing /\ TempsAreLive)'
      BY <1>2 DEF WriteBody, StoppedWritesNothing, TempsAreLive
    <2> QED  BY <2>2, <2>3, <2>4
  <1>3. CASE SyncFile(s)
    <2>2. StoreType'  BY <1>3 DEF SyncFile, Entry
    <2>3. (SyncedIsWhole /\ RecoverableIsSound /\ PendingIsCovered)'
      BY <1>3 DEF SyncFile, SyncedIsWhole, RecoverableIsSound, PendingIsCovered
    <2>4. (StoppedWritesNothing /\ TempsAreLive)'
      BY <1>3 DEF SyncFile, StoppedWritesNothing, TempsAreLive
    <2> QED  BY <2>2, <2>3, <2>4
  <1>4. CASE SaveFails(s)
    <2>2. StoreType'  BY <1>4 DEF SaveFails, Entry, Fault
    <2>3. (SyncedIsWhole /\ RecoverableIsSound /\ PendingIsCovered)'
      BY <1>4 DEF SaveFails, SyncedIsWhole, RecoverableIsSound, PendingIsCovered
    <2>4. (StoppedWritesNothing /\ TempsAreLive)'
      BY <1>4 DEF SaveFails, StoppedWritesNothing, TempsAreLive
    <2> QED  BY <2>2, <2>3, <2>4
  <1> QED  BY <1>1, <1>2, <1>3, <1>4

\* A changed name is one more value a power loss may leave.
LEMMA RenameKeepsStore ==
    ASSUME StoreInv, NEW s \in Save, Rename(s)
    PROVE  StoreInv'
  <1> USE DEF StoreInv, StoreType, Goto, SetTemps, SetEntry, Rename, Writing
  <1>1. s \in synced /\ s # Null  BY StoreConstants DEF SyncedIsWhole
  <1>2. entry' = [file |-> s, at |-> changes + 1] /\ entry' \in Entry  BY DEF Entry
  <1>3. StoreType'  BY <1>2 DEF Entry
  <1>4. SyncedIsWhole'  BY DEF SyncedIsWhole
  <1>5. RecoverableIsSound'
    <2>1. settled <= changes  BY DEF RecoverableIsSound, Entry
    <2> QED  BY <1>1, <1>2, <2>1 DEF RecoverableIsSound, Entry
  <1>6. PendingIsCovered'
    <2>1. entry.at <= changes  BY DEF RecoverableIsSound
    <2> QED  BY <1>2, <2>1 DEF PendingIsCovered, Entry
  <1>7. (StoppedWritesNothing /\ TempsAreLive)'  BY DEF StoppedWritesNothing, TempsAreLive
  <1> QED  BY <1>3, <1>4, <1>5, <1>6, <1>7

\* A successful syncDir leaves one value of the name, no older than the
\* caller's change, so its success may be reported.
LEMMA SaveEndKeepsStore ==
    ASSUME StoreInv, NEW s \in Save, SaveSyncsDir(s) \/ SaveSyncDirFails(s)
    PROVE  StoreInv'
  <1> USE DEF StoreInv, StoreType, Goto, dirVars, tempVars, Writing
  <1>1. CASE SaveSyncsDir(s)
    <2> USE <1>1 DEF SaveSyncsDir, SyncDir
    <2>1. StoreType'  BY DEF Newest, Entry
    <2>2. SyncedIsWhole'  BY DEF SyncedIsWhole
    <2>3. RecoverableIsSound'
      <3>1. settled' <= entry.at  BY DEF Newest, RecoverableIsSound, PendingIsCovered, Entry
      <3> QED  BY <3>1 DEF RecoverableIsSound
    <2>4. PendingIsCovered'  BY DEF PendingIsCovered
    <2>5. (StoppedWritesNothing /\ TempsAreLive)'  BY DEF StoppedWritesNothing, TempsAreLive
    <2> QED  BY <2>1, <2>2, <2>3, <2>4, <2>5
  <1>2. CASE SaveSyncDirFails(s)
    <2> USE <1>2 DEF SaveSyncDirFails, Fault
    <2>1. StoreType'  BY DEF Entry
    <2>2. (SyncedIsWhole /\ RecoverableIsSound /\ PendingIsCovered)'
      BY DEF SyncedIsWhole, RecoverableIsSound, PendingIsCovered
    <2>3. (StoppedWritesNothing /\ TempsAreLive)'  BY DEF StoppedWritesNothing, TempsAreLive
    <2> QED  BY <2>1, <2>2, <2>3
  <1> QED  BY <1>1, <1>2

\* RemoveSnapshotFile answers for the entry it left, removed by it or already
\* missing.
LEMMA RemovalKeepsStore ==
    ASSUME StoreInv, Unlink \/ RemoveSyncsDir \/ RemoveFails
    PROVE  StoreInv'
  <1> USE DEF StoreInv, StoreType, dirVars, tempVars, Writing
  <1>1. CASE Unlink
    <2> USE <1>1 DEF Unlink
    <2>0. entry' \in Entry /\ since' = since \cup {entry'} /\ changes' \in Nat
          /\ changes <= changes' /\ entry.at <= entry'.at /\ entry'.at <= changes'
          /\ settled <= entry'.at /\ (entry'.file = Null \/ entry' = entry)
      <3>1. CASE entry.file = Null
        BY <3>1 DEF RecoverableIsSound, Entry
      <3>2. CASE entry.file # Null
        <4>1. entry' = [file |-> Null, at |-> changes + 1] /\ changes' = changes + 1
              /\ since' = since \cup {entry'}
          BY <3>2 DEF SetEntry
        <4> QED  BY <4>1 DEF RecoverableIsSound, Entry
      <3> QED  BY <3>1, <3>2
    <2>1. StoreType'  BY <2>0 DEF Entry
    <2>2. SyncedIsWhole'  BY DEF SyncedIsWhole
    <2>3. RecoverableIsSound'  BY <2>0 DEF RecoverableIsSound, Entry
    <2>4. PendingIsCovered'  BY <2>0 DEF PendingIsCovered, Entry
    <2>5. (StoppedWritesNothing /\ TempsAreLive)'  BY DEF StoppedWritesNothing, TempsAreLive
    <2> QED  BY <2>1, <2>2, <2>3, <2>4, <2>5
  <1>2. CASE RemoveSyncsDir
    <2> USE <1>2 DEF RemoveSyncsDir, SyncDir
    <2>1. StoreType'  BY DEF Newest, Entry
    <2>2. SyncedIsWhole'  BY DEF SyncedIsWhole
    <2>3. RecoverableIsSound'
      <3>1. settled' <= entry.at  BY DEF Newest, RecoverableIsSound, PendingIsCovered, Entry
      <3> QED  BY <3>1 DEF RecoverableIsSound
    <2>4. PendingIsCovered'  BY DEF PendingIsCovered
    <2>5. (StoppedWritesNothing /\ TempsAreLive)'  BY DEF StoppedWritesNothing, TempsAreLive
    <2> QED  BY <2>1, <2>2, <2>3, <2>4, <2>5
  <1>3. CASE RemoveFails
    <2> USE <1>3 DEF RemoveFails, Fault
    <2>1. StoreType'  BY DEF Entry
    <2>2. (SyncedIsWhole /\ RecoverableIsSound /\ PendingIsCovered)'
      BY DEF SyncedIsWhole, RecoverableIsSound, PendingIsCovered
    <2>3. (StoppedWritesNothing /\ TempsAreLive)'  BY DEF StoppedWritesNothing, TempsAreLive
    <2> QED  BY <2>1, <2>2, <2>3
  <1> QED  BY <1>1, <1>2, <1>3

\* sweepStaleSnapshotTempFiles runs while nothing is being written.
LEMMA StartKeepsStore ==
    ASSUME StoreInv, Start
    PROVE  StoreInv'
  <1> USE DEF StoreInv, StoreType, Start, SetTemps, Fault, dirVars, Writing
  <1>1. StoreType'  BY DEF Entry
  <1>2. (SyncedIsWhole /\ RecoverableIsSound /\ PendingIsCovered)'
    BY DEF SyncedIsWhole, RecoverableIsSound, PendingIsCovered
  <1>3. (StoppedWritesNothing /\ TempsAreLive)'  BY DEF StoppedWritesNothing, TempsAreLive
  <1> QED  BY <1>1, <1>2, <1>3

\* A stop leaves no save and no removal under way; a power loss leaves one of
\* the recoverable values of the name, over bytes that were synced.
LEMMA StopKeepsStore ==
    ASSUME StoreInv, Kill \/ PowerLoss
    PROVE  StoreInv'
  <1> USE DEF StoreInv, StoreType, Stops, dirVars, tempVars, Writing
  <1>0. Stops  BY DEF Kill, PowerLoss
  <1>1. /\ \A s \in Save : pc'[s] \notin {"temp", "written", "synced", "renamed"}
        /\ \A s \in Save : pc'[s] = "idle" => pc[s] = "idle"
        /\ remover'.pc # "unlinked" /\ ~up'
        /\ pc' \in [Save -> {"idle", "temp", "written", "synced", "renamed", "saved", "failed", "dead"}]
        /\ remover' \in [pc : {"idle", "unlinked", "removed", "failed", "dead"},
                    removed : BOOLEAN, at : Nat]
        /\ used' \in [removals : Nat, faults : Nat, stops : Nat]
    BY <1>0
  <1>2. (PendingIsCovered /\ StoppedWritesNothing /\ TempsAreLive)'
    BY <1>1 DEF PendingIsCovered, StoppedWritesNothing, TempsAreLive
  <1>3. CASE Kill
    <2>1. StoreType'  BY <1>3, <1>1 DEF Kill, Entry
    <2>2. SyncedIsWhole'  BY <1>3, <1>1 DEF Kill, SyncedIsWhole
    <2>3. RecoverableIsSound'  BY <1>3 DEF Kill, RecoverableIsSound
    <2> QED  BY <1>2, <2>1, <2>2, <2>3
  <1>4. CASE PowerLoss
    <2> USE <1>4 DEF PowerLoss
    <2>1. StoreType'
      <3>1. entry' \in Entry /\ since' \in SUBSET Entry  OBVIOUS
      <3>2. temps' \in SUBSET Save /\ tempsSince' \in SUBSET Save  OBVIOUS
      <3>3. bytes' \in [Save -> {"none", "part", "whole", "torn"}]  OBVIOUS
      <3> QED  BY <1>1, <3>1, <3>2, <3>3
    <2>2. SyncedIsWhole'  BY <1>1 DEF SyncedIsWhole
    <2>3. RecoverableIsSound'
      <3>1. PICK e \in since : entry' = e /\ since' = {e}  OBVIOUS
      <3> QED  BY <3>1 DEF RecoverableIsSound
    <2> QED  BY <1>2, <2>1, <2>2, <2>3
  <1> QED  BY <1>3, <1>4

\* file.go: after any saves, removals, failures, kills and power losses, the
\* named file is whole, nothing replaced or removed comes back, and no
\* temporary file outlives its save.
THEOREM DirectoryStaysSound == Spec => []DirectoryIsSound
  <1>1. Init => StoreInv  BY StoreStarts
  <1>2. StoreInv /\ [Next]_vars => StoreInv'
    <2> SUFFICES ASSUME StoreInv, [Next]_vars  PROVE StoreInv'  OBVIOUS
    <2>1. CASE UNCHANGED vars
      BY <2>1 DEF vars, StoreInv, StoreType, SyncedIsWhole, RecoverableIsSound,
                  PendingIsCovered, StoppedWritesNothing, TempsAreLive, Writing
    <2>2. ASSUME NEW s \in Save,
                 \/ CreateTemp(s) \/ WriteBody(s) \/ SyncFile(s) \/ Rename(s)
                 \/ SaveSyncsDir(s) \/ SaveFails(s) \/ SaveSyncDirFails(s)
          PROVE  StoreInv'
      BY <2>2, WritingKeepsStore, RenameKeepsStore, SaveEndKeepsStore
    <2> QED  BY <2>1, <2>2, RemovalKeepsStore, StartKeepsStore, StopKeepsStore DEF Next
  <1>3. StoreInv => DirectoryIsSound  BY StoreInvIsSound
  <1> QED  BY <1>1, <1>2, <1>3, PTL DEF Spec
-----------------------------------------------------------------------------

\* A file of any words, with a checksum or without, and whatever follows.
FileType ==
    /\ words \in Seq(Nat) /\ tail \in Nat
    /\ crc \in Seq(Seq(Nat)) /\ Len(crc) <= 1

Reader == [pc : {"closed", "magic", "body", "table", "accepted", "rejected"}, at : Nat, pos : Nat, left : Int, items : Nat,
           n : Nat, e : Nat, k : Nat, alloc : Nat]

\* What the reader has left is no more than the file, and neither is what it allocated.
BudgetInv ==
    /\ FileType
    /\ rd \in Reader /\ rd.pos >= 1 /\ rd.at >= 1
    /\ rd.left <= Size /\ rd.alloc <= Size
    /\ rd.pc \in {"closed", "magic"} => rd.alloc = 0 /\ rd.left = 0 /\ rd.at = 1
    /\ rd.pc = "table" => rd.items >= 1

\* A claim that holds leaves room for all it claims.
LEMMA ClaimFits ==
    ASSUME NEW l \in Int, NEW n \in Nat, NEW w \in {1, 2}, l >= 0, n <= l \div w
    PROVE  n * w <= l /\ n * w \in Nat
<1>1. CASE w = 1
  BY <1>1
<1>2. CASE w = 2
  BY <1>2
<1> QED BY <1>1, <1>2

\* A file has a size.
LEMMA SizeIsNat == FileType => Size \in Nat
BY DEF FileType, Size

\* An array is allocated only once it is claimed.
LEMMA ReadArrayFits ==
    ASSUME BudgetInv, NEW r \in Reader, r.left <= Size, r.pos >= 1, r.at >= 1,
           NEW n \in Nat, NEW w \in {1, 2}
    PROVE  /\ ReadArray(r, n, w) \in Reader
           /\ ReadArray(r, n, w).left <= Size /\ ReadArray(r, n, w).alloc <= Size
           /\ ReadArray(r, n, w).pos >= 1 /\ ReadArray(r, n, w).at >= 1
           /\ ReadArray(r, n, w).pc \in {r.pc, "rejected"}
<1>0. Size \in Nat /\ rd \in Reader /\ rd.left <= Size /\ rd.alloc <= Size /\ rd.pos >= 1 /\ rd.at >= 1
  BY SizeIsNat DEF BudgetInv
<1>1. Claim(r, n, w) => n * w <= r.left /\ n * w \in Nat
  BY ClaimFits DEF Claim, Reader
<1>2. CASE Claim(r, n, w) /\ r.pos + n * w <= Size + 1
  <2>1. ReadArray(r, n, w) = [r EXCEPT !.alloc = n * w, !.pos = @ + n * w, !.left = @ - n * w, !.at = @ + 1]
    BY <1>2 DEF ReadArray, Done, Consume, Reader
  <2> DEFINE m == n * w
  <2>2. m \in Nat /\ m <= r.left
    BY <1>1, <1>2
  <2>3. ReadArray(r, n, w) = [r EXCEPT !.alloc = m, !.pos = @ + m, !.left = @ - m, !.at = @ + 1]
    BY <2>1
  <2> HIDE DEF m
  <2>4. r.pos + m \in Nat /\ r.pos + m >= 1 /\ r.left - m \in Int /\ r.left - m <= Size /\ m <= Size
        /\ r.at + 1 \in Nat /\ r.at + 1 >= 1
    BY <1>0, <2>2 DEF Reader
  <2> QED BY <2>2, <2>3, <2>4 DEF Reader
<1>3. CASE ~(Claim(r, n, w) /\ r.pos + n * w <= Size + 1)
  <2>1. PICK m \in Nat : m <= Size /\ ReadArray(r, n, w) = [rd EXCEPT !.pc = "rejected", !.alloc = m]
    <3>1. ReadArray(r, n, w) = [[rd EXCEPT !.pc = "rejected"] EXCEPT !.alloc = IF Claim(r, n, w) THEN n * w ELSE 0]
      BY <1>3 DEF ReadArray, Fail
    <3>2. (IF Claim(r, n, w) THEN n * w ELSE 0) \in Nat /\ (IF Claim(r, n, w) THEN n * w ELSE 0) <= Size
      <4>1. CASE Claim(r, n, w)
        BY <1>0, <1>1, <4>1 DEF Reader
      <4>2. CASE ~Claim(r, n, w)
        BY <1>0, <4>2
      <4> QED BY <4>1, <4>2
    <3>3. \A m : [[rd EXCEPT !.pc = "rejected"] EXCEPT !.alloc = m] = [rd EXCEPT !.pc = "rejected", !.alloc = m]
      BY <1>0 DEF Reader
    <3> QED BY <3>1, <3>2, <3>3
  <2> QED BY <1>0, <2>1 DEF Reader
<1> QED BY <1>2, <1>3

\* A field that is read is a number.
LEMMA FieldIsNat ==
    ASSUME FileType, MaxWord \in Nat, NEW pos \in Nat, pos >= 1, NEW v \in FieldAt(pos)
    PROVE  v \in Nat
BY DEF FileType, FieldAt, Word

\* A reader that gives up keeps the budget.
LEMMA FailFits == ASSUME BudgetInv, rd' = Fail, UNCHANGED fileVars  PROVE BudgetInv' /\ rd'.pc = "rejected"
BY DEF BudgetInv, Fail, fileVars, Reader, FileType, Size

\* A reader whose record is again one within the budget.
LEMMA StepFits ==
    ASSUME BudgetInv, UNCHANGED fileVars, rd' \in Reader, rd'.pos >= 1, rd'.at >= 1,
           rd'.left <= Size, rd'.alloc <= Size, rd'.pc \in {"body", "table", "accepted", "rejected"}, rd'.pc = "table" => rd'.items >= 1
    PROVE  BudgetInv'
BY DEF BudgetInv, fileVars, FileType, Size

\* A field or two consumed.
LEMMA ConsumeFits ==
    ASSUME BudgetInv, NEW m \in {1, 2}
    PROVE  /\ Consume(rd, m) = [rd EXCEPT !.pos = @ + m, !.left = @ - m]
           /\ Consume(rd, m) \in Reader /\ Consume(rd, m).left <= Size /\ Consume(rd, m).pos >= 1
           /\ Consume(rd, m).alloc <= Size /\ Consume(rd, m).at >= 1 /\ Consume(rd, m).pc = rd.pc
<1>1. Size \in Nat
  BY SizeIsNat DEF BudgetInv
<1>2. rd \in Reader /\ rd.left <= Size /\ rd.alloc <= Size /\ rd.pos >= 1 /\ rd.at >= 1
  BY DEF BudgetInv
<1>3. rd.pos + m \in Nat /\ rd.pos + m >= 1 /\ rd.left - m \in Int /\ rd.left - m <= Size
  BY <1>1, <1>2 DEF Reader
<1>4. Consume(rd, m) = [rd EXCEPT !.pos = rd.pos + m, !.left = rd.left - m]
  BY DEF Consume
<1>5. Consume(rd, m) \in Reader
  BY <1>2, <1>3, <1>4 DEF Reader
<1>6. /\ Consume(rd, m).left = rd.left - m /\ Consume(rd, m).pos = rd.pos + m
      /\ Consume(rd, m).alloc = rd.alloc /\ Consume(rd, m).at = rd.at /\ Consume(rd, m).pc = rd.pc
  BY <1>2, <1>4 DEF Reader
<1> QED BY <1>2, <1>3, <1>4, <1>5, <1>6

\* Every step of ReadSnapshotFile keeps the budget, on any file.
LEMMA ReadStepFits ==
    ASSUME FormatConstants, BudgetInv, ReadStep
    PROVE  BudgetInv' /\ (rd'.pc = "accepted" => ReadCrc)
<1>0. FileType /\ Size \in Nat /\ rd \in Reader /\ rd.pos >= 1 /\ rd.at >= 1 /\ rd.left <= Size /\ rd.alloc <= Size
  BY SizeIsNat DEF BudgetInv
<1>1. CASE ReadMagic
  <2>1. UNCHANGED fileVars
    BY <1>1 DEF ReadMagic
  <2>2. CASE rd' = [rd EXCEPT !.pc = "body", !.pos = 2, !.left = Size - 2]
    <3>1. Size - 2 \in Int /\ Size - 2 <= Size
      BY <1>0
    <3>2. rd' \in Reader
      BY <1>0, <2>2, <3>1 DEF Reader
    <3>3. rd'.pc = "body" /\ rd'.pos = 2 /\ rd'.left = Size - 2 /\ rd'.alloc = rd.alloc /\ rd'.at = rd.at
      BY <1>0, <2>2 DEF Reader
    <3> QED BY <1>0, <2>1, <3>1, <3>2, <3>3, StepFits
  <2> QED BY <1>1, <2>1, <2>2, FailFits DEF ReadMagic
<1>2. CASE ReadCounted
  <2>1. UNCHANGED fileVars /\ rd.pc = "body"
    BY <1>2 DEF ReadCounted, InBody
  <2>2. PlusOne(rd.n) \in Nat
    BY <1>0 DEF PlusOne, Reader, FormatConstants
  <2>3. \E m \in Nat : rd' = ReadArray(rd, m, 1)
    BY <1>0, <1>2, <2>2 DEF ReadCounted, Reader
  <2> QED BY <1>0, <2>1, <2>3, ReadArrayFits, StepFits
<1>3. CASE ReadCrc
  <2>1. UNCHANGED fileVars
    BY <1>3 DEF ReadCrc
  <2>2. CASE rd' = [rd EXCEPT !.pc = "accepted"]
    BY <1>0, <1>3, <2>1, <2>2, StepFits DEF Reader
  <2> QED BY <1>3, <2>1, <2>2, FailFits DEF ReadCrc
<1>4. CASE ReadPastEnd
  BY <1>4, FailFits DEF ReadPastEnd
<1>5. ASSUME NEW v \in FieldAt(rd.pos), ReadField(v)  PROVE BudgetInv' /\ rd'.pc # "accepted"
  <2>1. v \in Nat
    BY <1>0, FieldIsNat DEF Reader, FormatConstants
  <2>2. UNCHANGED fileVars /\ rd.pc = "body"
    BY <1>5 DEF ReadField, InBody
  <2> DEFINE r == Done(Consume(rd, 1))
  <2>3. r = [rd EXCEPT !.pos = @ + 1, !.left = @ - 1, !.at = @ + 1]
    BY <1>0 DEF Done, Consume, Reader
  <2>4. rd' = Fail \/ rd' \in {r, [r EXCEPT !.n = v], [r EXCEPT !.e = v], [r EXCEPT !.k = v]}
    BY <1>5 DEF ReadField
  <2> HIDE DEF r
  <2>5. r \in Reader /\ r.left <= Size /\ r.alloc <= Size /\ r.pos >= 1 /\ r.at >= 1 /\ r.pc = "body"
    <3>1. /\ rd.pos + 1 \in Nat /\ rd.pos + 1 >= 1 /\ rd.left - 1 \in Int /\ rd.left - 1 <= Size
          /\ rd.at + 1 \in Nat /\ rd.at + 1 >= 1
      BY <1>0 DEF Reader
    <3>2. r \in Reader
      BY <1>0, <2>3, <3>1 DEF Reader
    <3>3. r.pos = rd.pos + 1 /\ r.left = rd.left - 1 /\ r.at = rd.at + 1 /\ r.alloc = rd.alloc /\ r.pc = rd.pc
      BY <1>0, <2>3 DEF Reader
    <3> QED BY <1>0, <2>2, <3>1, <3>2, <3>3
  <2>6. ASSUME rd' # Fail
        PROVE  rd' \in Reader /\ rd'.left <= Size /\ rd'.alloc <= Size /\ rd'.pos >= 1 /\ rd'.at >= 1 /\ rd'.pc = "body"
    BY <2>1, <2>4, <2>5, <2>6 DEF Reader
  <2> QED BY <2>2, <2>6, FailFits, StepFits
<1>6. ASSUME NEW v \in FieldAt(rd.pos), ReadPrefixed(v)  PROVE BudgetInv' /\ rd'.pc # "accepted"
  <2>1. v \in Nat
    BY <1>0, FieldIsNat DEF Reader, FormatConstants
  <2>2. UNCHANGED fileVars /\ rd.pc = "body" /\ \E w \in {1, 2} : rd' = ReadArray(Consume(rd, 1), v, w)
    BY <1>6 DEF ReadPrefixed, InBody
  <2> QED BY <2>1, <2>2, ConsumeFits, ReadArrayFits, StepFits
<1>7. ASSUME NEW v \in FieldAt(rd.pos), ReadTableCount(v)  PROVE BudgetInv' /\ rd'.pc # "accepted"
  <2>1. v \in Nat /\ UNCHANGED fileVars /\ rd.pc = "body" /\ EntryWidth \in {1, 2}
    BY <1>0, <1>7, FieldIsNat DEF Reader, FormatConstants, ReadTableCount, InBody, EntryWidth
  <2> DEFINE r == Consume(rd, 1)
  <2>2. r \in Reader /\ r.left <= Size /\ r.alloc <= Size /\ r.pos >= 1 /\ r.at >= 1 /\ r.pc = "body"
    BY <2>1, ConsumeFits
  <2>3. \/ rd' = Fail
        \/ rd' = Done(r)
        \/ Claim(r, v, EntryWidth) /\ v # 0 /\ rd' = [r EXCEPT !.pc = "table", !.items = v, !.alloc = v * EntryWidth]
    BY <1>7 DEF ReadTableCount
  <2> HIDE DEF r
  <2>4. CASE rd' = Done(r)
    BY <1>0, <2>1, <2>2, <2>4, StepFits DEF Done, Reader
  <2>5. CASE Claim(r, v, EntryWidth) /\ v # 0 /\ rd' = [r EXCEPT !.pc = "table", !.items = v, !.alloc = v * EntryWidth]
    <3> DEFINE m == v * EntryWidth
    <3>1. m \in Nat /\ m <= Size
      <4>1. m \in Nat /\ m <= r.left
        BY <2>1, <2>2, <2>5, ClaimFits DEF Claim, Reader
      <4> HIDE DEF m
      <4> QED BY <1>0, <2>2, <4>1 DEF Reader
    <3>2. rd' = [r EXCEPT !.pc = "table", !.items = v, !.alloc = m]
      BY <2>5
    <3> HIDE DEF m
    <3>3. rd' \in Reader
      BY <2>1, <2>2, <3>1, <3>2 DEF Reader
    <3>4. rd'.items = v /\ rd'.pc = "table" /\ rd'.alloc = m /\ rd'.left = r.left /\ rd'.pos = r.pos /\ rd'.at = r.at
      BY <2>2, <3>2 DEF Reader
    <3> QED BY <2>1, <2>2, <2>5, <3>1, <3>3, <3>4, StepFits
  <2> QED BY <2>1, <2>3, <2>4, <2>5, FailFits
<1>8. ASSUME NEW v \in FieldAt(rd.pos + EntryWidth - 1), ReadTableEntry(v)  PROVE BudgetInv' /\ rd'.pc # "accepted"
  <2>1. v \in Nat /\ UNCHANGED fileVars /\ EntryWidth \in {1, 2} /\ rd.pc = "table"
    <3>1. rd.pos + EntryWidth - 1 \in Nat /\ rd.pos + EntryWidth - 1 >= 1
      BY <1>0 DEF EntryWidth, Reader
    <3> QED BY <1>0, <1>8, <3>1, FieldIsNat DEF FormatConstants, ReadTableEntry, EntryWidth
  <2> DEFINE named == ReadArray(Consume(rd, EntryWidth), v, 1)
  <2>2. /\ named \in Reader /\ named.left <= Size /\ named.alloc <= Size /\ named.pos >= 1 /\ named.at >= 1
        /\ named.pc \in {"table", "rejected"}
    BY <2>1, ConsumeFits, ReadArrayFits
  <2>3. CASE named.pc = "rejected"
    <3>1. rd' = named
      BY <1>8, <2>3 DEF ReadTableEntry
    <3> QED BY <2>1, <2>2, <2>3, <3>1, StepFits
  <2>4. CASE named.pc # "rejected"
    <3> DEFINE to == IF rd.items = 1 THEN "body" ELSE "table"
               next == IF rd.items = 1 THEN named.at ELSE rd.at
    <3>1. rd' = [named EXCEPT !.items = rd.items - 1, !.pc = to, !.at = next]
      BY <1>8, <2>2, <2>4 DEF ReadTableEntry, Reader
    <3>2. /\ rd.items - 1 \in Nat /\ to \in {"body", "table"} /\ (to = "table" => rd.items - 1 >= 1)
          /\ next \in Nat /\ next >= 1
      BY <1>0, <2>1, <2>2 DEF BudgetInv, Reader
    <3> HIDE DEF named, to, next
    <3>3. rd' \in Reader
      BY <2>2, <3>1, <3>2 DEF Reader
    <3>4. /\ rd'.items = rd.items - 1 /\ rd'.pc = to /\ rd'.at = next
          /\ rd'.pos = named.pos /\ rd'.left = named.left /\ rd'.alloc = named.alloc
      BY <2>2, <3>1 DEF Reader
    <3> QED BY <2>1, <2>2, <3>2, <3>3, <3>4, StepFits
  <2> QED BY <2>3, <2>4
<1> QED BY <1>1, <1>2, <1>3, <1>4, <1>5, <1>6, <1>7, <1>8 DEF ReadStep

\* Whatever file ReadSnapshotFile is given, it never allocates for more than the file holds.
THEOREM AnyFileFits ==
    (FileType /\ rd = NewReader) /\ [][ReadStep]_formatVars => []AllocationsFitTheFile
<1>1. FileType /\ rd = NewReader => BudgetInv
  BY SizeIsNat DEF BudgetInv, NewReader, Reader
<1>2. BudgetInv /\ [ReadStep]_formatVars => BudgetInv'
  <2>1. CASE UNCHANGED formatVars
    BY <2>1 DEF formatVars, fileVars, BudgetInv, FileType, Size
  <2> QED BY <2>1, ReadStepFits, FormatAssumption
<1>3. BudgetInv => AllocationsFitTheFile
  BY DEF BudgetInv, AllocationsFitTheFile
<1> QED BY <1>1, <1>2, <1>3, PTL

-----------------------------------------------------------------------------
\* Where each section of a written file begins, in words after the magic.
Starts(g) == <<0, 1, 2, 3, 4, 5, 5 + g.n, 6 + 2 * g.n, 6 + 2 * g.n + g.e, 7 + 3 * g.n + g.e,
               7 + 3 * g.n + g.e + g.k, 7 + 3 * g.n + 2 * g.e + g.k,
               8 + 3 * g.n + 2 * g.e + g.k + 3 * g.kinds,
               9 + 3 * g.n + 2 * g.e + g.k + 3 * g.kinds + 2 * g.names,
               10 + 3 * g.n + 2 * g.e + g.k + 3 * g.kinds + 4 * g.names,
               11 + 4 * g.n + 2 * g.e + g.k + 3 * g.kinds + 4 * g.names,
               12 + 4 * g.n + 2 * g.e + g.k + 3 * g.kinds + 5 * g.names,
               13 + 4 * g.n + 2 * g.e + g.k + 3 * g.kinds + 5 * g.names,
               14 + 4 * g.n + 2 * g.e + g.k + 3 * g.kinds + 5 * g.names>>

\* The words of s stand in b after its first p.
Holds(b, p, s) == p + Len(s) <= Len(b) /\ \A j \in 1 .. Len(s) : b[p + j] = s[j]

\* One more section: what was there stays, and it follows.
LEMMA NextSection ==
    ASSUME NEW b \in Seq(Nat), NEW s \in Seq(Nat)
    PROVE  /\ b \o s \in Seq(Nat) /\ Len(b \o s) = Len(b) + Len(s)
           /\ Holds(b \o s, Len(b), s)
           /\ \A p \in Nat, t \in Seq(Nat) : Holds(b, p, t) => Holds(b \o s, p, t)
<1>1. /\ b \o s \in Seq(Nat) /\ Len(b \o s) = Len(b) + Len(s)
      /\ \A j \in 1 .. Len(b) : (b \o s)[j] = b[j]
      /\ \A j \in 1 .. Len(s) : (b \o s)[Len(b) + j] = s[j]
  OBVIOUS
<1> QED BY <1>1 DEF Holds

\* What a concatenation holds.
LEMMA Joined ==
    ASSUME NEW b \in Seq(Nat), NEW s \in Seq(Nat)
    PROVE  /\ b \o s \in Seq(Nat) /\ Len(b \o s) = Len(b) + Len(s)
           /\ \A j \in 1 .. Len(b) : (b \o s)[j] = b[j]
           /\ \A j \in 1 .. Len(s) : (b \o s)[Len(b) + j] = s[j]
OBVIOUS

\* A count and what it counts.
LEMMA Prefixed ==
    ASSUME NEW m \in Nat, NEW t \in Seq(Nat)
    PROVE  /\ <<m>> \o t \in Seq(Nat) /\ Len(<<m>> \o t) = 1 + Len(t) /\ (<<m>> \o t)[1] = m
           /\ \A j \in 1 .. Len(t) : (<<m>> \o t)[1 + j] = t[j]
<1>1. <<m>> \in Seq(Nat) /\ Len(<<m>>) = 1 /\ <<m>>[1] = m
  OBVIOUS
<1> DEFINE u == <<m>>
<1> HIDE DEF u
<1>2. u \in Seq(Nat) /\ Len(u) = 1 /\ u[1] = m
  BY <1>1 DEF u
<1>3. /\ u \o t \in Seq(Nat) /\ Len(u \o t) = Len(u) + Len(t)
      /\ \A j \in 1 .. Len(u) : (u \o t)[j] = u[j]
      /\ \A j \in 1 .. Len(t) : (u \o t)[Len(u) + j] = t[j]
  BY <1>2, Joined, Zenon
<1>4. /\ u \o t \in Seq(Nat) /\ Len(u \o t) = 1 + Len(t) /\ (u \o t)[1] = m
      /\ \A j \in 1 .. Len(t) : (u \o t)[1 + j] = t[j]
  BY <1>2, <1>3
<1> QED BY <1>4 DEF u

\* An array of m words.
LEMMA ZeroWords == ASSUME NEW m \in Nat  PROVE Zeros(m) \in Seq(Nat) /\ Len(Zeros(m)) = m /\ \A j \in 1 .. m : Zeros(m)[j] = 0
BY DEF Zeros

\* A name of one word, and a kind's id before it.
LEMMA NameWords ==
    /\ Str(1) \in Seq(Nat) /\ Len(Str(1)) = 2 /\ Str(1)[1] = 1
    /\ <<0>> \o Str(1) \in Seq(Nat) /\ Len(<<0>> \o Str(1)) = 3 /\ (<<0>> \o Str(1))[2] = 1
<1> DEFINE z == Zeros(1)
           n == <<1>> \o z
           k == <<0>> \o n
<1>1. z \in Seq(Nat) /\ Len(z) = 1 /\ 0 \in Nat /\ 1 \in Nat
  BY ZeroWords
<1> HIDE DEF z
<1>2. n \in Seq(Nat) /\ Len(n) = 1 + Len(z) /\ n[1] = 1
  BY <1>1, Prefixed, Zenon
<1> HIDE DEF n
<1>3. k \in Seq(Nat) /\ Len(k) = 1 + Len(n) /\ \A j \in 1 .. Len(n) : k[1 + j] = n[j]
  BY <1>1, <1>2, Prefixed, Zenon
<1> HIDE DEF k
<1>4. n \in Seq(Nat) /\ Len(n) = 2 /\ n[1] = 1
  BY <1>1, <1>2
<1>5. k[1 + 1] = n[1]
  BY <1>3, <1>4
<1>6. k \in Seq(Nat) /\ Len(k) = 3 /\ k[2] = 1
  BY <1>3, <1>4, <1>5
<1>7. Str(1) = n /\ <<0>> \o Str(1) = k
  BY DEF Str, n, k, z
<1> QED BY <1>4, <1>6, <1>7, Zenon

\* m copies of s.
LEMMA RepeatWords ==
    ASSUME NEW s \in Seq(Nat), NEW m \in Nat, Len(s) \in {2, 3}
    PROVE  /\ Repeat(s, m) \in Seq(Nat) /\ Len(Repeat(s, m)) = m * Len(s)
           /\ \A i \in 1 .. m * Len(s) : Repeat(s, m)[i] = s[((i - 1) % Len(s)) + 1]
<1> DEFINE w == Len(s)
           c == m * w
           f == [i \in 1 .. c |-> s[((i - 1) % w) + 1]]
<1>1. w \in {2, 3} /\ c \in Nat
  <2>1. CASE w = 2
    BY <2>1
  <2>2. CASE w = 3
    BY <2>2
  <2> QED BY <2>1, <2>2
<1>2. \A i \in 1 .. c : s[((i - 1) % w) + 1] \in Nat
  <2> SUFFICES ASSUME NEW i \in 1 .. c PROVE s[((i - 1) % w) + 1] \in Nat
    OBVIOUS
  <2>1. i \in Int /\ i - 1 \in Int
    BY <1>1
  <2> DEFINE q == i - 1
  <2>2. q \in Int
    BY <2>1
  <2> HIDE DEF q
  <2>3. (q % w) + 1 \in 1 .. w
    <3>1. CASE w = 2
      BY <2>2, <3>1
    <3>2. CASE w = 3
      BY <2>2, <3>2
    <3> QED BY <1>1, <3>1, <3>2
  <2>4. s[(q % w) + 1] \in Nat
    BY <2>3
  <2> QED BY <2>4 DEF q
<1>3. Repeat(s, m) = f
  BY DEF Repeat
<1> HIDE DEF c
<1>4. f \in [1 .. c -> Nat]
  BY <1>2
<1>5. f \in Seq(Nat) /\ Len(f) = c
  BY <1>1, <1>4
<1>6. \A i \in 1 .. c : f[i] = s[((i - 1) % w) + 1]
  OBVIOUS
<1> QED BY <1>3, <1>5, <1>6 DEF c

\* A field is one word, its own value.
LEMMA FieldWords ==
    ASSUME NEW g, g.n \in Nat, g.e \in Nat, g.k \in Nat
    PROVE  /\ \A s \in {"version", "header", "n", "e", "k", "multiGraph", "droppedEdges"} :
                Encode(s, g) \in Seq(Nat) /\ Len(Encode(s, g)) = 1
           /\ Encode("version", g)[1] = Version /\ Encode("n", g)[1] = g.n
           /\ Encode("e", g)[1] = g.e /\ Encode("k", g)[1] = g.k
<1>1. /\ Encode("version", g) = <<Version>> /\ Encode("n", g) = <<g.n>>
      /\ Encode("e", g) = <<g.e>> /\ Encode("k", g) = <<g.k>>
      /\ Encode("header", g) = <<0>> /\ Encode("multiGraph", g) = <<0>> /\ Encode("droppedEdges", g) = <<0>>
  BY DEF Encode
<1>2. ASSUME NEW m \in Nat PROVE <<m>> \in Seq(Nat) /\ Len(<<m>>) = 1 /\ <<m>>[1] = m
  OBVIOUS
<1>3. Version \in Nat /\ 0 \in Nat
  BY DEF Version
<1> HIDE DEF Version
<1> QED BY <1>1, <1>2, <1>3

\* An array is as long as the count it is written for.
LEMMA ArrayWords ==
    ASSUME NEW g, g.n \in Nat, g.e \in Nat, g.k \in Nat
    PROVE  /\ Encode("graphIDs", g) \in Seq(Nat) /\ Len(Encode("graphIDs", g)) = g.n
           /\ \A s \in {"outOffsets", "kindOffsets", "nodeOffsets"} :
                Encode(s, g) \in Seq(Nat) /\ Len(Encode(s, g)) = g.n + 1
           /\ \A s \in {"outTargets", "edgeIDPerm"} : Encode(s, g) \in Seq(Nat) /\ Len(Encode(s, g)) = g.e
           /\ Encode("nodeKinds", g) \in Seq(Nat) /\ Len(Encode("nodeKinds", g)) = g.k
<1>1. /\ Encode("graphIDs", g) = Zeros(g.n) /\ Encode("nodeKinds", g) = Zeros(g.k)
      /\ \A s \in {"outOffsets", "kindOffsets", "nodeOffsets"} : Encode(s, g) = Zeros(g.n + 1)
      /\ \A s \in {"outTargets", "edgeIDPerm"} : Encode(s, g) = Zeros(g.e)
  BY DEF Encode
<1>2. g.n + 1 \in Nat
  OBVIOUS
<1> QED BY <1>1, <1>2, ZeroWords

\* A table is its count, then an entry of two or three words each.
LEMMA TableWords ==
    ASSUME NEW g, g.kinds \in Nat, g.names \in Nat
    PROVE  /\ Encode("kindTable", g) \in Seq(Nat) /\ Len(Encode("kindTable", g)) = 1 + 3 * g.kinds
           /\ Encode("kindTable", g)[1] = g.kinds
           /\ \A j \in 0 .. g.kinds - 1 : Encode("kindTable", g)[3 + 3 * j] = 1
           /\ Encode("propNames", g) \in Seq(Nat) /\ Len(Encode("propNames", g)) = 1 + 2 * g.names
           /\ Encode("propNames", g)[1] = g.names
           /\ \A j \in 0 .. g.names - 1 : Encode("propNames", g)[2 + 2 * j] = 1
<1>1. /\ Encode("kindTable", g) \in Seq(Nat) /\ Len(Encode("kindTable", g)) = 1 + 3 * g.kinds
      /\ Encode("kindTable", g)[1] = g.kinds
      /\ \A j \in 0 .. g.kinds - 1 : Encode("kindTable", g)[3 + 3 * j] = 1
  <2> DEFINE c == g.kinds
             s == <<0>> \o Str(1)
             t == Repeat(s, c)
             u == <<c>> \o t
  <2>1. Encode("kindTable", g) = u
    BY DEF Encode
  <2>2. s \in Seq(Nat) /\ Len(s) = 3 /\ s[2] = 1 /\ c \in Nat
    BY NameWords
  <2> HIDE DEF s, c
  <2>3. t \in Seq(Nat) /\ Len(t) = c * 3 /\ \A i \in 1 .. c * 3 : t[i] = s[((i - 1) % 3) + 1]
    <3>1. Len(s) \in {2, 3}
      BY <2>2
    <3>2. /\ t \in Seq(Nat) /\ Len(t) = c * Len(s)
          /\ \A i \in 1 .. c * Len(s) : t[i] = s[((i - 1) % Len(s)) + 1]
      BY <2>2, <3>1, RepeatWords, Zenon
    <3> QED BY <2>2, <3>2, Zenon
  <2> HIDE DEF t
  <2>4. u \in Seq(Nat) /\ Len(u) = 1 + Len(t) /\ u[1] = c /\ \A j \in 1 .. Len(t) : u[1 + j] = t[j]
    BY <2>2, <2>3, Prefixed, Zenon
  <2> HIDE DEF u
  <2>5. ASSUME NEW j \in 0 .. c - 1  PROVE u[3 + 3 * j] = 1
    <3>1. 2 + 3 * j \in 1 .. c * 3 /\ (((2 + 3 * j) - 1) % 3) + 1 = 2
      BY <2>2
    <3>2. t[2 + 3 * j] = 1
      BY <2>2, <2>3, <3>1
    <3>3. 1 + (2 + 3 * j) = 3 + 3 * j
      BY <2>2
    <3>4. u[1 + (2 + 3 * j)] = t[2 + 3 * j]
      BY <2>3, <2>4, <3>1
    <3> QED BY <3>2, <3>3, <3>4
  <2>6. Len(u) = 1 + 3 * c
    BY <2>2, <2>3, <2>4
  <2> QED BY <2>1, <2>4, <2>5, <2>6 DEF c
<1>2. /\ Encode("propNames", g) \in Seq(Nat) /\ Len(Encode("propNames", g)) = 1 + 2 * g.names
      /\ Encode("propNames", g)[1] = g.names
      /\ \A j \in 0 .. g.names - 1 : Encode("propNames", g)[2 + 2 * j] = 1
  <2> DEFINE c == g.names
             s == Str(1)
             t == Repeat(s, c)
             u == <<c>> \o t
  <2>1. Encode("propNames", g) = u
    BY DEF Encode
  <2>2. s \in Seq(Nat) /\ Len(s) = 2 /\ s[1] = 1 /\ c \in Nat
    BY NameWords
  <2> HIDE DEF s, c
  <2>3. t \in Seq(Nat) /\ Len(t) = c * 2 /\ \A i \in 1 .. c * 2 : t[i] = s[((i - 1) % 2) + 1]
    <3>1. Len(s) \in {2, 3}
      BY <2>2
    <3>2. /\ t \in Seq(Nat) /\ Len(t) = c * Len(s)
          /\ \A i \in 1 .. c * Len(s) : t[i] = s[((i - 1) % Len(s)) + 1]
      BY <2>2, <3>1, RepeatWords, Zenon
    <3> QED BY <2>2, <3>2, Zenon
  <2> HIDE DEF t
  <2>4. u \in Seq(Nat) /\ Len(u) = 1 + Len(t) /\ u[1] = c /\ \A j \in 1 .. Len(t) : u[1 + j] = t[j]
    BY <2>2, <2>3, Prefixed, Zenon
  <2> HIDE DEF u
  <2>5. ASSUME NEW j \in 0 .. c - 1  PROVE u[2 + 2 * j] = 1
    <3>1. 1 + 2 * j \in 1 .. c * 2 /\ (((1 + 2 * j) - 1) % 2) + 1 = 1
      BY <2>2
    <3>2. t[1 + 2 * j] = 1
      BY <2>2, <2>3, <3>1
    <3>3. 1 + (1 + 2 * j) = 2 + 2 * j
      BY <2>2
    <3>4. u[1 + (1 + 2 * j)] = t[1 + 2 * j]
      BY <2>3, <2>4, <3>1
    <3> QED BY <3>2, <3>3, <3>4
  <2>6. Len(u) = 1 + 2 * c
    BY <2>2, <2>3, <2>4
  <2> QED BY <2>1, <2>4, <2>5, <2>6 DEF c
<1> QED BY <1>1, <1>2

\* The entries and the arena open with their count.
LEMMA CountedWords ==
    ASSUME NEW g, g.names \in Nat
    PROVE  /\ Encode("propEntries", g) \in Seq(Nat) /\ Len(Encode("propEntries", g)) = 1 + 2 * g.names
           /\ Encode("propEntries", g)[1] = g.names
           /\ Encode("arena", g) \in Seq(Nat) /\ Len(Encode("arena", g)) = 1 + g.names
           /\ Encode("arena", g)[1] = g.names
<1>1. ASSUME NEW m \in Nat, NEW c \in Nat
      PROVE  <<c>> \o Zeros(m) \in Seq(Nat) /\ Len(<<c>> \o Zeros(m)) = 1 + m /\ (<<c>> \o Zeros(m))[1] = c
  <2>1. Zeros(m) \in Seq(Nat) /\ Len(Zeros(m)) = m
    BY ZeroWords
  <2>2. <<c>> \o Zeros(m) \in Seq(Nat) /\ Len(<<c>> \o Zeros(m)) = 1 + Len(Zeros(m)) /\ (<<c>> \o Zeros(m))[1] = c
    BY <2>1, Prefixed, Zenon
  <2> QED BY <2>1, <2>2
<1>2. Encode("propEntries", g) = <<g.names>> \o Zeros(2 * g.names) /\ Encode("arena", g) = <<g.names>> \o Zeros(g.names)
  BY DEF Encode, Str
<1>3. 2 * g.names \in Nat
  OBVIOUS
<1>4. /\ <<g.names>> \o Zeros(2 * g.names) \in Seq(Nat) /\ Len(<<g.names>> \o Zeros(2 * g.names)) = 1 + 2 * g.names
      /\ (<<g.names>> \o Zeros(2 * g.names))[1] = g.names
  BY <1>1, <1>3, Zenon
<1>5. /\ <<g.names>> \o Zeros(g.names) \in Seq(Nat) /\ Len(<<g.names>> \o Zeros(g.names)) = 1 + g.names
      /\ (<<g.names>> \o Zeros(g.names))[1] = g.names
  BY <1>1, Zenon
<1> QED BY <1>2, <1>4, <1>5, Zenon

\* A graph's counts are numbers.
Counts(g) == g.n \in Nat /\ g.e \in Nat /\ g.k \in Nat /\ g.kinds \in Nat /\ g.names \in Nat

\* The sections follow one another without a gap.
LEMMA SectionsMeet ==
    ASSUME NEW g, Counts(g)
    PROVE  /\ Starts(g)[1] = 0
           /\ \A i \in 1 .. 19 : Starts(g)[i] \in Nat
           /\ \A i \in 1 .. 18 : /\ Encode(Sections[i], g) \in Seq(Nat)
                                 /\ Starts(g)[i + 1] = Starts(g)[i] + Len(Encode(Sections[i], g))
<1>1. /\ Encode("version", g) \in Seq(Nat) /\ Len(Encode("version", g)) = 1
      /\ Encode("header", g) \in Seq(Nat) /\ Len(Encode("header", g)) = 1
      /\ Encode("n", g) \in Seq(Nat) /\ Len(Encode("n", g)) = 1
      /\ Encode("e", g) \in Seq(Nat) /\ Len(Encode("e", g)) = 1
      /\ Encode("k", g) \in Seq(Nat) /\ Len(Encode("k", g)) = 1
      /\ Encode("multiGraph", g) \in Seq(Nat) /\ Len(Encode("multiGraph", g)) = 1
      /\ Encode("droppedEdges", g) \in Seq(Nat) /\ Len(Encode("droppedEdges", g)) = 1
  BY FieldWords DEF Counts
<1>2. /\ Encode("graphIDs", g) \in Seq(Nat) /\ Len(Encode("graphIDs", g)) = g.n
      /\ Encode("outOffsets", g) \in Seq(Nat) /\ Len(Encode("outOffsets", g)) = g.n + 1
      /\ Encode("kindOffsets", g) \in Seq(Nat) /\ Len(Encode("kindOffsets", g)) = g.n + 1
      /\ Encode("nodeOffsets", g) \in Seq(Nat) /\ Len(Encode("nodeOffsets", g)) = g.n + 1
      /\ Encode("outTargets", g) \in Seq(Nat) /\ Len(Encode("outTargets", g)) = g.e
      /\ Encode("edgeIDPerm", g) \in Seq(Nat) /\ Len(Encode("edgeIDPerm", g)) = g.e
      /\ Encode("nodeKinds", g) \in Seq(Nat) /\ Len(Encode("nodeKinds", g)) = g.k
  BY ArrayWords DEF Counts
<1>3. /\ Encode("kindTable", g) \in Seq(Nat) /\ Len(Encode("kindTable", g)) = 1 + 3 * g.kinds
      /\ Encode("propNames", g) \in Seq(Nat) /\ Len(Encode("propNames", g)) = 1 + 2 * g.names
  BY TableWords DEF Counts
<1>4. /\ Encode("propEntries", g) \in Seq(Nat) /\ Len(Encode("propEntries", g)) = 1 + 2 * g.names
      /\ Encode("arena", g) \in Seq(Nat) /\ Len(Encode("arena", g)) = 1 + g.names
  BY CountedWords DEF Counts
<1>0. /\ Starts(g)[1] = 0
      /\ Starts(g)[2] = 1
      /\ Starts(g)[3] = 2
      /\ Starts(g)[4] = 3
      /\ Starts(g)[5] = 4
      /\ Starts(g)[6] = 5
      /\ Starts(g)[7] = 5 + g.n
      /\ Starts(g)[8] = 6 + 2 * g.n
      /\ Starts(g)[9] = 6 + 2 * g.n + g.e
      /\ Starts(g)[10] = 7 + 3 * g.n + g.e
      /\ Starts(g)[11] = 7 + 3 * g.n + g.e + g.k
      /\ Starts(g)[12] = 7 + 3 * g.n + 2 * g.e + g.k
      /\ Starts(g)[13] = 8 + 3 * g.n + 2 * g.e + g.k + 3 * g.kinds
      /\ Starts(g)[14] = 9 + 3 * g.n + 2 * g.e + g.k + 3 * g.kinds + 2 * g.names
      /\ Starts(g)[15] = 10 + 3 * g.n + 2 * g.e + g.k + 3 * g.kinds + 4 * g.names
      /\ Starts(g)[16] = 11 + 4 * g.n + 2 * g.e + g.k + 3 * g.kinds + 4 * g.names
      /\ Starts(g)[17] = 12 + 4 * g.n + 2 * g.e + g.k + 3 * g.kinds + 5 * g.names
      /\ Starts(g)[18] = 13 + 4 * g.n + 2 * g.e + g.k + 3 * g.kinds + 5 * g.names
      /\ Starts(g)[19] = 14 + 4 * g.n + 2 * g.e + g.k + 3 * g.kinds + 5 * g.names
  BY DEF Starts
<1>5. \A i \in 1 .. 18 : /\ Encode(Sections[i], g) \in Seq(Nat)
                         /\ Starts(g)[i + 1] = Starts(g)[i] + Len(Encode(Sections[i], g))
  <2> SUFFICES ASSUME NEW i \in 1 .. 18
               PROVE  /\ Encode(Sections[i], g) \in Seq(Nat)
                      /\ Starts(g)[i + 1] = Starts(g)[i] + Len(Encode(Sections[i], g))
    OBVIOUS
  <2>1. CASE i = 1
    <3>1. Sections[1] = "version"
      BY DEF Sections
    <3>2. 1 = 0 + 1
      BY DEF Counts
    <3>3. Encode("version", g) \in Seq(Nat) /\ Starts(g)[2] = Starts(g)[1] + Len(Encode("version", g))
      BY <1>0, <1>1, <3>2, Zenon
    <3> QED BY <2>1, <3>1, <3>3
  <2>2. CASE i = 2
    <3>1. Sections[2] = "header"
      BY DEF Sections
    <3>2. 2 = 1 + 1
      BY DEF Counts
    <3>3. Encode("header", g) \in Seq(Nat) /\ Starts(g)[3] = Starts(g)[2] + Len(Encode("header", g))
      BY <1>0, <1>1, <3>2, Zenon
    <3> QED BY <2>2, <3>1, <3>3
  <2>3. CASE i = 3
    <3>1. Sections[3] = "n"
      BY DEF Sections
    <3>2. 3 = 2 + 1
      BY DEF Counts
    <3>3. Encode("n", g) \in Seq(Nat) /\ Starts(g)[4] = Starts(g)[3] + Len(Encode("n", g))
      BY <1>0, <1>1, <3>2, Zenon
    <3> QED BY <2>3, <3>1, <3>3
  <2>4. CASE i = 4
    <3>1. Sections[4] = "e"
      BY DEF Sections
    <3>2. 4 = 3 + 1
      BY DEF Counts
    <3>3. Encode("e", g) \in Seq(Nat) /\ Starts(g)[5] = Starts(g)[4] + Len(Encode("e", g))
      BY <1>0, <1>1, <3>2, Zenon
    <3> QED BY <2>4, <3>1, <3>3
  <2>5. CASE i = 5
    <3>1. Sections[5] = "k"
      BY DEF Sections
    <3>2. 5 = 4 + 1
      BY DEF Counts
    <3>3. Encode("k", g) \in Seq(Nat) /\ Starts(g)[6] = Starts(g)[5] + Len(Encode("k", g))
      BY <1>0, <1>1, <3>2, Zenon
    <3> QED BY <2>5, <3>1, <3>3
  <2>6. CASE i = 6
    <3>1. Sections[6] = "graphIDs"
      BY DEF Sections
    <3>2. 5 + g.n = 5 + g.n
      BY DEF Counts
    <3>3. Encode("graphIDs", g) \in Seq(Nat) /\ Starts(g)[7] = Starts(g)[6] + Len(Encode("graphIDs", g))
      BY <1>0, <1>2, <3>2, Zenon
    <3> QED BY <2>6, <3>1, <3>3
  <2>7. CASE i = 7
    <3>1. Sections[7] = "outOffsets"
      BY DEF Sections
    <3>2. 6 + 2 * g.n = 5 + g.n + (g.n + 1)
      BY DEF Counts
    <3>3. Encode("outOffsets", g) \in Seq(Nat) /\ Starts(g)[8] = Starts(g)[7] + Len(Encode("outOffsets", g))
      BY <1>0, <1>2, <3>2, Zenon
    <3> QED BY <2>7, <3>1, <3>3
  <2>8. CASE i = 8
    <3>1. Sections[8] = "outTargets"
      BY DEF Sections
    <3>2. 6 + 2 * g.n + g.e = 6 + 2 * g.n + g.e
      BY DEF Counts
    <3>3. Encode("outTargets", g) \in Seq(Nat) /\ Starts(g)[9] = Starts(g)[8] + Len(Encode("outTargets", g))
      BY <1>0, <1>2, <3>2, Zenon
    <3> QED BY <2>8, <3>1, <3>3
  <2>9. CASE i = 9
    <3>1. Sections[9] = "kindOffsets"
      BY DEF Sections
    <3>2. 7 + 3 * g.n + g.e = 6 + 2 * g.n + g.e + (g.n + 1)
      BY DEF Counts
    <3>3. Encode("kindOffsets", g) \in Seq(Nat) /\ Starts(g)[10] = Starts(g)[9] + Len(Encode("kindOffsets", g))
      BY <1>0, <1>2, <3>2, Zenon
    <3> QED BY <2>9, <3>1, <3>3
  <2>10. CASE i = 10
    <3>1. Sections[10] = "nodeKinds"
      BY DEF Sections
    <3>2. 7 + 3 * g.n + g.e + g.k = 7 + 3 * g.n + g.e + g.k
      BY DEF Counts
    <3>3. Encode("nodeKinds", g) \in Seq(Nat) /\ Starts(g)[11] = Starts(g)[10] + Len(Encode("nodeKinds", g))
      BY <1>0, <1>2, <3>2, Zenon
    <3> QED BY <2>10, <3>1, <3>3
  <2>11. CASE i = 11
    <3>1. Sections[11] = "edgeIDPerm"
      BY DEF Sections
    <3>2. 7 + 3 * g.n + 2 * g.e + g.k = 7 + 3 * g.n + g.e + g.k + g.e
      BY DEF Counts
    <3>3. Encode("edgeIDPerm", g) \in Seq(Nat) /\ Starts(g)[12] = Starts(g)[11] + Len(Encode("edgeIDPerm", g))
      BY <1>0, <1>2, <3>2, Zenon
    <3> QED BY <2>11, <3>1, <3>3
  <2>12. CASE i = 12
    <3>1. Sections[12] = "kindTable"
      BY DEF Sections
    <3>2. 8 + 3 * g.n + 2 * g.e + g.k + 3 * g.kinds = 7 + 3 * g.n + 2 * g.e + g.k + (1 + 3 * g.kinds)
      BY DEF Counts
    <3>3. Encode("kindTable", g) \in Seq(Nat) /\ Starts(g)[13] = Starts(g)[12] + Len(Encode("kindTable", g))
      BY <1>0, <1>3, <3>2, Zenon
    <3> QED BY <2>12, <3>1, <3>3
  <2>13. CASE i = 13
    <3>1. Sections[13] = "propNames"
      BY DEF Sections
    <3>2. 9 + 3 * g.n + 2 * g.e + g.k + 3 * g.kinds + 2 * g.names = 8 + 3 * g.n + 2 * g.e + g.k + 3 * g.kinds + (1 + 2 * g.names)
      BY DEF Counts
    <3>3. Encode("propNames", g) \in Seq(Nat) /\ Starts(g)[14] = Starts(g)[13] + Len(Encode("propNames", g))
      BY <1>0, <1>3, <3>2, Zenon
    <3> QED BY <2>13, <3>1, <3>3
  <2>14. CASE i = 14
    <3>1. Sections[14] = "propEntries"
      BY DEF Sections
    <3>2. 10 + 3 * g.n + 2 * g.e + g.k + 3 * g.kinds + 4 * g.names = 9 + 3 * g.n + 2 * g.e + g.k + 3 * g.kinds + 2 * g.names + (1 + 2 * g.names)
      BY DEF Counts
    <3>3. Encode("propEntries", g) \in Seq(Nat) /\ Starts(g)[15] = Starts(g)[14] + Len(Encode("propEntries", g))
      BY <1>0, <1>4, <3>2, Zenon
    <3> QED BY <2>14, <3>1, <3>3
  <2>15. CASE i = 15
    <3>1. Sections[15] = "nodeOffsets"
      BY DEF Sections
    <3>2. 11 + 4 * g.n + 2 * g.e + g.k + 3 * g.kinds + 4 * g.names = 10 + 3 * g.n + 2 * g.e + g.k + 3 * g.kinds + 4 * g.names + (g.n + 1)
      <4>1. ASSUME NEW n \in Nat, NEW e \in Nat, NEW k \in Nat, NEW kinds \in Nat, NEW p \in Nat
            PROVE  11 + 4 * n + 2 * e + k + 3 * kinds + 4 * p = 10 + 3 * n + 2 * e + k + 3 * kinds + 4 * p + (n + 1)
        OBVIOUS
      <4>2. g.n \in Nat /\ g.e \in Nat /\ g.k \in Nat /\ g.kinds \in Nat /\ g.names \in Nat
        BY DEF Counts
      <4> QED BY <4>1, <4>2
    <3>3. Encode("nodeOffsets", g) \in Seq(Nat) /\ Starts(g)[16] = Starts(g)[15] + Len(Encode("nodeOffsets", g))
      BY <1>0, <1>2, <3>2, Zenon
    <3> QED BY <2>15, <3>1, <3>3
  <2>16. CASE i = 16
    <3>1. Sections[16] = "arena"
      BY DEF Sections
    <3>2. 12 + 4 * g.n + 2 * g.e + g.k + 3 * g.kinds + 5 * g.names = 11 + 4 * g.n + 2 * g.e + g.k + 3 * g.kinds + 4 * g.names + (1 + g.names)
      BY DEF Counts
    <3>3. Encode("arena", g) \in Seq(Nat) /\ Starts(g)[17] = Starts(g)[16] + Len(Encode("arena", g))
      BY <1>0, <1>4, <3>2, Zenon
    <3> QED BY <2>16, <3>1, <3>3
  <2>17. CASE i = 17
    <3>1. Sections[17] = "multiGraph"
      BY DEF Sections
    <3>2. 13 + 4 * g.n + 2 * g.e + g.k + 3 * g.kinds + 5 * g.names = 12 + 4 * g.n + 2 * g.e + g.k + 3 * g.kinds + 5 * g.names + 1
      BY DEF Counts
    <3>3. Encode("multiGraph", g) \in Seq(Nat) /\ Starts(g)[18] = Starts(g)[17] + Len(Encode("multiGraph", g))
      BY <1>0, <1>1, <3>2, Zenon
    <3> QED BY <2>17, <3>1, <3>3
  <2>18. CASE i = 18
    <3>1. Sections[18] = "droppedEdges"
      BY DEF Sections
    <3>2. 14 + 4 * g.n + 2 * g.e + g.k + 3 * g.kinds + 5 * g.names = 13 + 4 * g.n + 2 * g.e + g.k + 3 * g.kinds + 5 * g.names + 1
      BY DEF Counts
    <3>3. Encode("droppedEdges", g) \in Seq(Nat) /\ Starts(g)[19] = Starts(g)[18] + Len(Encode("droppedEdges", g))
      BY <1>0, <1>1, <3>2, Zenon
    <3> QED BY <2>18, <3>1, <3>3
  <2> QED BY <2>1, <2>2, <2>3, <2>4, <2>5, <2>6, <2>7, <2>8, <2>9, <2>10, <2>11, <2>12, <2>13, <2>14, <2>15, <2>16, <2>17, <2>18
<1>6. Starts(g)[1] = 0 /\ \A i \in 1 .. 19 : Starts(g)[i] \in Nat
  BY <1>0 DEF Counts
<1> QED BY <1>5, <1>6

\* b is the first i sections of g's file, each in its place.
Laid(b, g, i) ==
    /\ b \in Seq(Nat) /\ Len(b) = Starts(g)[i + 1]
    /\ \A j \in 1 .. i : Holds(b, Starts(g)[j], Encode(Sections[j], g))

\* Writing one more section.
LEMMA SectionLaid ==
    ASSUME NEW g, Counts(g), NEW b, NEW i \in 1 .. 17, Laid(b, g, i)
    PROVE  Laid(b \o Encode(Sections[i + 1], g), g, i + 1)
<1> DEFINE s == Encode(Sections[i + 1], g)
<1>1. i + 1 \in 1 .. 18 /\ i + 1 + 1 \in 1 .. 19
  OBVIOUS
<1>2. s \in Seq(Nat) /\ Starts(g)[i + 1 + 1] = Starts(g)[i + 1] + Len(s)
  BY <1>1, SectionsMeet
<1>3. b \in Seq(Nat) /\ Len(b) = Starts(g)[i + 1]
  BY DEF Laid
<1> HIDE DEF s
<1>4. /\ b \o s \in Seq(Nat) /\ Len(b \o s) = Len(b) + Len(s) /\ Holds(b \o s, Len(b), s)
      /\ \A p \in Nat, t \in Seq(Nat) : Holds(b, p, t) => Holds(b \o s, p, t)
  BY <1>2, <1>3, NextSection, Zenon
<1>5. ASSUME NEW j \in 1 .. i  PROVE Holds(b \o s, Starts(g)[j], Encode(Sections[j], g))
  <2>1. j \in 1 .. 18 /\ j \in 1 .. 19
    OBVIOUS
  <2>2. Starts(g)[j] \in Nat /\ Encode(Sections[j], g) \in Seq(Nat)
    BY <2>1, SectionsMeet
  <2>3. Holds(b, Starts(g)[j], Encode(Sections[j], g))
    BY DEF Laid
  <2> QED BY <1>4, <2>2, <2>3, Zenon
<1>6. Holds(b \o s, Starts(g)[i + 1], Encode(Sections[i + 1], g))
  BY <1>3, <1>4, Zenon DEF s
<1>7. \A j \in 1 .. i + 1 : j \in 1 .. i \/ j = i + 1
  OBVIOUS
<1>8. \A j \in 1 .. i + 1 : Holds(b \o s, Starts(g)[j], Encode(Sections[j], g))
  BY <1>5, <1>6, <1>7, Zenon
<1>9. b \o s \in Seq(Nat) /\ Len(b \o s) = Starts(g)[i + 1 + 1]
  BY <1>2, <1>3, <1>4, Zenon
<1> QED BY <1>8, <1>9, Zenon DEF Laid, s

\* writeSnapshotBody lays every section of the graph down in its place.
LEMMA BodyLaid == ASSUME NEW g, Counts(g)  PROVE Laid(Body(g), g, 18)
<1> DEFINE b1 == Encode("version", g)
           b2 == b1 \o Encode("header", g)
           b3 == b2 \o Encode("n", g)
           b4 == b3 \o Encode("e", g)
           b5 == b4 \o Encode("k", g)
           b6 == b5 \o Encode("graphIDs", g)
           b7 == b6 \o Encode("outOffsets", g)
           b8 == b7 \o Encode("outTargets", g)
           b9 == b8 \o Encode("kindOffsets", g)
           b10 == b9 \o Encode("nodeKinds", g)
           b11 == b10 \o Encode("edgeIDPerm", g)
           b12 == b11 \o Encode("kindTable", g)
           b13 == b12 \o Encode("propNames", g)
           b14 == b13 \o Encode("propEntries", g)
           b15 == b14 \o Encode("nodeOffsets", g)
           b16 == b15 \o Encode("arena", g)
           b17 == b16 \o Encode("multiGraph", g)
           b18 == b17 \o Encode("droppedEdges", g)
<1>0. /\ Sections[1] = "version"
      /\ Sections[2] = "header"
      /\ Sections[3] = "n"
      /\ Sections[4] = "e"
      /\ Sections[5] = "k"
      /\ Sections[6] = "graphIDs"
      /\ Sections[7] = "outOffsets"
      /\ Sections[8] = "outTargets"
      /\ Sections[9] = "kindOffsets"
      /\ Sections[10] = "nodeKinds"
      /\ Sections[11] = "edgeIDPerm"
      /\ Sections[12] = "kindTable"
      /\ Sections[13] = "propNames"
      /\ Sections[14] = "propEntries"
      /\ Sections[15] = "nodeOffsets"
      /\ Sections[16] = "arena"
      /\ Sections[17] = "multiGraph"
      /\ Sections[18] = "droppedEdges"
  BY DEF Sections
<1>1. Laid(b1, g, 1)
  <2>1. b1 \in Seq(Nat) /\ Len(b1) = 1
    BY FieldWords DEF Counts
  <2>2. Starts(g)[1] = 0 /\ Starts(g)[1 + 1] = 1
    BY DEF Starts
  <2> HIDE DEF b1
  <2>3. Holds(b1, 0, b1)
    BY <2>1 DEF Holds
  <2>4. \A j \in 1 .. 1 : j = 1
    OBVIOUS
  <2> QED BY <1>0, <2>1, <2>2, <2>3, <2>4 DEF Laid, b1
<1> HIDE DEF b1
<1>2. Laid(b2, g, 2)
  BY <1>0, <1>1, SectionLaid
<1> HIDE DEF b2
<1>3. Laid(b3, g, 3)
  BY <1>0, <1>2, SectionLaid
<1> HIDE DEF b3
<1>4. Laid(b4, g, 4)
  BY <1>0, <1>3, SectionLaid
<1> HIDE DEF b4
<1>5. Laid(b5, g, 5)
  BY <1>0, <1>4, SectionLaid
<1> HIDE DEF b5
<1>6. Laid(b6, g, 6)
  BY <1>0, <1>5, SectionLaid
<1> HIDE DEF b6
<1>7. Laid(b7, g, 7)
  BY <1>0, <1>6, SectionLaid
<1> HIDE DEF b7
<1>8. Laid(b8, g, 8)
  BY <1>0, <1>7, SectionLaid
<1> HIDE DEF b8
<1>9. Laid(b9, g, 9)
  BY <1>0, <1>8, SectionLaid
<1> HIDE DEF b9
<1>10. Laid(b10, g, 10)
  BY <1>0, <1>9, SectionLaid
<1> HIDE DEF b10
<1>11. Laid(b11, g, 11)
  BY <1>0, <1>10, SectionLaid
<1> HIDE DEF b11
<1>12. Laid(b12, g, 12)
  BY <1>0, <1>11, SectionLaid
<1> HIDE DEF b12
<1>13. Laid(b13, g, 13)
  BY <1>0, <1>12, SectionLaid
<1> HIDE DEF b13
<1>14. Laid(b14, g, 14)
  BY <1>0, <1>13, SectionLaid
<1> HIDE DEF b14
<1>15. Laid(b15, g, 15)
  BY <1>0, <1>14, SectionLaid
<1> HIDE DEF b15
<1>16. Laid(b16, g, 16)
  BY <1>0, <1>15, SectionLaid
<1> HIDE DEF b16
<1>17. Laid(b17, g, 17)
  BY <1>0, <1>16, SectionLaid
<1> HIDE DEF b17
<1>18. Laid(b18, g, 18)
  BY <1>0, <1>17, SectionLaid
<1> HIDE DEF b18
<1>19. Body(g) = b18
  BY Zenon DEF Body, b1, b2, b3, b4, b5, b6, b7, b8, b9, b10, b11, b12, b13, b14, b15, b16, b17, b18
<1> QED BY <1>18, <1>19

\* No section reaches past the end of the file.
LEMMA SectionsFit ==
    ASSUME NEW g, Counts(g)
    PROVE  \A i \in 1 .. 19 : Starts(g)[i] <= Starts(g)[19]
<1>1. \A i \in 1 .. 19 : Starts(g)[i] \in Nat
  BY SectionsMeet
<1>2. \A i \in 1 .. 18 : Starts(g)[i] <= Starts(g)[i + 1]
  <2> SUFFICES ASSUME NEW i \in 1 .. 18  PROVE Starts(g)[i] <= Starts(g)[i + 1]
    OBVIOUS
  <2>1. Encode(Sections[i], g) \in Seq(Nat) /\ Starts(g)[i + 1] = Starts(g)[i] + Len(Encode(Sections[i], g))
    BY SectionsMeet
  <2>2. Len(Encode(Sections[i], g)) \in Nat
    BY <2>1
  <2>3. i \in 1 .. 19
    OBVIOUS
  <2>4. Starts(g)[i] \in Nat
    BY <1>1, <2>3
  <2> QED BY <2>1, <2>2, <2>4
<1> DEFINE S(i) == Starts(g)[i]
<1>3. \A i \in 1 .. 19 : S(i) \in Nat
  BY <1>1
<1>4. \A i \in 1 .. 18 : S(i) <= S(i + 1)
  BY <1>2
<1> HIDE DEF S
<1>5. /\ S(1) <= S(2) /\ S(2) <= S(3) /\ S(3) <= S(4) /\ S(4) <= S(5) /\ S(5) <= S(6) /\ S(6) <= S(7)
      /\ S(7) <= S(8) /\ S(8) <= S(9) /\ S(9) <= S(10) /\ S(10) <= S(11) /\ S(11) <= S(12) /\ S(12) <= S(13)
      /\ S(13) <= S(14) /\ S(14) <= S(15) /\ S(15) <= S(16) /\ S(16) <= S(17) /\ S(17) <= S(18) /\ S(18) <= S(19)
  BY <1>4
<1>6. \A i \in 1 .. 19 : S(i) <= S(19)
  BY <1>3, <1>5
<1> QED BY <1>6 DEF S

\* Two files with the same words are the same.
LEMMA SameWords ==
    ASSUME NEW s \in Seq(Nat), NEW t \in Seq(Nat), Len(s) = Len(t), \A j \in 1 .. Len(t) : s[j] = t[j]
    PROVE  s = t
<1>1. s = [j \in 1 .. Len(s) |-> s[j]] /\ t = [j \in 1 .. Len(t) |-> t[j]]
  OBVIOUS
<1> QED BY <1>1, Zenon

\* The file that was written.
LEMMA WholeFile ==
    ASSUME BudgetInv, Counts(graph), Whole
    PROVE  /\ Size \in Nat /\ Len(words) = 1 + Starts(graph)[19] /\ Size >= 1 + Len(words)
           /\ words # <<>> /\ words[1] = Magic /\ Tail(words) = Body(graph)
           /\ HasCrc /\ crc[1] = Body(graph)
           /\ \A i \in 1 .. 18 : \A j \in 1 .. Len(Encode(Sections[i], graph)) :
                words[1 + Starts(graph)[i] + j] = Encode(Sections[i], graph)[j]
<1> DEFINE b == Body(graph)
<1>1. b \in Seq(Nat) /\ Len(b) = Starts(graph)[19] /\ \A i \in 1 .. 18 : Holds(b, Starts(graph)[i], Encode(Sections[i], graph))
  <2>1. Laid(b, graph, 18)
    BY BodyLaid
  <2>2. 18 + 1 = 19
    OBVIOUS
  <2> QED BY <2>1, <2>2 DEF Laid
<1>2. words = <<Magic>> \o b /\ crc = <<b>> /\ tail \in Nat
  BY DEF Whole, BudgetInv, FileType
<1> HIDE DEF b
<1>3. Magic \in Nat
  BY DEF Magic
<1>4. /\ words \in Seq(Nat) /\ Len(words) = 1 + Len(b) /\ words[1] = Magic
      /\ \A j \in 1 .. Len(b) : words[1 + j] = b[j]
  <2>1. /\ <<Magic>> \o b \in Seq(Nat) /\ Len(<<Magic>> \o b) = 1 + Len(b) /\ (<<Magic>> \o b)[1] = Magic
        /\ \A j \in 1 .. Len(b) : (<<Magic>> \o b)[1 + j] = b[j]
    BY <1>1, <1>3, Prefixed, Zenon
  <2> QED BY <1>2, <2>1, Zenon
<1>5. Len(crc) = 1 /\ crc[1] = b /\ crc # <<>>
  <2>1. \A x : Len(<<x>>) = 1 /\ <<x>>[1] = x /\ <<x>> # <<>>
    OBVIOUS
  <2> QED BY <1>2, <2>1, Zenon
<1>6. Len(b) \in Nat
  BY <1>1
<1>7. Size \in Nat /\ Size >= 1 + Len(words) /\ words # <<>>
  BY <1>2, <1>4, <1>5, <1>6 DEF Size
<1>8. Tail(words) = b
  <2>1. Tail(words) \in Seq(Nat) /\ Len(Tail(words)) = Len(b) /\ \A j \in 1 .. Len(b) : Tail(words)[j] = words[1 + j]
    <3>1. ASSUME NEW t \in Seq(Nat), Len(t) >= 1
          PROVE  Tail(t) \in Seq(Nat) /\ Len(Tail(t)) = Len(t) - 1 /\ \A j \in 1 .. Len(t) - 1 : Tail(t)[j] = t[1 + j]
      BY <3>1
    <3>2. Len(words) >= 1 /\ Len(words) - 1 = Len(b)
      BY <1>4, <1>6
    <3> QED BY <1>4, <3>1, <3>2, Zenon
  <2> DEFINE t == Tail(words)
  <2>2. t \in Seq(Nat) /\ Len(t) = Len(b) /\ \A j \in 1 .. Len(b) : t[j] = b[j]
    BY <1>4, <2>1
  <2> HIDE DEF t
  <2>3. t = b
    BY <1>1, <2>2, SameWords, Zenon
  <2> QED BY <2>3 DEF t
<1>9. ASSUME NEW i \in 1 .. 18, NEW j \in 1 .. Len(Encode(Sections[i], graph))
      PROVE  words[1 + Starts(graph)[i] + j] = Encode(Sections[i], graph)[j]
  <2> DEFINE s == Encode(Sections[i], graph)
             p == Starts(graph)[i]
  <2>1. p \in Nat /\ Len(s) \in Nat /\ j \in 1 .. Len(s)
    <3>1. i \in 1 .. 19
      OBVIOUS
    <3>2. p \in Nat /\ s \in Seq(Nat)
      BY <3>1, SectionsMeet
    <3> QED BY <3>2
  <2>2. Holds(b, p, s)
    BY <1>1
  <2> HIDE DEF s, p
  <2>3. p + j \in 1 .. Len(b) /\ b[p + j] = s[j] /\ 1 + (p + j) = 1 + p + j
    BY <1>6, <2>1, <2>2 DEF Holds
  <2>4. words[1 + (p + j)] = b[p + j]
    BY <1>4, <2>3
  <2>5. words[1 + p + j] = s[j]
    BY <2>3, <2>4
  <2> QED BY <2>5 DEF s, p
<1> QED BY <1>1, <1>4, <1>5, <1>7, <1>8, <1>9 DEF b, HasCrc

\* An array that lies in the file is read.
LEMMA ArrayRead ==
    ASSUME Size \in Nat, NEW r \in Reader, r.left = Size - r.pos, NEW n \in Nat, n <= MaxReadAlloc, MaxReadAlloc \in Nat,
           NEW w \in {1, 2}, r.pos + n * w <= Size
    PROVE  ReadArray(r, n, w) = [r EXCEPT !.alloc = n * w, !.pos = r.pos + n * w, !.left = r.left - n * w, !.at = r.at + 1]
<1>1. n * w \in Nat /\ r.pos \in Nat /\ r.left \in Int
  BY DEF Reader
<1>2. r.left >= n * w /\ r.left >= 0 /\ r.pos + n * w <= Size + 1
  BY <1>1
<1>3. n <= r.left \div w
  <2>1. CASE w = 1
    BY <1>1, <1>2, <2>1
  <2>2. CASE w = 2
    BY <1>1, <1>2, <2>2
  <2> QED BY <2>1, <2>2
<1>4. Claim(r, n, w)
  BY <1>2, <1>3 DEF Claim
<1>5. ReadArray(r, n, w) = Done(Consume([r EXCEPT !.alloc = n * w], n * w))
  BY <1>2, <1>4, Zenon DEF ReadArray
<1> DEFINE m == n * w
<1> HIDE DEF m
<1>6. Done(Consume([r EXCEPT !.alloc = m], m)) = [r EXCEPT !.alloc = m, !.pos = r.pos + m, !.left = r.left - m, !.at = r.at + 1]
  BY DEF Done, Consume, Reader
<1> QED BY <1>5, <1>6 DEF m
-----------------------------------------------------------------------------
\* A table's entries, in words, and how many there are.
Wide == IF rd.at = 12 THEN 3 ELSE 2
Entries == IF rd.at = 12 THEN graph.kinds ELSE graph.names

\* Where a reader of the written file is, and what it has read by then.
InPlace ==
    /\ rd.at \in 1 .. 19 /\ rd.left = Size - rd.pos
    /\ rd.at > 3 => rd.n = graph.n
    /\ rd.at > 4 => rd.e = graph.e
    /\ rd.at > 5 => rd.k = graph.k
    /\ rd.pc = "body" => rd.pos = 2 + Starts(graph)[rd.at]
    /\ rd.pc = "table" => /\ rd.at \in {12, 13} /\ rd.items \in 1 .. Entries
                          /\ rd.pos = 3 + Starts(graph)[rd.at] + Wide * (Entries - rd.items)

\* The checksum is the one that was written or gone; a reader past the magic saw
\* it; and a reader of the written file is where that file says it should be.
ReadInv ==
    /\ BudgetInv /\ graph \in Graph /\ crc \in {<<>>, <<Body(graph)>>}
    /\ rd.pc \in {"body", "table", "accepted"} => words # <<>> /\ words[1] = Magic
    /\ rd.pc = "accepted" => Whole
    /\ Whole => rd.pc # "rejected" /\ (rd.pc \in {"body", "table"} => InPlace)

\* A reader in the middle of the file that was written.
InWhole == FormatConstants /\ BudgetInv /\ graph \in Graph /\ Whole /\ InPlace

\* What the graph's counts are bounded by.
LEMMA GraphCounts ==
    ASSUME FormatConstants, graph \in Graph
    PROVE  /\ Counts(graph)
           /\ \A c \in {graph.n, graph.e, graph.k, graph.kinds, graph.names} :
                c \in Nat /\ c <= MaxCount /\ c < MaxWord /\ c < MaxReadAlloc /\ c <= MaxTable
BY DEF FormatConstants, Graph, Counts

\* Which section stands where.
LEMMA SectionAt ==
    ASSUME NEW i \in 1 .. 18
    PROVE  /\ Sections[i] = "version" <=> i = 1
           /\ Sections[i] = "n" <=> i = 3
           /\ Sections[i] = "e" <=> i = 4
           /\ Sections[i] = "k" <=> i = 5
           /\ Sections[i] = "kindTable" <=> i = 12
           /\ Sections[i] = "propNames" <=> i = 13
           /\ Sections[i] \in {"graphIDs", "outOffsets", "kindOffsets", "nodeOffsets",
                               "outTargets", "edgeIDPerm", "nodeKinds", "propEntries", "arena"} => i > 5
BY DEF Sections

\* writeSnapshotBody's sections.
LEMMA EighteenSections == Len(Sections) = 18
BY DEF Sections

\* The field a section opens with is the one that was written.
LEMMA FieldHere ==
    ASSUME InWhole, rd.pc = "body", rd.at \in 1 .. 18, Len(Encode(Section, graph)) >= 1
    PROVE  FieldAt(rd.pos) = {Encode(Section, graph)[1]}
<1> DEFINE s == Encode(Section, graph)
           p == Starts(graph)[rd.at]
<1>1. Counts(graph)
  BY GraphCounts DEF InWhole
<1>2. s = Encode(Sections[rd.at], graph) /\ rd.pos = 2 + p
  BY DEF Section, InWhole, InPlace
<1>3. s \in Seq(Nat) /\ p \in Nat /\ Starts(graph)[rd.at + 1] = p + Len(s) /\ rd.at \in 1 .. 19 /\ rd.at + 1 \in 1 .. 19
  <2>1. rd.at \in 1 .. 19 /\ rd.at + 1 \in 1 .. 19
    OBVIOUS
  <2> QED BY <1>1, <1>2, <2>1, SectionsMeet
<1>4. Starts(graph)[rd.at + 1] <= Starts(graph)[19] /\ Starts(graph)[19] \in Nat
  <2>1. 19 \in 1 .. 19
    OBVIOUS
  <2> QED BY <1>1, <1>3, <2>1, SectionsFit, SectionsMeet
<1>5. Len(words) = 1 + Starts(graph)[19]
  BY <1>1, WholeFile DEF InWhole
<1>6. \A j \in 1 .. Len(s) : words[1 + p + j] = s[j]
  BY <1>1, <1>2, WholeFile DEF InWhole
<1>7. Len(s) \in Nat /\ Len(s) >= 1
  BY <1>3
<1> HIDE DEF s, p
<1>8. rd.pos = 1 + p + 1 /\ 1 \in 1 .. Len(s)
  BY <1>2, <1>3, <1>7
<1>9. words[rd.pos] = s[1]
  BY <1>6, <1>8
<1>10. rd.pos <= Len(words)
  BY <1>2, <1>3, <1>4, <1>5, <1>7
<1> QED BY <1>9, <1>10 DEF FieldAt, s

\* A reader that took a whole section is in place for the next.
LEMMA SectionRead ==
    ASSUME InWhole, rd.pc = "body", rd.at \in 1 .. 18, UNCHANGED fileVars,
           rd'.pc = "body", rd'.at = rd.at + 1,
           NEW len, len = Len(Encode(Section, graph)), rd'.pos = rd.pos + len, rd'.left = rd.left - len,
           rd'.n = IF rd.at = 3 THEN graph.n ELSE rd.n,
           rd'.e = IF rd.at = 4 THEN graph.e ELSE rd.e,
           rd'.k = IF rd.at = 5 THEN graph.k ELSE rd.k
    PROVE  InPlace'
<1>1. Counts(graph) /\ rd \in Reader /\ Size \in Nat
  BY GraphCounts, SizeIsNat DEF InWhole, BudgetInv
<1>2. rd.at \in 1 .. 19 /\ rd.at + 1 \in 1 .. 19
  OBVIOUS
<1>3. Encode(Section, graph) \in Seq(Nat) /\ Starts(graph)[rd.at] \in Nat
      /\ Starts(graph)[rd.at + 1] = Starts(graph)[rd.at] + len
  BY <1>1, <1>2, SectionsMeet DEF Section
<1>4. len \in Nat /\ rd.pos = 2 + Starts(graph)[rd.at] /\ rd.left = Size - rd.pos /\ rd.pos \in Nat
  BY <1>1, <1>3 DEF InWhole, InPlace, Reader
<1>5. graph' = graph /\ Size' = Size
  BY DEF fileVars, Size
<1>6. /\ rd.at > 3 => rd.n = graph.n
      /\ rd.at > 4 => rd.e = graph.e
      /\ rd.at > 5 => rd.k = graph.k
  BY DEF InWhole, InPlace
<1>7. rd'.pos = 2 + Starts(graph)[rd.at + 1] /\ rd'.left = Size - rd'.pos
  <2> DEFINE a == Starts(graph)[rd.at]
             z == Starts(graph)[rd.at + 1]
             sz == Size
             p == rd.pos
             l == rd.left
  <2>1. a \in Nat /\ len \in Nat /\ sz \in Nat /\ p \in Nat /\ z = a + len /\ p = 2 + a /\ l = sz - p
    BY <1>1, <1>3, <1>4, Zenon
  <2>2. rd'.pos = p + len /\ rd'.left = l - len
    OBVIOUS
  <2> HIDE DEF a, z, sz, p, l
  <2>3. p + len = 2 + z /\ l - len = sz - (p + len)
    BY <2>1
  <2> QED BY <2>2, <2>3, Zenon DEF z, sz
<1>8. /\ rd'.at > 3 => rd'.n = graph.n
      /\ rd'.at > 4 => rd'.e = graph.e
      /\ rd'.at > 5 => rd'.k = graph.k
  BY <1>6
<1>9. Starts(graph') = Starts(graph)
  BY <1>5, Zenon
<1>10. rd'.pos = 2 + Starts(graph')[rd'.at]
  BY <1>7, <1>9, Zenon
<1> QED BY <1>2, <1>5, <1>7, <1>8, <1>10 DEF InPlace

\* Each step of a reader of the written file goes on as it should.
LEMMA MagicRead ==
    ASSUME FormatConstants, ReadInv, Whole, ReadMagic
    PROVE  rd'.pc = "body" /\ InPlace'
<1>1. Counts(graph) /\ rd \in Reader /\ Size \in Nat /\ rd.at = 1
  BY GraphCounts, SizeIsNat DEF ReadInv, BudgetInv, ReadMagic
<1>2. words # <<>> /\ words[1] = Magic
  BY <1>1, WholeFile DEF ReadInv
<1>3. rd' = [rd EXCEPT !.pc = "body", !.pos = 2, !.left = Size - 2] /\ UNCHANGED fileVars
  BY <1>2 DEF ReadMagic
<1>4. rd'.pc = "body" /\ rd'.at = 1 /\ rd'.pos = 2 /\ rd'.left = Size - 2
  BY <1>1, <1>3 DEF Reader
<1>5. graph' = graph /\ Size' = Size
  BY <1>3 DEF fileVars, Size
<1>6. Starts(graph)[1] = 0 /\ Starts(graph') = Starts(graph)
  BY <1>1, <1>5, SectionsMeet, Zenon
<1>7. rd'.pos = 2 + Starts(graph')[rd'.at] /\ rd'.left = Size' - rd'.pos
  BY <1>4, <1>5, <1>6
<1> QED BY <1>4, <1>7 DEF InPlace

\* A field.
LEMMA FieldRead ==
    ASSUME InWhole, rd.pc = "body", NEW v \in FieldAt(rd.pos), ReadField(v)
    PROVE  rd'.pc = "body" /\ InPlace'
<1>1. Counts(graph) /\ rd \in Reader /\ UNCHANGED fileVars
  BY GraphCounts DEF InWhole, BudgetInv, ReadField
<1>2. rd.at \in 1 .. 18
  BY EighteenSections DEF InWhole, InPlace, ReadField, InBody
<1>3. /\ Len(Encode(Section, graph)) = 1
      /\ Encode("version", graph)[1] = Version /\ Encode("n", graph)[1] = graph.n
      /\ Encode("e", graph)[1] = graph.e /\ Encode("k", graph)[1] = graph.k
  BY <1>1, FieldWords DEF ReadField, Counts
<1>4. v = Encode(Section, graph)[1]
  BY <1>2, <1>3, FieldHere
<1>5. /\ Section = "version" <=> rd.at = 1
      /\ Section = "n" <=> rd.at = 3
      /\ Section = "e" <=> rd.at = 4
      /\ Section = "k" <=> rd.at = 5
  BY <1>2, SectionAt DEF Section
<1>6. Section = "version" => v = Version
  BY <1>3, <1>4, Zenon
<1>7. /\ Section = "n" => v = graph.n
      /\ Section = "e" => v = graph.e
      /\ Section = "k" => v = graph.k
  BY <1>3, <1>4, Zenon
<1> DEFINE r == Done(Consume(rd, 1))
<1>8. r = [rd EXCEPT !.pos = rd.pos + 1, !.left = rd.left - 1, !.at = rd.at + 1]
  BY <1>1 DEF Done, Consume, Reader
<1>9. rd' = CASE Section = "n" -> [r EXCEPT !.n = v]
              [] Section = "e" -> [r EXCEPT !.e = v]
              [] Section = "k" -> [r EXCEPT !.k = v]
              [] OTHER -> r
  BY <1>6 DEF ReadField
<1> HIDE DEF r
<1>10. rd' = IF rd.at = 3 THEN [r EXCEPT !.n = graph.n]
             ELSE IF rd.at = 4 THEN [r EXCEPT !.e = graph.e]
             ELSE IF rd.at = 5 THEN [r EXCEPT !.k = graph.k] ELSE r
  <2>1. CASE rd.at = 3
    BY <1>5, <1>7, <1>9, <2>1
  <2>2. CASE rd.at = 4
    BY <1>5, <1>7, <1>9, <2>2
  <2>3. CASE rd.at = 5
    BY <1>5, <1>7, <1>9, <2>3
  <2>4. CASE rd.at \notin {3, 4, 5}
    BY <1>5, <1>9, <2>4
  <2> QED BY <2>1, <2>2, <2>3, <2>4
<1>11. /\ r \in Reader /\ r.pc = "body" /\ r.at = rd.at + 1 /\ r.pos = rd.pos + 1 /\ r.left = rd.left - 1
       /\ r.n = rd.n /\ r.e = rd.e /\ r.k = rd.k
  <2>1. rd.at + 1 \in Nat /\ rd.pos + 1 \in Nat /\ rd.left - 1 \in Int
    BY <1>1 DEF Reader
  <2>2. r \in Reader
    BY <1>1, <1>8, <2>1 DEF Reader
  <2> QED BY <1>1, <1>8, <2>2 DEF Reader
<1>12. /\ rd'.pc = "body" /\ rd'.at = rd.at + 1 /\ rd'.pos = rd.pos + 1 /\ rd'.left = rd.left - 1
       /\ rd'.n = IF rd.at = 3 THEN graph.n ELSE rd.n
       /\ rd'.e = IF rd.at = 4 THEN graph.e ELSE rd.e
       /\ rd'.k = IF rd.at = 5 THEN graph.k ELSE rd.k
  BY <1>10, <1>11 DEF Reader
<1> QED BY <1>1, <1>2, <1>3, <1>12, SectionRead

\* Where a section of the written file ends.
LEMMA SectionEnds ==
    ASSUME InWhole, rd.pc = "body", rd.at \in 1 .. 18
    PROVE  /\ Size \in Nat /\ rd \in Reader /\ rd.left = Size - rd.pos
           /\ Encode(Section, graph) \in Seq(Nat)
           /\ rd.pos + Len(Encode(Section, graph)) <= 1 + Len(words) /\ 1 + Len(words) <= Size
<1>1. Counts(graph) /\ rd \in Reader /\ Size \in Nat /\ rd.left = Size - rd.pos /\ rd.pos = 2 + Starts(graph)[rd.at]
  BY GraphCounts, SizeIsNat DEF InWhole, BudgetInv, InPlace
<1>2. rd.at \in 1 .. 19 /\ rd.at + 1 \in 1 .. 19 /\ 19 \in 1 .. 19
  OBVIOUS
<1>3. /\ Encode(Section, graph) \in Seq(Nat) /\ Starts(graph)[rd.at] \in Nat /\ Starts(graph)[19] \in Nat
      /\ Starts(graph)[rd.at + 1] = Starts(graph)[rd.at] + Len(Encode(Section, graph))
      /\ Starts(graph)[rd.at + 1] <= Starts(graph)[19]
  BY <1>1, <1>2, SectionsMeet, SectionsFit DEF Section
<1>4. Len(words) = 1 + Starts(graph)[19] /\ Size >= 1 + Len(words)
  BY <1>1, WholeFile DEF InWhole
<1>5. Len(Encode(Section, graph)) \in Nat
  BY <1>3
<1>6. rd.pos + Len(Encode(Section, graph)) <= 1 + Len(words)
  BY <1>1, <1>3, <1>4, <1>5
<1> QED BY <1>1, <1>3, <1>4, <1>6

\* An array counted by an earlier field.
LEMMA CountedRead ==
    ASSUME InWhole, rd.pc = "body", ReadCounted
    PROVE  rd'.pc = "body" /\ InPlace'
<1>1. Counts(graph) /\ UNCHANGED fileVars /\ MaxReadAlloc \in Nat
  BY GraphCounts DEF InWhole, ReadCounted, FormatConstants
<1>2. rd.at \in 1 .. 18
  BY EighteenSections DEF InWhole, InPlace, ReadCounted, InBody
<1> DEFINE len == Len(Encode(Section, graph))
<1>3. /\ Size \in Nat /\ rd \in Reader /\ rd.left = Size - rd.pos
      /\ Encode(Section, graph) \in Seq(Nat) /\ rd.pos + len <= 1 + Len(words) /\ 1 + Len(words) <= Size
  BY <1>2, SectionEnds
<1>4. rd.at > 5 /\ rd.n = graph.n /\ rd.e = graph.e /\ rd.k = graph.k
  <2>1. rd.at > 5
    BY <1>2, SectionAt DEF ReadCounted, Section
  <2> QED BY <1>2, <2>1 DEF InWhole, InPlace
<1>5. /\ graph.n \in Nat /\ graph.n < MaxWord /\ graph.n < MaxReadAlloc
      /\ graph.e \in Nat /\ graph.e < MaxReadAlloc /\ graph.k \in Nat /\ graph.k < MaxReadAlloc
  BY GraphCounts DEF InWhole
<1>6. PlusOne(rd.n) = graph.n + 1
  <2>1. MaxWord \in Nat
    BY DEF InWhole, FormatConstants
  <2>2. (graph.n + 1) % (MaxWord + 1) = graph.n + 1
    BY <1>5, <2>1
  <2> QED BY <1>4, <2>2 DEF PlusOne
<1>7. rd' = ReadArray(rd, len, 1) /\ len \in Nat /\ len <= MaxReadAlloc
  <2>1. CASE Section = "graphIDs"
    <3>1. len = graph.n /\ rd' = ReadArray(rd, rd.n, 1)
      BY <1>1, <2>1, ArrayWords DEF Counts, ReadCounted
    <3> QED BY <1>1, <1>4, <1>5, <3>1
  <2>2. CASE Section \in {"outOffsets", "kindOffsets", "nodeOffsets"}
    <3>1. len = graph.n + 1 /\ rd' = ReadArray(rd, PlusOne(rd.n), 1)
      BY <1>1, <2>2, ArrayWords DEF Counts, ReadCounted
    <3> QED BY <1>1, <1>5, <1>6, <3>1
  <2>3. CASE Section \in {"outTargets", "edgeIDPerm"}
    <3>1. len = graph.e /\ rd' = ReadArray(rd, rd.e, 1)
      BY <1>1, <2>3, ArrayWords DEF Counts, ReadCounted
    <3> QED BY <1>1, <1>4, <1>5, <3>1
  <2>4. CASE Section = "nodeKinds"
    <3>1. len = graph.k /\ rd' = ReadArray(rd, rd.k, 1)
      BY <1>1, <2>4, ArrayWords DEF Counts, ReadCounted
    <3> QED BY <1>1, <1>4, <1>5, <3>1
  <2> QED BY <2>1, <2>2, <2>3, <2>4 DEF ReadCounted
<1> HIDE DEF len
<1>8. len * 1 = len /\ rd.pos + len * 1 <= Size /\ rd.pos \in Nat
  BY <1>3, <1>7 DEF Reader
<1>9. ReadArray(rd, len, 1) = [rd EXCEPT !.alloc = len * 1, !.pos = rd.pos + len * 1, !.left = rd.left - len * 1, !.at = rd.at + 1]
  BY <1>1, <1>3, <1>7, <1>8, ArrayRead
<1>10. rd' = [rd EXCEPT !.alloc = len, !.pos = rd.pos + len, !.left = rd.left - len, !.at = rd.at + 1]
  BY <1>7, <1>8, <1>9, Zenon
<1>11. /\ rd'.pc = "body" /\ rd'.at = rd.at + 1 /\ rd'.pos = rd.pos + len /\ rd'.left = rd.left - len
       /\ rd'.n = rd.n /\ rd'.e = rd.e /\ rd'.k = rd.k
  BY <1>3, <1>10 DEF Reader
<1>12. rd.at \notin {3, 4, 5} /\ len = Len(Encode(Section, graph))
  BY <1>2, <1>4 DEF len
<1> QED BY <1>1, <1>2, <1>11, <1>12, SectionRead

\* A reader that took one field.
LEMMA OneConsumed ==
    ASSUME rd \in Reader, NEW m \in {1, 2}
    PROVE  /\ Consume(rd, m) \in Reader /\ Consume(rd, m) = [rd EXCEPT !.pos = rd.pos + m, !.left = rd.left - m]
           /\ Consume(rd, m).pos = rd.pos + m /\ Consume(rd, m).left = rd.left - m
<1>1. rd.pos + m \in Nat /\ rd.left - m \in Int
  BY DEF Reader
<1>2. Consume(rd, m) = [rd EXCEPT !.pos = rd.pos + m, !.left = rd.left - m]
  BY DEF Consume
<1>3. Consume(rd, m) \in Reader
  BY <1>1, <1>2 DEF Reader
<1> QED BY <1>2, <1>3 DEF Reader

\* The entries and the arena.
LEMMA PrefixedRead ==
    ASSUME InWhole, rd.pc = "body", NEW v \in FieldAt(rd.pos), ReadPrefixed(v)
    PROVE  rd'.pc = "body" /\ InPlace'
<1>1. Counts(graph) /\ UNCHANGED fileVars /\ MaxReadAlloc \in Nat /\ graph.names \in Nat /\ graph.names < MaxReadAlloc
  BY GraphCounts DEF InWhole, ReadPrefixed, FormatConstants
<1>2. rd.at \in 1 .. 18
  BY EighteenSections DEF InWhole, InPlace, ReadPrefixed, InBody
<1> DEFINE len == Len(Encode(Section, graph))
           w == IF Section = "propEntries" THEN 2 ELSE 1
           m == graph.names * w
<1>3. /\ Size \in Nat /\ rd \in Reader /\ rd.left = Size - rd.pos
      /\ rd.pos + len <= 1 + Len(words) /\ 1 + Len(words) <= Size
  BY <1>2, SectionEnds
<1>4. len = 1 + m /\ Encode(Section, graph)[1] = graph.names /\ len >= 1 /\ w \in {1, 2} /\ m \in Nat
  <2>1. CASE Section = "propEntries"
    <3>1. len = 1 + 2 * graph.names /\ Encode(Section, graph)[1] = graph.names
      BY <1>1, <2>1, CountedWords
    <3>2. w = 2
      BY <2>1
    <3> HIDE DEF len
    <3> QED BY <1>1, <3>1, <3>2
  <2>2. CASE Section = "arena"
    <3>1. len = 1 + graph.names /\ Encode(Section, graph)[1] = graph.names
      BY <1>1, <2>2, CountedWords
    <3>2. w = 1
      BY <2>2
    <3> HIDE DEF len
    <3> QED BY <1>1, <3>1, <3>2
  <2> QED BY <2>1, <2>2 DEF ReadPrefixed
<1>5. v = graph.names
  BY <1>2, <1>4, FieldHere
<1> DEFINE r == Consume(rd, 1)
<1>6. r \in Reader /\ r = [rd EXCEPT !.pos = rd.pos + 1, !.left = rd.left - 1] /\ r.pos = rd.pos + 1 /\ r.left = rd.left - 1
  BY <1>3, OneConsumed
<1>7. rd' = ReadArray(r, graph.names, w)
  BY <1>5, Zenon DEF ReadPrefixed
<1>8. m = graph.names * w
  OBVIOUS
<1> HIDE DEF len, w, m, r
<1>9. r.left = Size - r.pos /\ r.pos + m <= Size
  <2>1. rd.pos \in Nat
    BY <1>3 DEF Reader
  <2>2. Len(words) \in Nat
    BY DEF InWhole, BudgetInv, FileType
  <2> QED BY <1>3, <1>4, <1>6, <2>1, <2>2
<1>10. graph.names <= MaxReadAlloc
  BY <1>1
<1>11. ReadArray(r, graph.names, w) = [r EXCEPT !.alloc = m, !.pos = r.pos + m, !.left = r.left - m, !.at = r.at + 1]
  <2>1. r.pos + graph.names * w <= Size
    BY <1>8, <1>9, Zenon
  <2>2. ReadArray(r, graph.names, w) = [r EXCEPT !.alloc = graph.names * w, !.pos = r.pos + graph.names * w,
                                                 !.left = r.left - graph.names * w, !.at = r.at + 1]
    <3>1. Size \in Nat /\ r \in Reader /\ r.left = Size - r.pos /\ graph.names \in Nat /\ graph.names <= MaxReadAlloc
          /\ MaxReadAlloc \in Nat /\ w \in {1, 2}
      BY <1>1, <1>3, <1>4, <1>6, <1>9, <1>10
    <3> QED BY <2>1, <3>1, ArrayRead
  <2> QED BY <1>8, <2>2, Zenon
<1>12. /\ rd'.pc = "body" /\ rd'.at = rd.at + 1 /\ rd'.pos = rd.pos + 1 + m /\ rd'.left = rd.left - 1 - m
       /\ rd'.n = rd.n /\ rd'.e = rd.e /\ rd'.k = rd.k
  BY <1>3, <1>6, <1>7, <1>11 DEF Reader
<1>13. rd'.pos = rd.pos + len /\ rd'.left = rd.left - len
  <2>1. rd.pos \in Nat /\ rd.left \in Int
    BY <1>3 DEF Reader
  <2> QED BY <1>4, <1>12, <2>1
<1>14. rd.at > 5 /\ len = Len(Encode(Section, graph))
  BY <1>2, SectionAt DEF ReadPrefixed, Section, len
<1>15. rd.at \notin {3, 4, 5}
  BY <1>2, <1>14
<1> QED BY <1>1, <1>2, <1>12, <1>13, <1>14, <1>15, SectionRead

\* The words of a table of the written file.
LEMMA TableHere ==
    ASSUME InWhole, rd.at \in {12, 13}
    PROVE  /\ Section = (IF rd.at = 12 THEN "kindTable" ELSE "propNames") /\ EntryWidth = Wide - 1
           /\ Entries \in Nat /\ Entries <= MaxTable /\ Entries <= MaxReadAlloc
           /\ Len(Encode(Section, graph)) = 1 + Wide * Entries /\ Encode(Section, graph)[1] = Entries
           /\ \A j \in 0 .. Entries - 1 : Encode(Section, graph)[Wide + Wide * j] = 1
<1>1. Counts(graph) /\ graph.kinds \in Nat /\ graph.names \in Nat
      /\ graph.kinds <= MaxTable /\ graph.kinds < MaxReadAlloc /\ graph.names <= MaxTable /\ graph.names < MaxReadAlloc
      /\ MaxReadAlloc \in Nat
  BY GraphCounts DEF InWhole, FormatConstants
<1>2. CASE rd.at = 12
  <2>1. Section = "kindTable" /\ Wide = 3 /\ Entries = graph.kinds
    BY <1>2 DEF Section, Sections, Wide, Entries
  <2>2. EntryWidth = Wide - 1
    BY <2>1 DEF EntryWidth
  <2>3. /\ Len(Encode("kindTable", graph)) = 1 + 3 * graph.kinds /\ Encode("kindTable", graph)[1] = graph.kinds
        /\ \A j \in 0 .. graph.kinds - 1 : Encode("kindTable", graph)[3 + 3 * j] = 1
    BY <1>1, TableWords
  <2> QED BY <1>1, <1>2, <2>1, <2>2, <2>3
<1>3. CASE rd.at = 13
  <2>1. Section = "propNames" /\ Wide = 2 /\ Entries = graph.names
    BY <1>3 DEF Section, Sections, Wide, Entries
  <2>2. EntryWidth = Wide - 1
    BY <2>1 DEF EntryWidth
  <2>3. /\ Len(Encode("propNames", graph)) = 1 + 2 * graph.names /\ Encode("propNames", graph)[1] = graph.names
        /\ \A j \in 0 .. graph.names - 1 : Encode("propNames", graph)[2 + 2 * j] = 1
    BY <1>1, TableWords
  <2> QED BY <1>1, <1>3, <2>1, <2>2, <2>3
<1> QED BY <1>2, <1>3

\* A table's place in the written file.
LEMMA TablePlace ==
    ASSUME InWhole, rd.at \in {12, 13}
    PROVE  /\ Size \in Nat /\ Len(words) \in Nat /\ rd \in Reader /\ rd.pos \in Nat /\ rd.left = Size - rd.pos
           /\ Starts(graph)[rd.at] \in Nat
           /\ Starts(graph)[rd.at + 1] = Starts(graph)[rd.at] + 1 + Wide * Entries
           /\ 2 + Starts(graph)[rd.at + 1] <= 1 + Len(words) /\ 1 + Len(words) <= Size
           /\ \A j \in 1 .. 1 + Wide * Entries : words[1 + Starts(graph)[rd.at] + j] = Encode(Section, graph)[j]
<1>1. Counts(graph) /\ Size \in Nat /\ Len(words) \in Nat /\ rd \in Reader /\ rd.pos \in Nat /\ rd.left = Size - rd.pos
  BY GraphCounts, SizeIsNat DEF InWhole, BudgetInv, FileType, InPlace, Reader
<1>2. rd.at \in 1 .. 18 /\ rd.at \in 1 .. 19 /\ rd.at + 1 \in 1 .. 19 /\ 19 \in 1 .. 19
  OBVIOUS
<1>3. Len(Encode(Section, graph)) = 1 + Wide * Entries /\ Entries \in Nat /\ Wide \in {2, 3}
  BY TableHere DEF Wide
<1>4. /\ Starts(graph)[rd.at] \in Nat /\ Starts(graph)[19] \in Nat
      /\ Starts(graph)[rd.at + 1] = Starts(graph)[rd.at] + Len(Encode(Section, graph))
      /\ Starts(graph)[rd.at + 1] <= Starts(graph)[19]
  BY <1>1, <1>2, SectionsMeet, SectionsFit DEF Section
<1>5. /\ Len(words) = 1 + Starts(graph)[19] /\ Size >= 1 + Len(words)
      /\ \A j \in 1 .. Len(Encode(Section, graph)) : words[1 + Starts(graph)[rd.at] + j] = Encode(Section, graph)[j]
  BY <1>1, <1>2, WholeFile DEF InWhole, Section
<1>6. Wide * Entries \in Nat /\ 1 + Wide * Entries \in Nat
  <2>1. CASE Wide = 2
    BY <1>3, <2>1
  <2>2. CASE Wide = 3
    BY <1>3, <2>2
  <2> QED BY <1>3, <2>1, <2>2
<1> DEFINE c == Wide * Entries
           a == Starts(graph)[rd.at]
           z == Starts(graph)[rd.at + 1]
<1>7. z = a + (1 + c) /\ a \in Nat /\ 1 + c \in Nat
  BY <1>3, <1>4, <1>6, Zenon
<1>8. c \in Nat
  BY <1>6, Zenon
<1> HIDE DEF c, a, z
<1>9. z = a + 1 + c
  BY <1>7, <1>8
<1>10. 2 + z <= 1 + Len(words) /\ 1 + Len(words) <= Size
  <2>1. z <= Starts(graph)[19] /\ Starts(graph)[19] \in Nat
    BY <1>4, Zenon DEF z
  <2>2. z \in Nat
    BY <1>7
  <2> QED BY <1>1, <1>5, <2>1, <2>2
<1>11. \A j \in 1 .. 1 + Wide * Entries : words[1 + Starts(graph)[rd.at] + j] = Encode(Section, graph)[j]
  BY <1>3, <1>5, Zenon
<1> QED BY <1>1, <1>4, <1>9, <1>10, <1>11 DEF c, a, z

\* A table's count: an empty table is over, another is read entry by entry.
LEMMA TableCountRead ==
    ASSUME InWhole, rd.pc = "body", NEW v \in FieldAt(rd.pos), ReadTableCount(v)
    PROVE  rd'.pc \in {"body", "table"} /\ InPlace'
<1>1. rd.at \in 1 .. 18
  BY EighteenSections DEF InWhole, InPlace, ReadTableCount, InBody
<1>2. rd.at \in {12, 13} /\ UNCHANGED fileVars
  BY <1>1, SectionAt DEF ReadTableCount, Section
<1> DEFINE W == Wide
           E == Entries
           a == Starts(graph)[rd.at]
<1>3. /\ EntryWidth = W - 1 /\ E \in Nat /\ E <= MaxTable /\ E <= MaxReadAlloc
      /\ Len(Encode(Section, graph)) = 1 + W * E /\ Encode(Section, graph)[1] = E /\ W \in {2, 3}
  BY <1>2, TableHere DEF Wide
<1>4. /\ Size \in Nat /\ Len(words) \in Nat /\ rd \in Reader /\ rd.pos \in Nat /\ rd.left = Size - rd.pos
      /\ a \in Nat /\ 2 + (a + 1 + W * E) <= 1 + Len(words) /\ 1 + Len(words) <= Size
  BY <1>2, TablePlace, Zenon
<1>5. rd.pos = 2 + a
  BY DEF InWhole, InPlace
<1>6. v = E
  <2>1. Len(Encode(Section, graph)) >= 1
    <3>1. CASE W = 2
      BY <1>3, <3>1
    <3>2. CASE W = 3
      BY <1>3, <3>2
    <3> QED BY <1>3, <3>1, <3>2
  <2> QED BY <1>1, <1>3, <2>1, FieldHere
<1> DEFINE r == Consume(rd, 1)
<1>7. r \in Reader /\ r = [rd EXCEPT !.pos = rd.pos + 1, !.left = rd.left - 1] /\ r.pos = rd.pos + 1 /\ r.left = rd.left - 1
  BY <1>4, OneConsumed
<1>8. Claim(r, E, W - 1) /\ ~(E > MaxTable)
  <2>1. r.left = Size - (3 + a)
    BY <1>4, <1>5, <1>7
  <2>2. r.left >= 0 /\ E <= r.left \div (W - 1)
    <3>1. r.left \in Int
      BY <1>7 DEF Reader
    <3> HIDE DEF r, E, a, W
    <3>2. CASE W = 2
      BY <1>3, <1>4, <2>1, <3>1, <3>2
    <3>3. CASE W = 3
      BY <1>3, <1>4, <2>1, <3>1, <3>3
    <3> QED BY <1>3, <3>2, <3>3
  <2>3. MaxTable \in Nat
    BY DEF InWhole, FormatConstants
  <2> HIDE DEF r, E, W
  <2> QED BY <1>3, <2>2, <2>3 DEF Claim
<1>9. rd' = IF E = 0 THEN Done(r) ELSE [r EXCEPT !.pc = "table", !.items = E, !.alloc = E * EntryWidth]
  BY <1>3, <1>6, <1>8, Zenon DEF ReadTableCount
<1>10. CASE E = 0
  <2>1. rd' = [rd EXCEPT !.pos = rd.pos + 1, !.left = rd.left - 1, !.at = rd.at + 1]
    BY <1>4, <1>7, <1>9, <1>10 DEF Done, Reader
  <2>2. /\ rd'.pc = "body" /\ rd'.at = rd.at + 1 /\ rd'.pos = rd.pos + 1 /\ rd'.left = rd.left - 1
        /\ rd'.n = rd.n /\ rd'.e = rd.e /\ rd'.k = rd.k
    BY <1>4, <2>1 DEF Reader
  <2>3. 1 = Len(Encode(Section, graph)) /\ rd.at \notin {3, 4, 5}
    BY <1>2, <1>3, <1>10
  <2> QED BY <1>1, <1>2, <2>2, <2>3, SectionRead
<1>11. CASE E # 0
  <2>1. rd' = [r EXCEPT !.pc = "table", !.items = E, !.alloc = E * EntryWidth]
    BY <1>9, <1>11
  <2>2. /\ rd'.pc = "table" /\ rd'.items = E /\ rd'.at = rd.at /\ rd'.pos = rd.pos + 1 /\ rd'.left = rd.left - 1
        /\ rd'.n = rd.n /\ rd'.e = rd.e /\ rd'.k = rd.k
    BY <1>4, <1>7, <2>1 DEF Reader
  <2>3. graph' = graph /\ Size' = Size
    BY <1>2 DEF fileVars, Size
  <2>4. Starts(graph') = Starts(graph) /\ Entries' = E /\ Wide' = W
    BY <2>2, <2>3 DEF Entries, Wide
  <2>5. rd'.items \in 1 .. Entries'
    BY <1>3, <1>11, <2>2, <2>4
  <2>6. rd'.pos = 3 + a + W * (Entries' - rd'.items)
    <3>1. Entries' - rd'.items = 0
      BY <1>3, <2>2, <2>4
    <3>2. W * 0 = 0
      BY <1>3
    <3> HIDE DEF W, a
    <3> QED BY <1>4, <1>5, <2>2, <3>1, <3>2
  <2>7. rd'.pos = 3 + Starts(graph')[rd'.at] + Wide' * (Entries' - rd'.items)
    BY <2>2, <2>4, <2>6, Zenon
  <2>8. rd'.left = Size' - rd'.pos
    BY <1>4, <2>2, <2>3
  <2>9. /\ rd'.at > 3 => rd'.n = graph'.n
        /\ rd'.at > 4 => rd'.e = graph'.e
        /\ rd'.at > 5 => rd'.k = graph'.k
    BY <2>2, <2>3 DEF InWhole, InPlace
  <2>10. rd'.at \in {12, 13} /\ rd'.at \in 1 .. 19
    BY <1>2, <2>2
  <2> QED BY <2>2, <2>5, <2>7, <2>8, <2>9, <2>10 DEF InPlace
<1> QED BY <1>10, <1>11

\* Where an entry lies when q of its table's E entries are left.
LEMMA EntryPlace ==
    ASSUME NEW W \in {2, 3}, NEW E \in Nat, NEW q \in 1 .. E, NEW a \in Nat, NEW pos \in Nat, pos = 3 + a + W * (E - q),
           NEW size \in Nat, NEW len \in Nat, 2 + (a + 1 + W * E) <= 1 + len, 1 + len <= size
    PROVE  /\ E - q \in 0 .. E - 1 /\ W + W * (E - q) \in 1 .. 1 + W * E /\ pos + W <= size
           /\ pos + W - 2 = 1 + a + (W + W * (E - q)) /\ pos + W - 2 <= len
           /\ pos + W = 3 + a + W * (E - (q - 1))
<1>1. CASE W = 2
  BY <1>1
<1>2. CASE W = 3
  BY <1>2
<1> QED BY <1>1, <1>2

\* An entry of a table, the last one or not.
LEMMA TableEntryRead ==
    ASSUME InWhole, rd.pc = "table", NEW v \in FieldAt(rd.pos + EntryWidth - 1), ReadTableEntry(v)
    PROVE  rd'.pc \in {"body", "table"} /\ InPlace'
<1> DEFINE W == Wide
           E == Entries
           a == Starts(graph)[rd.at]
           j == E - rd.items
<1>1. rd.at \in {12, 13} /\ rd.items \in 1 .. E /\ rd.pos = 3 + a + W * j /\ UNCHANGED fileVars
  BY DEF InWhole, InPlace, ReadTableEntry
<1>2. /\ EntryWidth = W - 1 /\ E \in Nat /\ W \in {2, 3}
      /\ \A i \in 0 .. E - 1 : Encode(Section, graph)[W + W * i] = 1
  BY <1>1, TableHere DEF Wide
<1>3. /\ Size \in Nat /\ Len(words) \in Nat /\ rd \in Reader /\ rd.pos \in Nat /\ rd.left = Size - rd.pos
      /\ a \in Nat /\ Starts(graph)[rd.at + 1] = a + 1 + W * E
      /\ 2 + (a + 1 + W * E) <= 1 + Len(words) /\ 1 + Len(words) <= Size
      /\ \A i \in 1 .. 1 + W * E : words[1 + a + i] = Encode(Section, graph)[i]
  BY <1>1, TablePlace, Zenon
<1>4. Len(Encode(Section, graph)) = 1 + W * E
  BY <1>1, TableHere
<1>5. rd.items \in Nat /\ rd.items >= 1 /\ rd.items <= E
  BY <1>1, <1>2
<1> DEFINE q == rd.items
           pos == rd.pos
<1> HIDE DEF W, E, a
<1>6. /\ j \in 0 .. E - 1 /\ W + W * j \in 1 .. 1 + W * E /\ pos + W <= Size
      /\ pos + W - 2 = 1 + a + (W + W * j) /\ pos + W - 2 <= Len(words)
      /\ pos + W = 3 + a + W * (E - (q - 1))
  <2>1. q \in 1 .. E /\ pos = 3 + a + W * (E - q) /\ j = E - q
    BY <1>1
  <2> HIDE DEF q, pos, j
  <2>2. /\ E - q \in 0 .. E - 1 /\ W + W * (E - q) \in 1 .. 1 + W * E /\ pos + W <= Size
        /\ pos + W - 2 = 1 + a + (W + W * (E - q)) /\ pos + W - 2 <= Len(words)
        /\ pos + W = 3 + a + W * (E - (q - 1))
    BY <1>2, <1>3, <2>1, EntryPlace
  <2> QED BY <2>1, <2>2, Zenon
<1>7. v = 1
  <2>1. words[1 + a + (W + W * j)] = 1
    BY <1>2, <1>3, <1>6
  <2>2. rd.pos + EntryWidth - 1 = pos + W - 2
    BY <1>2, <1>3
  <2> QED BY <1>6, <2>1, <2>2 DEF FieldAt
<1> DEFINE r == Consume(rd, W - 1)
           named == ReadArray(r, 1, 1)
<1>8. W - 1 \in {1, 2} /\ W \in {2, 3}
  BY <1>2
<1>9. r \in Reader /\ r = [rd EXCEPT !.pos = pos + (W - 1), !.left = rd.left - (W - 1)]
      /\ r.pos = pos + (W - 1) /\ r.left = rd.left - (W - 1)
  BY <1>3, <1>8, OneConsumed
<1>10. named = [r EXCEPT !.alloc = 1, !.pos = pos + W, !.left = rd.left - W, !.at = r.at + 1]
  <2>1. r.left = Size - r.pos /\ r.pos + 1 <= Size /\ 1 <= MaxReadAlloc /\ MaxReadAlloc \in Nat
    <3>1. 1 <= MaxReadAlloc /\ MaxReadAlloc \in Nat
      BY DEF InWhole, FormatConstants
    <3>2. pos \in Nat /\ W \in Int /\ rd.left = Size - pos /\ pos + W <= Size /\ W >= 2
      <4>1. W \in Int /\ W >= 2
        BY <1>8
      <4> QED BY <1>3, <1>6, <4>1, Zenon
    <3>3. r.pos = pos + (W - 1) /\ r.left = rd.left - (W - 1)
      BY <1>9
    <3> HIDE DEF r, pos
    <3> QED BY <1>3, <3>1, <3>2, <3>3
  <2>2. named = [r EXCEPT !.alloc = 1 * 1, !.pos = r.pos + 1 * 1, !.left = r.left - 1 * 1, !.at = r.at + 1]
    <3>1. r.pos + 1 * 1 <= Size /\ 1 \in Nat /\ 1 \in {1, 2}
      BY <2>1
    <3> HIDE DEF r
    <3> QED BY <1>3, <1>9, <2>1, <3>1, ArrayRead, Zenon
  <2>3. r.pos + 1 * 1 = pos + W /\ r.left - 1 * 1 = rd.left - W /\ 1 * 1 = 1
    <3>1. rd.left \in Int
      BY <1>3
    <3>2. pos \in Nat /\ W \in Int
      BY <1>2, <1>3
    <3>3. r.pos = pos + (W - 1) /\ r.left = rd.left - (W - 1)
      BY <1>9
    <3> HIDE DEF r, pos
    <3> QED BY <3>1, <3>2, <3>3
  <2> QED BY <2>2, <2>3, Zenon
<1>11. named = [rd EXCEPT !.alloc = 1, !.pos = pos + W, !.left = rd.left - W, !.at = rd.at + 1]
  <2> HIDE DEF r, named
  <2> QED BY <1>3, <1>9, <1>10 DEF Reader
<1>12. rd' = [named EXCEPT !.items = q - 1, !.pc = IF q = 1 THEN "body" ELSE "table",
                           !.at = IF q = 1 THEN @ ELSE rd.at]
  <2>1. named.pc = "table"
    <3> HIDE DEF named
    <3> QED BY <1>3, <1>11 DEF Reader
  <2>2. ReadArray(Consume(rd, EntryWidth), v, 1) = named
    BY <1>2, <1>7, Zenon
  <2> HIDE DEF named
  <2> QED BY <2>1, <2>2 DEF ReadTableEntry
<1> HIDE DEF named
<1>13. /\ rd'.pc = (IF q = 1 THEN "body" ELSE "table") /\ rd'.items = q - 1
       /\ rd'.at = (IF q = 1 THEN rd.at + 1 ELSE rd.at) /\ rd'.pos = pos + W /\ rd'.left = rd.left - W
       /\ rd'.n = rd.n /\ rd'.e = rd.e /\ rd'.k = rd.k
  BY <1>3, <1>11, <1>12 DEF Reader
<1>14. graph' = graph /\ Size' = Size
  BY <1>1 DEF fileVars, Size
<1>15. Starts(graph') = Starts(graph)
  BY <1>14, Zenon
<1>16. rd'.left = Size' - rd'.pos
  BY <1>2, <1>3, <1>13, <1>14
<1>17. /\ rd'.at > 3 => rd'.n = graph'.n
       /\ rd'.at > 4 => rd'.e = graph'.e
       /\ rd'.at > 5 => rd'.k = graph'.k
  BY <1>1, <1>13, <1>14 DEF InWhole, InPlace
<1>18. CASE q = 1
  <2>1. pos + W = 2 + Starts(graph)[rd.at + 1]
    <3>1. pos + W = 3 + a + W * E
      BY <1>2, <1>6, <1>18
    <3>2. W * E \in Nat
      <4>1. CASE W = 2
        BY <1>2, <4>1
      <4>2. CASE W = 3
        BY <1>2, <4>2
      <4> QED BY <1>2, <4>1, <4>2
    <3>3. 3 + a + W * E = 2 + (a + 1 + W * E)
      BY <1>3, <3>2
    <3> QED BY <1>3, <3>1, <3>3, Zenon
  <2>2. rd'.pc = "body" /\ rd'.at = rd.at + 1 /\ rd'.at \in 1 .. 19
    BY <1>1, <1>13, <1>18
  <2>3. rd'.pos = 2 + Starts(graph')[rd'.at]
    BY <1>13, <1>15, <2>1, <2>2, Zenon
  <2> QED BY <1>16, <1>17, <2>2, <2>3 DEF InPlace
<1>19. CASE q # 1
  <2>1. rd'.pc = "table" /\ rd'.at = rd.at /\ rd'.at \in 1 .. 19 /\ rd'.at \in {12, 13}
    BY <1>1, <1>13, <1>19
  <2>2. Entries' = E /\ Wide' = W
    BY <1>14, <2>1 DEF Entries, Wide, E, W
  <2>3. rd'.items \in 1 .. Entries'
    BY <1>2, <1>5, <1>13, <1>19, <2>2
  <2>4. rd'.pos = 3 + Starts(graph')[rd'.at] + Wide' * (Entries' - rd'.items)
    <3>1. rd'.pos = 3 + a + W * (E - (q - 1)) /\ rd'.items = q - 1
      BY <1>6, <1>13, Zenon
    <3> QED BY <1>15, <2>1, <2>2, <3>1, Zenon DEF a
  <2> QED BY <1>16, <1>17, <2>1, <2>3, <2>4 DEF InPlace
<1> QED BY <1>13, <1>18, <1>19

\* A reader of the written file finds every field it asks for, and the checksum.
LEMMA NothingMissing ==
    ASSUME InWhole, rd.pc \in {"body", "table"}
    PROVE  ~ReadPastEnd
<1> SUFFICES ASSUME ReadPastEnd  PROVE FALSE
  OBVIOUS
<1>1. CASE rd.pc = "body"
  <2>1. rd.at \in 1 .. 18
    BY <1>1, EighteenSections DEF InWhole, InPlace, ReadPastEnd, InBody
  <2>2. Section \in {"version", "header", "n", "e", "k", "kindTable", "propNames", "propEntries",
                     "arena", "multiGraph", "droppedEdges"}
    <3>1. Section \notin {"graphIDs", "outOffsets", "kindOffsets", "nodeOffsets", "outTargets", "edgeIDPerm", "nodeKinds"}
      BY <1>1 DEF ReadPastEnd
    <3> QED BY <2>1, <3>1 DEF Section, Sections
  <2>3. Counts(graph) /\ graph.kinds \in Nat /\ graph.names \in Nat
    BY GraphCounts DEF InWhole
  <2>4. Len(Encode(Section, graph)) >= 1
    <3>1. CASE Section \in {"version", "header", "n", "e", "k", "multiGraph", "droppedEdges"}
      <4>1. Len(Encode(Section, graph)) = 1
        BY <2>3, <3>1, FieldWords DEF Counts
      <4> QED BY <4>1
    <3>2. CASE Section \in {"kindTable", "propNames"}
      <4>1. Len(Encode(Section, graph)) \in {1 + 3 * graph.kinds, 1 + 2 * graph.names}
        BY <2>3, <3>2, TableWords
      <4> QED BY <2>3, <4>1
    <3>3. CASE Section \in {"propEntries", "arena"}
      <4>1. Len(Encode(Section, graph)) \in {1 + 2 * graph.names, 1 + graph.names}
        BY <2>3, <3>3, CountedWords
      <4> QED BY <2>3, <4>1
    <3> QED BY <2>2, <3>1, <3>2, <3>3
  <2> QED BY <1>1, <2>1, <2>4, FieldHere DEF ReadPastEnd
<1>2. CASE rd.pc = "table"
  <2> DEFINE W == Wide
             E == Entries
             a == Starts(graph)[rd.at]
  <2>1. rd.at \in {12, 13} /\ rd.items \in 1 .. E /\ rd.pos = 3 + a + W * (E - rd.items)
    BY <1>2 DEF InWhole, InPlace
  <2>2. EntryWidth = W - 1 /\ E \in Nat /\ W \in {2, 3}
    BY <2>1, TableHere DEF Wide
  <2>3. /\ Size \in Nat /\ Len(words) \in Nat /\ rd.pos \in Nat /\ a \in Nat
        /\ 2 + (a + 1 + W * E) <= 1 + Len(words) /\ 1 + Len(words) <= Size
    BY <2>1, TablePlace, Zenon
  <2> HIDE DEF W, E, a
  <2>4. rd.pos + W - 2 <= Len(words)
    BY <2>1, <2>2, <2>3, EntryPlace
  <2>5. rd.pos + EntryWidth - 1 = rd.pos + W - 2
    BY <2>2, <2>3
  <2> QED BY <1>2, <2>4, <2>5 DEF ReadPastEnd, FieldAt
<1> QED BY <1>1, <1>2

\* The checksum of the written file is the one its reader computes.
LEMMA CrcRead ==
    ASSUME InWhole, ReadCrc
    PROVE  rd'.pc = "accepted"
<1>1. Counts(graph) /\ rd \in Reader
  BY GraphCounts DEF InWhole, BudgetInv
<1>2. rd.at = 19 /\ rd.pos = 2 + Starts(graph)[19]
  BY EighteenSections DEF InWhole, InPlace, ReadCrc
<1>3. /\ Len(words) = 1 + Starts(graph)[19] /\ HasCrc /\ crc[1] = Body(graph) /\ Tail(words) = Body(graph)
      /\ Starts(graph)[19] \in Nat
  BY <1>1, WholeFile, SectionsMeet DEF InWhole
<1>4. rd.pos = Len(words) + 1
  BY <1>2, <1>3
<1>5. CrcMatches
  BY <1>3, <1>4, Zenon DEF CrcMatches
<1> QED BY <1>1, <1>5 DEF ReadCrc, Reader

\* A file whose checksum is that of the words read is the one written.
LEMMA CrcVouches ==
    ASSUME ReadInv, ReadCrc, rd'.pc = "accepted"
    PROVE  Whole
<1>1. CrcMatches /\ words # <<>> /\ words[1] = Magic /\ words \in Seq(Nat)
  <2>1. rd \in Reader
    BY DEF ReadInv, BudgetInv
  <2> QED BY <2>1 DEF ReadInv, ReadCrc, Fail, Reader, BudgetInv, FileType
<1>2. crc = <<Body(graph)>> /\ crc[1] = Tail(words)
  BY <1>1 DEF CrcMatches, HasCrc, ReadInv
<1>3. Tail(words) = Body(graph)
  <2>1. \A x : <<x>>[1] = x
    OBVIOUS
  <2> QED BY <1>2, <2>1, Zenon
<1>4. words = <<Magic>> \o Tail(words)
  <2>1. ASSUME NEW w \in Seq(Nat), w # <<>>  PROVE w = <<w[1]>> \o Tail(w)
    <3>1. Len(w) \in Nat /\ Len(w) >= 1 /\ w[1] \in Nat
      BY <2>1
    <3>2. /\ Tail(w) \in Seq(Nat) /\ Len(Tail(w)) = Len(w) - 1
          /\ \A j \in 1 .. Len(w) - 1 : Tail(w)[j] = w[1 + j]
      BY <2>1, <3>1
    <3> DEFINE t == Tail(w)
               u == <<w[1]>> \o t
    <3>3. t \in Seq(Nat) /\ Len(t) = Len(w) - 1 /\ \A j \in 1 .. Len(w) - 1 : t[j] = w[1 + j]
      BY <3>2
    <3> HIDE DEF t
    <3>4. u \in Seq(Nat) /\ Len(u) = 1 + Len(t) /\ u[1] = w[1] /\ \A j \in 1 .. Len(t) : u[1 + j] = t[j]
      BY <3>1, <3>3, Prefixed, Zenon
    <3> HIDE DEF u
    <3>5. Len(u) = Len(w)
      BY <3>1, <3>3, <3>4
    <3>6. ASSUME NEW j \in 1 .. Len(w)  PROVE u[j] = w[j]
      <4>1. CASE j = 1
        BY <3>4, <4>1
      <4>2. CASE j # 1
        <5>1. j - 1 \in 1 .. Len(w) - 1 /\ j - 1 \in 1 .. Len(t) /\ 1 + (j - 1) = j
          BY <3>1, <3>3, <4>2
        <5>2. u[1 + (j - 1)] = t[j - 1] /\ t[j - 1] = w[1 + (j - 1)]
          BY <3>3, <3>4, <5>1, Zenon
        <5> QED BY <5>1, <5>2
      <4> QED BY <4>1, <4>2
    <3>7. u = w
      BY <2>1, <3>4, <3>5, <3>6, SameWords, Zenon
    <3> QED BY <3>7 DEF u, t
  <2> QED BY <1>1, <2>1, Zenon
<1> QED BY <1>2, <1>3, <1>4, Zenon DEF Whole

\* Every step of ReadSnapshotFile keeps what is known of the file and of where
\* the reader is in it.
LEMMA ReadStepKeeps ==
    ASSUME FormatConstants, ReadInv, ReadStep
    PROVE  ReadInv'
<1>1. BudgetInv /\ BudgetInv' /\ (rd'.pc = "accepted" => ReadCrc) /\ rd \in Reader
  BY ReadStepFits DEF ReadInv, BudgetInv
<1>2. UNCHANGED fileVars /\ rd.pc \in {"magic", "body", "table"}
  <2>1. \A v : ReadField(v) \/ ReadPrefixed(v) \/ ReadTableCount(v) \/ ReadTableEntry(v) => UNCHANGED fileVars
    BY DEF ReadField, ReadPrefixed, ReadTableCount, ReadTableEntry
  <2>2. ReadMagic \/ ReadCounted \/ ReadCrc \/ ReadPastEnd => UNCHANGED fileVars /\ rd.pc \in {"magic", "body", "table"}
    BY DEF ReadMagic, ReadCounted, ReadCrc, ReadPastEnd, InBody
  <2> QED BY <2>1, <2>2 DEF ReadStep
<1>3. /\ Whole' = Whole /\ words' = words /\ graph' = graph
      /\ (graph \in Graph)' /\ (crc \in {<<>>, <<Body(graph)>>})'
  BY <1>2 DEF ReadInv, fileVars, Whole
<1>4. rd'.pc \in {"body", "table", "accepted"} => words # <<>> /\ words[1] = Magic
  <2>1. CASE rd.pc = "magic"
    <3>1. ReadMagic
      BY <2>1 DEF ReadStep, ReadCounted, ReadCrc, ReadPastEnd, InBody
    <3> QED BY <1>1, <3>1 DEF ReadMagic, Fail, Reader
  <2>2. CASE rd.pc # "magic"
    BY <1>2, <2>2 DEF ReadInv
  <2> QED BY <2>1, <2>2
<1>5. rd'.pc = "accepted" => Whole
  BY <1>1, CrcVouches
<1>6. ASSUME Whole  PROVE rd'.pc # "rejected" /\ (rd'.pc \in {"body", "table"} => InPlace')
  <2>1. CASE ReadMagic
    BY <1>6, <2>1, MagicRead
  <2>2. CASE rd.pc \in {"body", "table"}
    <3>1. InWhole
      BY <1>6, <2>2 DEF InWhole, ReadInv
    <3>2. ~ReadPastEnd /\ (ReadCrc => rd'.pc = "accepted")
      BY <2>2, <3>1, NothingMissing, CrcRead
    <3>3. ReadCounted => rd'.pc = "body" /\ InPlace'
      BY <3>1, CountedRead DEF ReadCounted, InBody
    <3>4. ASSUME rd.pc = "body", NEW v \in FieldAt(rd.pos), ReadField(v) \/ ReadPrefixed(v) \/ ReadTableCount(v)
          PROVE  rd'.pc \in {"body", "table"} /\ InPlace'
      BY <3>1, <3>4, FieldRead, PrefixedRead, TableCountRead
    <3>5. ASSUME rd.pc = "table", NEW v \in FieldAt(rd.pos + EntryWidth - 1), ReadTableEntry(v)
          PROVE  rd'.pc \in {"body", "table"} /\ InPlace'
      BY <3>1, <3>5, TableEntryRead
    <3>6. ~ReadMagic
      BY <2>2 DEF ReadMagic
    <3> QED BY <3>2, <3>3, <3>4, <3>5, <3>6 DEF ReadStep
  <2>3. rd.pc = "magic" => ReadMagic
    BY DEF ReadStep, ReadCounted, ReadCrc, ReadPastEnd, InBody
  <2> QED BY <1>2, <2>1, <2>2, <2>3
<1> QED BY <1>1, <1>3, <1>4, <1>5, <1>6 DEF ReadInv

\* The file of any graph, not yet opened.
LEMMA WrittenStarts == ASSUME FormatConstants, FormatInit  PROVE ReadInv
<1>1. graph \in Graph /\ Counts(graph) /\ words = <<Magic>> \o Body(graph) /\ crc = <<Body(graph)>> /\ tail = 0
  BY GraphCounts DEF FormatInit, WriteSnapshotFile
<1>2. rd = [NewReader EXCEPT !.pc = "closed"]
  BY DEF FormatInit
<1>3. rd \in Reader /\ rd.pc = "closed" /\ rd.pos = 1 /\ rd.at = 1 /\ rd.left = 0 /\ rd.alloc = 0
  BY <1>2 DEF NewReader, Reader
<1>4. Body(graph) \in Seq(Nat)
  BY <1>1, BodyLaid DEF Laid
<1> DEFINE b == Body(graph)
<1> HIDE DEF b
<1>5. b \in Seq(Nat) /\ words = <<Magic>> \o b /\ crc = <<b>>
  BY <1>1, <1>4 DEF b
<1>6. words \in Seq(Nat)
  <2>1. Magic \in Nat
    BY DEF Magic
  <2>2. <<Magic>> \o b \in Seq(Nat)
    BY <1>5, <2>1, Prefixed, Zenon
  <2> QED BY <1>5, <2>2
<1>7. crc \in Seq(Seq(Nat)) /\ Len(crc) <= 1
  <2>1. ASSUME NEW S, NEW x \in S  PROVE <<x>> \in Seq(S) /\ Len(<<x>>) = 1
    OBVIOUS
  <2>2. <<b>> \in Seq(Seq(Nat)) /\ Len(<<b>>) = 1
    BY <1>5, <2>1, Zenon
  <2> QED BY <1>5, <2>2
<1>8. FileType
  BY <1>1, <1>6, <1>7 DEF FileType
<1>9. BudgetInv
  BY <1>3, <1>8, SizeIsNat DEF BudgetInv
<1> QED BY <1>1, <1>3, <1>9 DEF ReadInv

\* The medium changes a file nobody has open.
LEMMA DamageKeeps == ASSUME FormatConstants, ReadInv, Damage  PROVE ReadInv'
<1>1. /\ BudgetInv /\ FileType /\ rd \in Reader /\ graph \in Graph /\ rd.pc = "closed" /\ graph' = graph /\ rd' = rd
      /\ rd.pos >= 1 /\ rd.at = 1 /\ rd.left = 0 /\ rd.alloc = 0
  BY DEF ReadInv, BudgetInv, Damage
<1>2. words \in Seq(Nat) /\ Len(words) \in Nat
  BY <1>1 DEF FileType
<1>3. FileType' /\ crc' \in {crc, <<>>}
  <2>1. ASSUME NEW i \in 1 .. Len(words), NEW v \in Word, words' = [words EXCEPT ![i] = v], UNCHANGED <<crc, tail>>
        PROVE  FileType' /\ crc' = crc
    <3>1. v \in Nat
      BY DEF Word, FormatConstants
    <3>2. words' \in Seq(Nat)
      BY <1>2, <2>1, <3>1
    <3> QED BY <1>1, <2>1, <3>2 DEF FileType
  <2>2. ASSUME NEW i \in 0 .. Len(words), words' = SubSeq(words, 1, i), crc' = <<>>, UNCHANGED tail
        PROVE  FileType'
    <3>1. words' \in Seq(Nat)
      BY <1>2, <2>2
    <3>2. <<>> \in Seq(Seq(Nat)) /\ Len(<<>>) = 0
      OBVIOUS
    <3> QED BY <1>1, <2>2, <3>1, <3>2 DEF FileType
  <2>3. ASSUME words' = Append(words, 0), UNCHANGED <<crc, tail>>  PROVE FileType' /\ crc' = crc
    <3>1. words' \in Seq(Nat)
      BY <1>2, <2>3
    <3> QED BY <1>1, <2>3, <3>1 DEF FileType
  <2>4. ASSUME tail' = 2, UNCHANGED <<words, crc>>  PROVE FileType' /\ crc' = crc
    BY <1>1, <2>4 DEF FileType
  <2> QED BY <2>1, <2>2, <2>3, <2>4 DEF Damage
<1>4. (Size \in Nat)'
  BY <1>3, SizeIsNat, PTL
<1>5. BudgetInv'
  BY <1>1, <1>3, <1>4 DEF BudgetInv
<1>6. crc' \in {<<>>, <<Body(graph)>>}
  BY <1>3 DEF ReadInv
<1> QED BY <1>1, <1>5, <1>6 DEF ReadInv

\* Every step of the medium, of opening and of reading.
LEMMA FormatStepKeeps == ASSUME FormatConstants, ReadInv, [FormatNext]_formatVars  PROVE ReadInv'
<1>1. CASE Damage
  BY <1>1, DamageKeeps
<1>2. CASE Open
  <2>1. BudgetInv'
    <3>1. Size' = Size /\ Size \in Nat /\ FileType' /\ rd' = NewReader
      BY <1>2, SizeIsNat DEF Open, fileVars, Size, FileType, ReadInv, BudgetInv
    <3> QED BY <3>1 DEF BudgetInv, NewReader, Reader
  <2>2. rd'.pc = "magic"
    BY <1>2 DEF Open, NewReader
  <2> QED BY <1>2, <2>1, <2>2 DEF ReadInv, Open, fileVars
<1>3. CASE ReadStep
  BY <1>3, ReadStepKeeps
<1>4. CASE Finished \/ UNCHANGED formatVars
  <2>1. UNCHANGED formatVars
    BY <1>4 DEF Finished
  <2> QED BY <2>1 DEF formatVars, fileVars, ReadInv, BudgetInv, FileType, Size, Whole, InPlace, Entries, Wide
<1> QED BY <1>1, <1>2, <1>3, <1>4 DEF FormatNext

\* ReadSnapshotFile takes the file that was written and no other, whatever the
\* graph and wherever the medium changed, cut or lengthened it, and allocates
\* for no more than the file holds on the way.
THEOREM ReaderTakesTheWrittenFile ==
    FormatSpec => [](OnlyWholeAccepted /\ AllocationsFitTheFile)
<1>1. FormatInit => ReadInv
  BY WrittenStarts, FormatAssumption
<1>2. ReadInv /\ [FormatNext]_formatVars => ReadInv'
  BY FormatStepKeeps, FormatAssumption
<1>3. ReadInv => OnlyWholeAccepted /\ AllocationsFitTheFile
  BY DEF ReadInv, BudgetInv, OnlyWholeAccepted, AllocationsFitTheFile
<1> QED BY <1>1, <1>2, <1>3, PTL DEF FormatSpec

-----------------------------------------------------------------------------
(* The arrays of a file, and the check that decides whether they are served. *)

\* Every set of numbers that is not empty has a least one.
LEMMA LeastNumber ==
    ASSUME NEW T \in SUBSET Nat, T # {}
    PROVE  \E m \in T : \A k \in T : m <= k
<1>1. PICK m \in T : \A k \in T : <<k, m>> \notin OpToRel(<, Nat)
  BY NatLessThanWellFounded, WFMin
<1>2. \A k \in T : ~(k < m)
  BY <1>1 DEF OpToRel
<1>3. \A k \in T : m <= k
  BY <1>2
<1> QED BY <1>3

\* Offsets the check takes stay at or below the length of what they index.
LEMMA OffsetsWithin ==
    ASSUME NEW offsets \in Seq(Nat), NEW indexed \in Nat, ValidOffsets(offsets, indexed)
    PROVE  /\ Len(offsets) \in Nat \ {0} /\ offsets[1] = 0
           /\ \A i \in 2 .. Len(offsets) : offsets[i - 1] <= offsets[i]
           /\ \A i \in 1 .. Len(offsets) : offsets[i] \in Nat /\ offsets[i] <= indexed
<1>1. /\ Len(offsets) \in Nat \ {0} /\ offsets[1] = 0 /\ offsets[Len(offsets)] = indexed
      /\ \A i \in 2 .. Len(offsets) : offsets[i - 1] <= offsets[i]
      /\ \A i \in 1 .. Len(offsets) : offsets[i] \in Nat
  BY DEF ValidOffsets, Last
<1> DEFINE T == {k \in 0 .. Len(offsets) - 1 : ~(offsets[Len(offsets) - k] <= indexed)}
<1>2. T = {}
  <2> SUFFICES ASSUME T # {}  PROVE FALSE
    OBVIOUS
  <2>1. PICK k \in T : \A j \in T : k <= j
    <3>1. T \in SUBSET Nat
      BY <1>1
    <3> QED BY <3>1, LeastNumber
  <2>2. k # 0
    BY <1>1, <2>1
  <2>3. k \in Nat /\ k - 1 \in 0 .. Len(offsets) - 1
    BY <1>1, <2>1, <2>2
  <2>5. k - 1 \notin T
    <3> HIDE DEF T
    <3>1. ~(k <= k - 1)
      BY <2>3
    <3> QED BY <2>1, <3>1
  <2>4. offsets[Len(offsets) - k] <= offsets[Len(offsets) - k + 1]
    BY <1>1, <2>1, <2>2
  <2>6. offsets[Len(offsets) - (k - 1)] <= indexed
    BY <2>3, <2>5
  <2>7. Len(offsets) - (k - 1) = Len(offsets) - k + 1 /\ Len(offsets) - k \in 1 .. Len(offsets) /\ Len(offsets) - k + 1 \in 1 .. Len(offsets)
    BY <1>1, <2>1, <2>2
  <2>8. ~(offsets[Len(offsets) - k] <= indexed)
    BY <2>1
  <2>9. offsets[Len(offsets) - k + 1] <= indexed
    BY <2>6, <2>7
  <2>10. offsets[Len(offsets) - k] \in Nat /\ offsets[Len(offsets) - k + 1] \in Nat
    BY <1>1, <2>7
  <2> QED BY <2>4, <2>8, <2>9, <2>10
<1>3. ASSUME NEW i \in 1 .. Len(offsets)  PROVE offsets[i] <= indexed
  <2>1. Len(offsets) - i \in 0 .. Len(offsets) - 1 /\ Len(offsets) - (Len(offsets) - i) = i
    BY <1>1
  <2> QED BY <1>2, <2>1
<1> QED BY <1>1, <1>3

\* Two neighbouring offsets of such an array mark off a run of what it indexes.
LEMMA RunWithin ==
    ASSUME NEW offsets \in Seq(Nat), NEW indexed \in Nat, ValidOffsets(offsets, indexed),
           NEW n \in Nat, Len(offsets) = n + 1, NEW i \in 0 .. n - 1
    PROVE  /\ At(offsets, i) \in Nat /\ At(offsets, i + 1) \in Nat
           /\ At(offsets, i) <= At(offsets, i + 1) /\ At(offsets, i + 1) <= indexed
<1>1. i + 1 \in 1 .. Len(offsets) /\ i + 2 \in 2 .. Len(offsets) /\ (i + 2) - 1 = i + 1 /\ i + 1 + 1 = i + 2
  OBVIOUS
<1>2. /\ \A j \in 2 .. Len(offsets) : offsets[j - 1] <= offsets[j]
      /\ \A j \in 1 .. Len(offsets) : offsets[j] \in Nat /\ offsets[j] <= indexed
  BY OffsetsWithin
<1>3. offsets[i + 1] <= offsets[i + 2] /\ offsets[i + 1] \in Nat /\ offsets[i + 2] \in Nat /\ offsets[i + 2] <= indexed
  BY <1>1, <1>2
<1> QED BY <1>1, <1>3 DEF At

\* A sequence with one element changed is a sequence of the same elements' type.
LEMMA ChangedElement ==
    ASSUME NEW S, NEW seq \in Seq(S), NEW i, NEW v \in S
    PROVE  [seq EXCEPT ![i] = v] \in Seq(S)
<1>1. seq \in [1 .. Len(seq) -> S] /\ Len(seq) \in Nat
  OBVIOUS
<1>2. [seq EXCEPT ![i] = v] \in [1 .. Len(seq) -> S]
  BY <1>1
<1> QED BY <1>1, <1>2, SeqDef

\* So is one that lacks its last element.
LEMMA FrontIsSeq ==
    ASSUME NEW S, NEW seq \in Seq(S), seq # <<>>
    PROVE  Front(seq) \in Seq(S) /\ Len(Front(seq)) = Len(seq) - 1
<1>1. Len(seq) \in Nat \ {0}
  OBVIOUS
<1> QED BY <1>1 DEF Front

\* The fields of arrays.
LEMMA ArraysFields ==
    ASSUME NEW a \in Arrays
    PROVE  /\ a.graphIDs \in Seq(Int)
           /\ a.outOffsets \in Seq(Nat) /\ a.inOffsets \in Seq(Nat) /\ a.kindOffsets \in Seq(Nat) /\ a.propOffsets \in Seq(Nat)
           /\ a.outTargets \in Seq(Nat) /\ a.inTargets \in Seq(Nat)
           /\ a.outKinds \in Seq(Int) /\ a.inKinds \in Seq(Int) /\ a.outEdgeIDs \in Seq(Int) /\ a.nodeKinds \in Seq(Int)
           /\ a.inEdgeIdx \in Seq(Nat) /\ a.edgeIDPerm \in Seq(Nat)
           /\ a.propNames \in Seq(STRING) /\ a.entries \in Seq(PropEntry)
           /\ a.arena \in Seq(Nat) /\ Len(a.arena) <= MaxArena
  BY DEF Arrays

\* What a span of a sequence holds, the sequence holds.
LEMMA SliceWithin ==
    ASSUME NEW S, NEW seq \in Seq(S), NEW lo \in Nat, NEW hi \in Nat, lo <= hi, hi <= Len(seq)
    PROVE  Range(Slice(seq, lo, hi)) \subseteq Range(seq)
<1>1. SubSeq(seq, lo + 1, hi) \in Seq(S) /\ Len(SubSeq(seq, lo + 1, hi)) = hi - lo
      /\ \A j \in 1 .. hi - lo : SubSeq(seq, lo + 1, hi)[j] = seq[lo + j]
  OBVIOUS
<1>2. ASSUME NEW e \in Range(Slice(seq, lo, hi))  PROVE e \in Range(seq)
  <2>0. PICK j \in DOMAIN SubSeq(seq, lo + 1, hi) : e = SubSeq(seq, lo + 1, hi)[j]
    BY DEF Range, Slice
  <2>1. j \in 1 .. hi - lo /\ e = seq[lo + j]
    BY <1>1, <2>0
  <2>2. lo + j \in 1 .. Len(seq)
    BY <2>1
  <2>3. lo + j \in DOMAIN seq
    BY <2>2
  <2> QED BY <2>1, <2>3 DEF Range
<1> QED BY <1>2

\* A sum below the modulus does not wrap.
LEMMA NoWrap ==
    ASSUME NEW x \in Nat, NEW m \in Nat, x <= m
    PROVE  x % (m + 1) = x
  OBVIOUS

\* An entry the check takes names a name and a span of the arena that does not wrap.
LEMMA EntrySafe ==
    ASSUME NEW a \in Arrays, ValidatePropStore(a), NEW e \in Range(a.entries)
    PROVE  e.prop + 1 \in DOMAIN a.propNames /\ e.kind \in PropKinds /\ (InArena(e.kind) => Spans(a.arena, e.ref, DecodeEnd(e)))
<1>1. e \in PropEntry
  BY ArraysFields DEF Range
<1>2. e.prop \in Nat /\ e.ref \in Nat /\ e.len \in Nat /\ MaxArena \in Nat /\ Len(a.arena) \in Nat
  BY <1>1, ArraysFields, BaseAssumption DEF PropEntry
<1>3. e.prop < Len(a.propNames) /\ e.kind \in PropKinds /\ SpanInArena(a, e)
  BY DEF ValidatePropStore
<1>4. e.prop + 1 \in DOMAIN a.propNames
  BY <1>2, <1>3, ArraysFields
<1>5. ASSUME InArena(e.kind)  PROVE Spans(a.arena, e.ref, DecodeEnd(e))
  <2>1. e.ref + e.len <= Len(a.arena) /\ e.ref + e.len <= MaxArena
    BY <1>2, <1>3, <1>5, ArraysFields DEF SpanInArena
  <2>2. (e.ref + e.len) % (MaxArena + 1) = e.ref + e.len
    <3>1. e.ref + e.len \in Nat
      BY <1>2
    <3> QED BY <1>2, <2>1, <3>1, NoWrap
  <2> QED BY <1>2, <2>1, <2>2 DEF Spans, DecodeEnd
<1> QED BY <1>3, <1>4, <1>5

\* A slot within an array of numbers below a bound holds one.
LEMMA SlotBelow ==
    ASSUME NEW seq \in Seq(Nat), NEW bound \in Nat, \A t \in Range(seq) : t < bound, NEW s \in 0 .. Len(seq) - 1
    PROVE  At(seq, s) + 1 \in 1 .. bound
<1>1. s + 1 \in 1 .. Len(seq)
  OBVIOUS
<1>2. seq[s + 1] \in Nat /\ seq[s + 1] \in Range(seq)
  BY <1>1 DEF Range
<1> QED BY <1>2 DEF At

\* validateSnapshotStructure: arrays of any content that it takes are safe to serve.
LEMMA ValidArraysAreSafe ==
    ASSUME NEW a \in Arrays, Validate(a)
    PROVE  Safe(a)
<1> DEFINE n == Len(a.graphIDs)
           e == Len(a.outTargets)
<1>1. /\ n \in Nat /\ e \in Nat
      /\ Len(a.outKinds) = e /\ Len(a.outEdgeIDs) = e /\ Len(a.inTargets) = e /\ Len(a.inKinds) = e
      /\ Len(a.inEdgeIdx) = e /\ Len(a.edgeIDPerm) = e
      /\ Len(a.outOffsets) = n + 1 /\ Len(a.inOffsets) = n + 1 /\ Len(a.kindOffsets) = n + 1 /\ Len(a.propOffsets) = n + 1
      /\ Len(a.nodeKinds) \in Nat /\ Len(a.entries) \in Nat
  <2>1. n \in Nat /\ e \in Nat /\ Len(a.nodeKinds) \in Nat /\ Len(a.entries) \in Nat
    BY ArraysFields
  <2>2. /\ \A f \in {"outKinds", "outEdgeIDs", "inTargets", "inKinds", "inEdgeIdx", "edgeIDPerm"} : Len(a[f]) = e
        /\ \A f \in {"outOffsets", "inOffsets", "kindOffsets"} : Len(a[f]) = n + 1
        /\ Len(a.propOffsets) = n + 1
    BY DEF Validate, ValidatePropStore
  <2> QED BY <2>1, <2>2
<1>2. /\ ValidOffsets(a.outOffsets, e) /\ ValidOffsets(a.inOffsets, e)
      /\ ValidOffsets(a.kindOffsets, Len(a.nodeKinds)) /\ ValidOffsets(a.propOffsets, Len(a.entries))
      /\ \A t \in Range(a.outTargets) : t < n
      /\ \A t \in Range(a.inTargets) : t < n
      /\ \A s \in Range(a.inEdgeIdx) : s < e
      /\ \A s \in Range(a.edgeIDPerm) : s < e
      /\ ValidatePropStore(a)
  BY DEF Validate, ValidatePropStore
<1>3. DOMAIN a.graphIDs = 1 .. n /\ DOMAIN a.outTargets = 1 .. e
  BY ArraysFields
<1>4. ASSUME NEW i \in 0 .. n - 1  PROVE RowSafe(a, i)
  <2>1. /\ At(a.outOffsets, i) \in Nat /\ At(a.outOffsets, i + 1) \in Nat
        /\ At(a.outOffsets, i) <= At(a.outOffsets, i + 1) /\ At(a.outOffsets, i + 1) <= e
    BY <1>1, <1>2, <1>4, ArraysFields, RunWithin
  <2>2. /\ At(a.inOffsets, i) \in Nat /\ At(a.inOffsets, i + 1) \in Nat
        /\ At(a.inOffsets, i) <= At(a.inOffsets, i + 1) /\ At(a.inOffsets, i + 1) <= e
    BY <1>1, <1>2, <1>4, ArraysFields, RunWithin
  <2>3. At(a.kindOffsets, i) <= At(a.kindOffsets, i + 1) /\ At(a.kindOffsets, i + 1) <= Len(a.nodeKinds)
    BY <1>1, <1>2, <1>4, ArraysFields, RunWithin
  <2>4. /\ At(a.propOffsets, i) \in Nat /\ At(a.propOffsets, i + 1) \in Nat
        /\ At(a.propOffsets, i) <= At(a.propOffsets, i + 1) /\ At(a.propOffsets, i + 1) <= Len(a.entries)
    BY <1>1, <1>2, <1>4, ArraysFields, RunWithin
  <2>5. /\ \A f \in {"outTargets", "outKinds", "outEdgeIDs"} : Spans(a[f], At(a.outOffsets, i), At(a.outOffsets, i + 1))
        /\ \A f \in {"inTargets", "inKinds", "inEdgeIdx"} : Spans(a[f], At(a.inOffsets, i), At(a.inOffsets, i + 1))
    BY <1>1, <2>1, <2>2 DEF Spans
  <2>6. ASSUME NEW s \in InSlots(a, i)  PROVE IsEdgeSlot(a, At(a.inEdgeIdx, s)) /\ IsNode(a, At(a.inTargets, s))
    <3>1. s \in 0 .. Len(a.inEdgeIdx) - 1 /\ s \in 0 .. Len(a.inTargets) - 1
      BY <1>1, <2>2 DEF InSlots
    <3>2. At(a.inEdgeIdx, s) + 1 \in 1 .. e
      BY <1>1, <1>2, <3>1, ArraysFields, SlotBelow
    <3>3. At(a.inTargets, s) + 1 \in 1 .. n
      BY <1>1, <1>2, <3>1, ArraysFields, SlotBelow
    <3> QED BY <1>3, <3>2, <3>3 DEF IsEdgeSlot, IsNode
  <2>7. ASSUME NEW s \in OutSlots(a, i)  PROVE IsNode(a, At(a.outTargets, s))
    <3>1. s \in 0 .. Len(a.outTargets) - 1
      BY <1>1, <2>1 DEF OutSlots
    <3>2. At(a.outTargets, s) + 1 \in 1 .. n
      BY <1>1, <1>2, <3>1, ArraysFields, SlotBelow
    <3> QED BY <1>3, <3>2 DEF IsNode
  <2>8. Range(EntriesOf(a, i)) \subseteq Range(a.entries)
    BY <2>4, ArraysFields, SliceWithin DEF EntriesOf
  <2>9. \A x \in Range(EntriesOf(a, i)) :
          x.prop + 1 \in DOMAIN a.propNames /\ x.kind \in PropKinds /\ (InArena(x.kind) => Spans(a.arena, x.ref, DecodeEnd(x)))
    BY <1>2, <2>8, EntrySafe
  <2> QED BY <2>3, <2>4, <2>5, <2>6, <2>7, <2>9 DEF RowSafe, Spans
<1>5. ASSUME NEW p \in Range(a.edgeIDPerm)  PROVE IsEdgeSlot(a, p)
  <2>1. p \in Nat /\ p < e
    BY <1>2, <1>5, ArraysFields DEF Range
  <2> QED BY <1>1, <1>3, <2>1 DEF IsEdgeSlot
<1> QED BY <1>4, <1>5 DEF Safe

-----------------------------------------------------------------------------
\* One number of one array changed, an array cut short or an entry's number
\* or kind changed: the types are the same.
LEMMA DamagedAreArrays ==
    ASSUME NEW a \in Arrays, NEW d \in Damaged(a)
    PROVE  d \in Arrays
<1>1. ASSUME NEW f \in Numbers, NEW i \in 1 .. 8, NEW v \in Corruptions, d = [a EXCEPT ![f][i] = v]
      PROVE  d \in Arrays
  <2>1. v \in Nat /\ v \in Int
    BY BaseAssumption
  <2>2. /\ [a.graphIDs EXCEPT ![i] = v] \in Seq(Int)
        /\ [a.outOffsets EXCEPT ![i] = v] \in Seq(Nat) /\ [a.outTargets EXCEPT ![i] = v] \in Seq(Nat)
        /\ [a.inOffsets EXCEPT ![i] = v] \in Seq(Nat) /\ [a.inTargets EXCEPT ![i] = v] \in Seq(Nat)
        /\ [a.inEdgeIdx EXCEPT ![i] = v] \in Seq(Nat) /\ [a.edgeIDPerm EXCEPT ![i] = v] \in Seq(Nat)
        /\ [a.kindOffsets EXCEPT ![i] = v] \in Seq(Nat) /\ [a.propOffsets EXCEPT ![i] = v] \in Seq(Nat)
    BY <2>1, ArraysFields, ChangedElement
  <2>3. CASE f = "graphIDs"  BY <1>1, <2>2, <2>3 DEF Arrays
  <2>4. CASE f = "outOffsets"  BY <1>1, <2>2, <2>4 DEF Arrays
  <2>5. CASE f = "outTargets"  BY <1>1, <2>2, <2>5 DEF Arrays
  <2>6. CASE f = "inOffsets"  BY <1>1, <2>2, <2>6 DEF Arrays
  <2>7. CASE f = "inTargets"  BY <1>1, <2>2, <2>7 DEF Arrays
  <2>8. CASE f = "inEdgeIdx"  BY <1>1, <2>2, <2>8 DEF Arrays
  <2>9. CASE f = "edgeIDPerm"  BY <1>1, <2>2, <2>9 DEF Arrays
  <2>10. CASE f = "kindOffsets"  BY <1>1, <2>2, <2>10 DEF Arrays
  <2>11. CASE f = "propOffsets"  BY <1>1, <2>2, <2>11 DEF Arrays
  <2> QED BY <2>3, <2>4, <2>5, <2>6, <2>7, <2>8, <2>9, <2>10, <2>11 DEF Numbers
<1>2. ASSUME NEW f \in Numbers \cup {"outKinds", "inKinds", "outEdgeIDs", "nodeKinds", "propNames", "arena", "entries"},
             a[f] # <<>>, d = [a EXCEPT ![f] = Front(@)]
      PROVE  d \in Arrays
  <2>1. /\ a.graphIDs # <<>> => Front(a.graphIDs) \in Seq(Int)
        /\ a.outOffsets # <<>> => Front(a.outOffsets) \in Seq(Nat)
        /\ a.outTargets # <<>> => Front(a.outTargets) \in Seq(Nat)
        /\ a.inOffsets # <<>> => Front(a.inOffsets) \in Seq(Nat)
        /\ a.inTargets # <<>> => Front(a.inTargets) \in Seq(Nat)
        /\ a.inEdgeIdx # <<>> => Front(a.inEdgeIdx) \in Seq(Nat)
        /\ a.edgeIDPerm # <<>> => Front(a.edgeIDPerm) \in Seq(Nat)
        /\ a.kindOffsets # <<>> => Front(a.kindOffsets) \in Seq(Nat)
        /\ a.propOffsets # <<>> => Front(a.propOffsets) \in Seq(Nat)
    BY ArraysFields, FrontIsSeq
  <2>2. /\ a.outKinds # <<>> => Front(a.outKinds) \in Seq(Int)
        /\ a.inKinds # <<>> => Front(a.inKinds) \in Seq(Int)
        /\ a.outEdgeIDs # <<>> => Front(a.outEdgeIDs) \in Seq(Int)
        /\ a.nodeKinds # <<>> => Front(a.nodeKinds) \in Seq(Int)
        /\ a.propNames # <<>> => Front(a.propNames) \in Seq(STRING)
        /\ a.entries # <<>> => Front(a.entries) \in Seq(PropEntry)
    BY ArraysFields, FrontIsSeq
  <2>3. a.arena # <<>> => Front(a.arena) \in {content \in Seq(Nat) : Len(content) <= MaxArena}
    <3>1. a.arena # <<>> => Front(a.arena) \in Seq(Nat) /\ Len(Front(a.arena)) = Len(a.arena) - 1
      BY ArraysFields, FrontIsSeq
    <3>2. Len(a.arena) \in Nat /\ Len(a.arena) <= MaxArena /\ MaxArena \in Nat
      BY ArraysFields, BaseAssumption
    <3> QED BY <3>1, <3>2
  <2>4. CASE f = "graphIDs"  BY <1>2, <2>1, <2>4 DEF Arrays
  <2>5. CASE f = "outOffsets"  BY <1>2, <2>1, <2>5 DEF Arrays
  <2>6. CASE f = "outTargets"  BY <1>2, <2>1, <2>6 DEF Arrays
  <2>7. CASE f = "inOffsets"  BY <1>2, <2>1, <2>7 DEF Arrays
  <2>8. CASE f = "inTargets"  BY <1>2, <2>1, <2>8 DEF Arrays
  <2>9. CASE f = "inEdgeIdx"  BY <1>2, <2>1, <2>9 DEF Arrays
  <2>10. CASE f = "edgeIDPerm"  BY <1>2, <2>1, <2>10 DEF Arrays
  <2>11. CASE f = "kindOffsets"  BY <1>2, <2>1, <2>11 DEF Arrays
  <2>12. CASE f = "propOffsets"  BY <1>2, <2>1, <2>12 DEF Arrays
  <2>13. CASE f = "outKinds"  BY <1>2, <2>2, <2>13 DEF Arrays
  <2>14. CASE f = "inKinds"  BY <1>2, <2>2, <2>14 DEF Arrays
  <2>15. CASE f = "outEdgeIDs"  BY <1>2, <2>2, <2>15 DEF Arrays
  <2>16. CASE f = "nodeKinds"  BY <1>2, <2>2, <2>16 DEF Arrays
  <2>17. CASE f = "propNames"  BY <1>2, <2>2, <2>17 DEF Arrays
  <2>18. CASE f = "entries"  BY <1>2, <2>2, <2>18 DEF Arrays
  <2>19. CASE f = "arena"  BY <1>2, <2>3, <2>19 DEF Arrays
  <2> QED BY <2>4, <2>5, <2>6, <2>7, <2>8, <2>9, <2>10, <2>11, <2>12, <2>13, <2>14, <2>15, <2>16, <2>17, <2>18, <2>19 DEF Numbers
<1>3. ASSUME NEW i \in DOMAIN a.entries, NEW f \in {"prop", "ref", "len"}, NEW v \in Corruptions,
             d = [a EXCEPT !.entries[i][f] = v]
      PROVE  d \in Arrays
  <2>1. a.entries[i] \in PropEntry /\ v \in Nat
    BY ArraysFields, BaseAssumption
  <2>2. [a.entries[i] EXCEPT ![f] = v] \in PropEntry
    BY <2>1 DEF PropEntry
  <2>3. [a.entries EXCEPT ![i] = [a.entries[i] EXCEPT ![f] = v]] \in Seq(PropEntry)
    BY <2>2, ArraysFields, ChangedElement
  <2>4. d = [a EXCEPT !.entries = [a.entries EXCEPT ![i] = [a.entries[i] EXCEPT ![f] = v]]]
    BY <1>3
  <2> QED BY <2>3, <2>4 DEF Arrays
<1>4. ASSUME NEW i \in DOMAIN a.entries, d = [a EXCEPT !.entries[i].kind = "unknown"]
      PROVE  d \in Arrays
  <2>1. a.entries[i] \in PropEntry
    BY ArraysFields
  <2>2. [a.entries[i] EXCEPT !.kind = "unknown"] \in PropEntry
    BY <2>1 DEF PropEntry
  <2>3. [a.entries EXCEPT ![i] = [a.entries[i] EXCEPT !.kind = "unknown"]] \in Seq(PropEntry)
    BY <2>2, ArraysFields, ChangedElement
  <2>4. d = [a EXCEPT !.entries = [a.entries EXCEPT ![i] = [a.entries[i] EXCEPT !.kind = "unknown"]]]
    BY <1>4
  <2> QED BY <2>3, <2>4 DEF Arrays
<1> QED BY <1>1, <1>2, <1>3, <1>4 DEF Damaged

\* The arrays a snapshot has, built or read from a damaged file, are of the types.
ArraysTyped == snap.built => snap.arrays \in Arrays

\* Build packs what was staged into arrays of the types: a part of HoldsStaged.
BuiltTyped == snap.built /\ ~snap.damaged => snap.arrays \in Arrays

\* Whatever is built or damaged, the arrays are of the wire's types.
LEMMA ArraysStayTyped ==
    ASSUME ArraysTyped, BuiltTyped', [BaseNext]_baseVars
    PROVE  ArraysTyped'
<1>1. CASE Build
  BY <1>1 DEF Build, ArraysTyped, BuiltTyped
<1>2. CASE Corrupt
  BY <1>2, DamagedAreArrays DEF Corrupt, ArraysTyped
<1>3. CASE UNCHANGED snap
  BY <1>3 DEF ArraysTyped
<1> QED BY <1>1, <1>2, <1>3 DEF BaseNext, baseVars, AddNode, AddEdge

\* validateSnapshotStructure: of all arrays a file may hold, those it accepts can be served.
THEOREM EveryAcceptedIsSafe == BaseSpec /\ []BuiltTyped => []AcceptedIsSafe
<1>1. BaseInit => ArraysTyped
  BY DEF BaseInit, NoSnapshot, ArraysTyped
<1>2. ArraysTyped /\ BuiltTyped' /\ [BaseNext]_baseVars => ArraysTyped'
  BY ArraysStayTyped
<1>3. ArraysTyped => AcceptedIsSafe
  BY ValidArraysAreSafe DEF ArraysTyped, AcceptedIsSafe
<1> QED BY <1>1, <1>2, <1>3, PTL DEF BaseSpec
=============================================================================
