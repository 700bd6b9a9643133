--------------------------- MODULE SnapshotStore ---------------------------
(***************************************************************************)
(* The snapshot file on disk (snapshot/file.go, boot.go, persist.go):      *)
(* saves that may overlap, removals, a process that is killed and a        *)
(* machine that loses power between any two steps.  What running           *)
(* processes see is the page cache; what a power loss leaves is any state  *)
(* the directory was in since it was last synced, and of a file whose      *)
(* bytes were not synced, anything.                                        *)
(***************************************************************************)
EXTENDS Naturals

CONSTANTS Save,        \* calls of WriteSnapshotFile; each writes an inode of its own
          Null,        \* no file under the name
          MaxRemovals, \* bound: calls of RemoveSnapshotFile
          MaxFaults,   \* bound: file operations that fail
          MaxStops     \* bound: kills and power losses

ASSUME StoreConstants ==
    Null \notin Save /\ {MaxRemovals, MaxFaults, MaxStops} \subseteq Nat

VARIABLES
    up,       \* whether a BloodTrail process runs
    entry,    \* the name graph-<id>.btsnap: its file, and the change that put it there
    since,    \* the values entry had since the directory was last synced
    temps,    \* the temporary names in the directory
    tempsSince, \* those it held at any time since it was last synced
    bytes,    \* what each inode holds
    synced,   \* the inodes whose bytes reached the disk
    pc,       \* where each save stands
    made,     \* the change each save's rename made
    remover,  \* where RemoveSnapshotFile stands, and the entry it answers for
    changes,  \* how often entry changed
    settled,  \* history: the newest change whose caller was told it succeeded
    leaked,   \* history: temporary files whose removal failed
    used

vars == <<up, entry, since, temps, tempsSince, bytes, synced, pc, made, remover, changes,
          settled, leaked, used>>
dirVars == <<entry, since, changes>>
tempVars == <<temps, tempsSince>>

Init ==
    /\ up = FALSE
    /\ entry = [file |-> Null, at |-> 0] /\ since = {entry}
    /\ temps = {} /\ tempsSince = {}
    /\ bytes = [s \in Save |-> "none"] /\ synced = {}
    /\ pc = [s \in Save |-> "idle"] /\ made = [s \in Save |-> 0]
    /\ remover = [pc |-> "idle", removed |-> FALSE, at |-> 0]
    /\ changes = 0 /\ settled = 0 /\ leaked = {}
    /\ used = [removals |-> 0, faults |-> 0, stops |-> 0]

Fault == used.faults < MaxFaults /\ used' = [used EXCEPT !.faults = @ + 1]

\* The directory entry changes in the page cache.
SetEntry(file) ==
    /\ entry' = [file |-> file, at |-> changes + 1]
    /\ since' = since \cup {entry'}
    /\ changes' = changes + 1
SetTemps(names) == temps' = names /\ tempsSince' = tempsSince \cup names

\* syncDir: every name in the directory, as it stands, is on the disk.
SyncDir == since' = {entry} /\ tempsSince' = temps

Newest(a, b) == IF a < b THEN b ELSE a
-----------------------------------------------------------------------------
(* WriteSnapshotFile.                                                       *)

Writing(s) == pc[s] \in {"temp", "written", "synced"}
Goto(s, from, to) == up /\ pc[s] = from /\ pc' = [pc EXCEPT ![s] = to]

CreateTemp(s) ==
    /\ Goto(s, "idle", "temp")
    /\ SetTemps(temps \cup {s})
    /\ bytes' = [bytes EXCEPT ![s] = "part"]
    /\ UNCHANGED <<up, dirVars, made, synced, remover, settled, leaked, used>>

\* Magic, body, checksum and flush.
WriteBody(s) ==
    /\ Goto(s, "temp", "written")
    /\ bytes' = [bytes EXCEPT ![s] = "whole"]
    /\ UNCHANGED <<up, dirVars, tempVars, made, synced, remover, settled, leaked, used>>

SyncFile(s) ==
    /\ Goto(s, "written", "synced")
    /\ synced' = synced \cup {s}
    /\ UNCHANGED <<up, dirVars, tempVars, bytes, made, remover, settled, leaked, used>>

Rename(s) ==
    /\ Goto(s, "synced", "renamed")
    /\ SetEntry(s) /\ made' = [made EXCEPT ![s] = changes']
    /\ SetTemps(temps \ {s})
    /\ UNCHANGED <<up, bytes, synced, remover, settled, leaked, used>>

SaveSyncsDir(s) ==
    /\ Goto(s, "renamed", "saved")
    /\ SyncDir
    /\ settled' = Newest(settled, made[s])
    /\ UNCHANGED <<up, entry, changes, temps, bytes, made, synced, remover, leaked, used>>

\* An error before the rename removes the temporary file, or tries to.
SaveFails(s) ==
    /\ up /\ Writing(s) /\ Fault
    /\ pc' = [pc EXCEPT ![s] = "failed"]
    /\ \/ SetTemps(temps \ {s}) /\ UNCHANGED leaked
       \/ leaked' = leaked \cup {s} /\ UNCHANGED tempVars
    /\ UNCHANGED <<up, dirVars, bytes, made, synced, remover, settled>>

\* An error after it leaves the file in place, its durability unknown.
SaveSyncDirFails(s) ==
    /\ Goto(s, "renamed", "failed") /\ Fault
    /\ UNCHANGED <<up, dirVars, tempVars, bytes, made, synced, remover, settled, leaked>>
-----------------------------------------------------------------------------
(* RemoveSnapshotFile: a missing file is no error, and the directory is     *)
(* synced all the same.                                                     *)

Unlink ==
    /\ up /\ remover.pc # "unlinked" /\ used.removals < MaxRemovals
    /\ used' = [used EXCEPT !.removals = @ + 1]
    /\ IF entry.file # Null THEN SetEntry(Null) ELSE UNCHANGED dirVars
    /\ remover' = [pc |-> "unlinked", removed |-> entry.file # Null, at |-> entry'.at]
    /\ UNCHANGED <<up, tempVars, bytes, made, synced, pc, settled, leaked>>

\* Broken on purpose: a removal that found no file syncs nothing.
SyncIfRemoved ==
    /\ up /\ remover.pc = "unlinked"
    /\ IF remover.removed THEN SyncDir ELSE UNCHANGED <<since, tempsSince>>
    /\ remover' = [remover EXCEPT !.pc = "removed"]
    /\ settled' = Newest(settled, remover.at)
    /\ UNCHANGED <<up, entry, changes, temps, bytes, made, synced, pc, leaked, used>>

RemoveSyncsDir ==
    /\ up /\ remover.pc = "unlinked"
    /\ SyncDir
    /\ remover' = [remover EXCEPT !.pc = "removed"]
    /\ settled' = Newest(settled, remover.at)
    /\ UNCHANGED <<up, entry, changes, temps, bytes, made, synced, pc, leaked, used>>

RemoveFails ==
    /\ up /\ remover.pc = "unlinked" /\ Fault
    /\ remover' = [remover EXCEPT !.pc = "failed"]
    /\ UNCHANGED <<up, dirVars, tempVars, bytes, made, synced, pc, settled, leaked>>
-----------------------------------------------------------------------------
(* The process and the machine.                                             *)

\* Start sweeps the directory once, before this process writes anything.
Start ==
    /\ ~up /\ up' = TRUE
    /\ \/ SetTemps({}) /\ UNCHANGED <<leaked, used>>
       \/ /\ Fault /\ temps # {}
          /\ \E s \in temps : SetTemps({s}) /\ leaked' = leaked \cup {s}
    /\ UNCHANGED <<dirVars, bytes, synced, pc, remover, made, settled>>

Stops ==
    /\ used.stops < MaxStops /\ used' = [used EXCEPT !.stops = @ + 1]
    /\ up' = FALSE
    /\ pc' = [s \in Save |-> IF Writing(s) \/ pc[s] = "renamed" THEN "dead" ELSE pc[s]]
    /\ remover' = [remover EXCEPT !.pc = IF @ = "unlinked" THEN "dead" ELSE @]

\* SIGKILL: the page cache outlives the process.
Kill ==
    /\ up /\ Stops
    /\ UNCHANGED <<dirVars, tempVars, bytes, synced, made, settled, leaked>>

\* A power loss: the directory is as it was at some time since it was synced,
\* and bytes that were not synced are lost.
PowerLoss ==
    /\ Stops
    /\ \E e \in since, names \in SUBSET tempsSince :
           /\ entry' = e /\ since' = {e}
           /\ temps' = names /\ tempsSince' = names
    /\ bytes' = [s \in Save |-> IF bytes[s] # "none" /\ s \notin synced THEN "torn" ELSE bytes[s]]
    /\ UNCHANGED <<changes, synced, made, settled, leaked>>

Next ==
    \/ \E s \in Save : \/ CreateTemp(s) \/ WriteBody(s) \/ SyncFile(s) \/ Rename(s)
                       \/ SaveSyncsDir(s) \/ SaveFails(s) \/ SaveSyncDirFails(s)
    \/ Unlink \/ RemoveSyncsDir \/ RemoveFails
    \/ Start \/ Kill \/ PowerLoss

Spec == Init /\ [][Next]_vars
-----------------------------------------------------------------------------
\* WriteSnapshotFile: the file under the name is always a complete snapshot,
\* whatever save, kill or power loss came before: never a part of one.
FileIsWhole == entry.file # Null => bytes[entry.file] = "whole"

\* WriteSnapshotFile and RemoveSnapshotFile: once a call has reported success,
\* no power loss brings back what was under the name before its change: a
\* saved file stays saved and a removed one stays removed.
NothingComesBack == entry.at >= settled

\* sweepStaleSnapshotTempFiles: a running process's directory holds the
\* temporary files it is writing and no others, bar one whose removal failed.
TempsAreLive ==
    up => /\ {s \in Save : Writing(s)} \subseteq temps
          /\ temps \subseteq {s \in Save : Writing(s)} \cup leaked

\* The snapshot directory at any moment of any saves, removals, kills and
\* power losses (file.go): the named file is whole, nothing replaced or removed
\* comes back, and no temporary file outlives the save that made it.
DirectoryIsSound == FileIsWhole /\ NothingComesBack /\ TempsAreLive
============================================================================
