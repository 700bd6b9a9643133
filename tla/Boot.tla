-------------------------------- MODULE Boot --------------------------------
(***************************************************************************)
(* Starting a process (Engine.Start) and its one attempt to adopt the      *)
(* snapshot file (runBootLoad, boot.go): refuse a file the start state or  *)
(* the lineage rules out, freeze the counter, wait until the writes seen   *)
(* since the start cover the gap up to it, replay them, publish.           *)
(***************************************************************************)
EXTENDS Rebuild

\* fileRefusal, of a stamp and lineage: another lineage, nothing captured at
\* start, a stamp ahead of the counter at start, or rows inserted behind it.
FileRefused(f) ==
    \/ f.lineage = 0 \/ f.lineage # pgLineage
    \/ atStart = Null
    \/ atStart # Null /\ atStart.counter < f.counter
    \/ atStart # Null /\ atStart.counter = f.counter /\ atStart.seq # f.seq

FileUsable == file # Null /\ ~FileRefused(file)

\* bootGapCoveredAt: a file ahead of the target, or a counter the file already
\* claims, contradicts; a value of the gap nobody accounts for is a hole.
BufferedCounters == {e.counter : e \in bootGap.entries}

BootGapContradiction(fileCounter, target) ==
    \/ target < fileCounter
    \/ \E c \in BufferedCounters : c <= fileCounter

BootGapCovered(fileCounter, target) ==
    /\ ~BootGapContradiction(fileCounter, target)
    /\ (fileCounter + 1) .. target \subseteq BufferedCounters

\* Every way the file attempt ends without adopting: the buffer can never be
\* used again, and the loop goes on to rebuild.
GiveUpOnFile ==
    /\ bootGap' = Deactivate(bootGap)
    /\ loop' = [loop EXCEPT !.pc = "top"]
    /\ load' = NewLoad
-----------------------------------------------------------------------------
\* Start: the watermark table, where PostgreSQL stands, the armed buffer, the
\* claimed loop.  A failed DDL opens a generation that settles itself; a
\* failed capture leaves nothing to check a file against.
Start ==
    /\ ~up
    /\ up' = TRUE
    /\ \E ddlFails, captureFails \in BOOLEAN :
        /\ IF ddlFails \/ captureFails THEN Fault ELSE UNCHANGED used
        /\ dirtyGen' = IF ddlFails THEN 1 ELSE 0
        /\ settledGen' = dirtyGen'
        /\ atStart' = IF SnapshotDir /\ ~captureFails
                      THEN [counter |-> pgCounter, seq |-> pgSeq] ELSE Null
    /\ bootGap' = [NewBootGap EXCEPT !.active = SnapshotDir]
    /\ loop' = [NewLoop EXCEPT !.pc = "boot"]
    /\ UNCHANGED <<pgVars, file, stopping, viewVars, resolvedGen, countVars, applyMu, applyEpoch,
                   load, ws, building, save, query, acked>>

\* The default graph is known: the one file attempt begins with the settled
\* generation, read before anything of the file.
BootReadGen ==
    /\ ~stopping /\ loop.pc = "boot"
    /\ \/ /\ SnapshotDir /\ snap = Null
          /\ LoopStep("boot", "bootFile")
          /\ load' = [NewLoad EXCEPT !.gen = settledGen]
          /\ UNCHANGED bootGap
       \/ /\ ~SnapshotDir \/ snap # Null
          /\ GiveUpOnFile
    /\ UNCHANGED <<pgVars, file, lifeVars, viewVars, genVars, countVars, applyMu, applyEpoch, ws,
                   building, save, query, used, acked>>

ReadSnapshotFile ==
    /\ LoopStep("bootFile", "bootFreeze")
    /\ load' = [load EXCEPT !.rows = file.rows, !.counter = file.counter,
                            !.seq = file.seq, !.lineage = file.lineage]
    /\ UNCHANGED bootGap

\* tryLoadSnapshotFile reads the body once the header passed fileRefusal.
BootReadFile ==
    /\ loop.pc = "bootFile"
    /\ \/ FileUsable /\ ReadSnapshotFile
       \/ ~FileUsable /\ GiveUpOnFile
    /\ UNCHANGED <<pgVars, file, lifeVars, viewVars, genVars, countVars, applyMu, applyEpoch, ws,
                   building, save, query, used, acked>>

\* PostgreSQL could not be asked for the lineage: the body is read all the same.
BootReadFileUnchecked ==
    /\ file # Null /\ ReadSnapshotFile
    /\ Fault
    /\ UNCHANGED <<pgVars, file, lifeVars, viewVars, genVars, countVars, applyMu, applyEpoch, ws,
                   building, save, query, acked>>

\* adoptSnapshotFileView freezes the counter and asks fileRefusal again, of
\* the lineage read with it.
BootFreeze ==
    /\ loop.pc = "bootFreeze"
    /\ LET stamp == [counter |-> load.counter, seq |-> load.seq, lineage |-> load.lineage]
       IN \/ /\ ~FileRefused(stamp)
             /\ LoopStep("bootFreeze", "bootAttempt")
             /\ load' = [load EXCEPT !.target = pgCounter]
             /\ UNCHANGED bootGap
          \/ FileRefused(stamp) /\ GiveUpOnFile
    /\ UNCHANGED <<pgVars, file, lifeVars, viewVars, genVars, countVars, applyMu, applyEpoch, ws,
                   building, save, query, used, acked>>

\* A file that does not parse or is over the memory limit, a counter that
\* cannot be read.
BootFileFails ==
    /\ loop.pc \in {"bootFile", "bootFreeze"}
    /\ Fault
    /\ GiveUpOnFile
    /\ UNCHANGED <<pgVars, file, lifeVars, viewVars, genVars, countVars, applyMu, applyEpoch, ws,
                   building, save, query, acked>>

\* adoptSnapshotFileAttempt's refusals, in force at any attempt.
AttemptRejected ==
    \/ snap # Null \/ ~Serving \/ settledGen # load.gen \/ bootGap.poisoned
    \/ BootGapContradiction(load.counter, load.target)

BootAttemptRejected ==
    /\ loop.pc = "bootAttempt" /\ applyMu = Null
    /\ AttemptRejected
    /\ GiveUpOnFile
    /\ UNCHANGED <<pgVars, file, lifeVars, viewVars, genVars, countVars, applyMu, applyEpoch, ws,
                   building, save, query, used, acked>>

\* A hole that no write in flight fills within bootGapSettleTimeout, or Stop.
BootSettleTimeout ==
    /\ loop.pc = "bootAttempt" /\ applyMu = Null
    /\ ~AttemptRejected /\ ~BootGapCovered(load.counter, load.target)
    /\ GiveUpOnFile
    /\ UNCHANGED <<pgVars, file, lifeVars, viewVars, genVars, countVars, applyMu, applyEpoch, ws,
                   building, save, query, used, acked>>

\* Covered: take the buffer and replay its writes under applyMu.
BootTake ==
    /\ loop.pc = "bootAttempt" /\ applyMu = Null
    /\ ~AttemptRejected /\ BootGapCovered(load.counter, load.target)
    /\ applyMu' = Loader
    /\ building' = [todo |-> UNION {e.keys : e \in bootGap.entries}, rows |-> load.rows]
    /\ bootGap' = Deactivate(bootGap)
    /\ LoopStep("bootAttempt", "bootReplay")
    /\ UNCHANGED <<pgVars, file, lifeVars, viewVars, genVars, countVars, applyEpoch, load, ws,
                   save, query, used, acked>>

BootReplayRow ==
    /\ loop.pc = "bootReplay"
    /\ \E r \in building.todo :
        building' = [todo |-> building.todo \ {r}, rows |-> [building.rows EXCEPT ![r] = pgRow[r]]]
    /\ UNCHANGED <<pgVars, file, engineVars, loop, load, ws, save, query, used, acked>>

\* The ledger accounts for the target before the view is there to be saved.
BootPublish ==
    /\ loop.pc = "bootReplay" /\ building.todo = {}
    /\ ledger' = Rebase(ledger, load.target)
    /\ snap' = building.rows /\ baseLineage' = load.lineage
    /\ delta' = (building.rows # load.rows)
    /\ resolvedGen' = MaxOf(resolvedGen, load.gen)
    /\ building' = Null /\ applyMu' = Null
    /\ LoopStep("bootReplay", "finish")
    /\ load' = NewLoad
    /\ UNCHANGED <<pgVars, file, lifeVars, state, dirtyGen, settledGen, inflight, applyEpoch,
                   bootGap, ws, save, query, used, acked>>

\* The replay's read-back failed, or the replayed view is over the limit.
BootReplayFails ==
    /\ loop.pc = "bootReplay"
    /\ Fault
    /\ building' = Null /\ applyMu' = Null
    /\ GiveUpOnFile
    /\ UNCHANGED <<pgVars, file, lifeVars, viewVars, genVars, countVars, applyEpoch, ws, save,
                   query, acked>>

\* recoverSnapshotFileBootPanic: fallback first, then the file is deleted.
BootPanics ==
    /\ loop.pc \in {"bootFile", "bootFreeze", "bootAttempt", "bootReplay"}
    /\ applyMu \in {Null, Loader}
    /\ Fault
    /\ state' = "fallback"
    /\ file' = Null
    /\ building' = Null /\ applyMu' = Null
    /\ GiveUpOnFile
    /\ UNCHANGED <<pgVars, lifeVars, snap, baseLineage, delta, genVars, countVars, applyEpoch, ws,
                   save, query, acked>>
-----------------------------------------------------------------------------
BootStep ==
    \/ BootReadGen \/ BootReadFile \/ BootFreeze \/ BootAttemptRejected \/ BootSettleTimeout
    \/ BootTake \/ BootReplayRow \/ BootPublish

BootFault == BootReadFileUnchecked \/ BootFileFails \/ BootReplayFails \/ BootPanics

BootNext == BootStep \/ BootFault
=============================================================================
