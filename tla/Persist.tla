------------------------------ MODULE Persist ------------------------------
(***************************************************************************)
(* Saving the replica to the snapshot file (persist.go): the unlocked      *)
(* probe, the decision under applyMu, the write, and the recheck that      *)
(* takes the file back if a bump failed meanwhile.  A save runs after a    *)
(* compaction, against live traffic, or once at shutdown.                  *)
(***************************************************************************)
EXTENDS Rebuild

SaveStep(from, to) == save.pc = from /\ save' = [save EXCEPT !.pc = to]
SaveDone == save' = NewSave

\* saveSnapshotProbe reads the epoch before anything else.
SaveBegin(shutdown) ==
    /\ up /\ SnapshotDir /\ save.pc = "idle" /\ snap # Null
    /\ shutdown = stopping
    /\ used.saves < MaxSaves
    /\ used' = [used EXCEPT !.saves = @ + 1]
    /\ save' = [NewSave EXCEPT !.pc = "counter", !.shutdown = shutdown, !.epoch = applyEpoch]
    /\ UNCHANGED <<pgVars, file, engineVars, loop, load, ws, building, query, acked>>

\* readWatermarkConvergence: PostgreSQL's counter, then the bumps in flight,
\* then the ledger.
SaveReadCounter ==
    /\ save.pc = "counter"
    /\ save' = [save EXCEPT !.pc = "inflight", !.counter = pgCounter]
    /\ UNCHANGED <<pgVars, file, engineVars, loop, load, ws, building, query, used, acked>>

SaveReadInflight ==
    /\ save.pc = "inflight" /\ ~RebaseMuWriteHeld
    /\ save' = [save EXCEPT !.pc = "ledger", !.inflight = inflight]
    /\ UNCHANGED <<pgVars, file, engineVars, loop, load, ws, building, query, used, acked>>

\* watermarkReading.converged and its negation's interesting half.
ConvergedAbove(counter, flying) ==    \* broken on purpose
    Exact(ledger) /\ ledger.through <= counter
Converged(counter, flying) ==
    Exact(ledger) /\ flying = 0 /\ counter = ledger.through
Unaccounted(counter, flying) ==
    flying = 0 /\ (~Exact(ledger) \/ ledger.through < counter)

\* A reading that does not converge ends the save; a value nobody accounts for
\* asks for the rebuild that would rebase over it.
SaveReadLedger ==
    /\ save.pc = "ledger"
    /\ \/ /\ Converged(save.counter, save.inflight)
          /\ SaveStep("ledger", "sequence")
          /\ UNCHANGED loop
       \/ /\ ~Converged(save.counter, save.inflight)
          /\ SaveDone
          /\ loop' = IF Unaccounted(save.counter, save.inflight) /\ ~stopping
                     THEN RequestTrustRebuild(loop) ELSE loop
    /\ UNCHANGED <<pgVars, file, engineVars, load, ws, building, query, used, acked>>

\* The id sequences complete the stamp.
SaveReadSequence ==
    /\ save.pc = "sequence"
    /\ save' = [save EXCEPT !.pc = "prepare", !.seq = pgSeq]
    /\ UNCHANGED <<pgVars, file, engineVars, loop, load, ws, building, query, used, acked>>

\* A counter or a sequence that cannot be read, or a fold that fails.
SaveFails ==
    /\ save.pc \in {"counter", "sequence", "prepare"}
    /\ Fault
    /\ SaveDone
    /\ UNCHANGED <<pgVars, file, engineVars, loop, load, ws, building, query, acked>>

\* saveSnapshotPrepare's refusals: an Apply since the probe, fallback, an open
\* trust generation, a base of unknown lineage, or (for the save that follows
\* a compaction) a delta that is not empty.
SavePreconditions ==
    /\ applyEpoch = save.epoch
    /\ snap # Null /\ Serving /\ dirtyGen = resolvedGen
    /\ baseLineage # 0
DeltaRefuses == ~save.shutdown /\ delta

\* noteSkippedCompactionSave asks for a rebuild if no later fold could empty
\* the delta; what the delta holds is not modelled, so it may or may not ask.
SavePrepare ==
    /\ save.pc = "prepare" /\ applyMu = Null
    /\ \/ /\ SavePreconditions /\ ~DeltaRefuses
          /\ save' = [save EXCEPT !.pc = "write", !.rows = snap, !.lineage = baseLineage,
                                  !.dirty = dirtyGen]
          /\ UNCHANGED loop
       \/ /\ ~SavePreconditions \/ DeltaRefuses
          /\ SaveDone
          /\ UNCHANGED loop
       \/ /\ SavePreconditions /\ DeltaRefuses /\ ~stopping
          /\ SaveDone
          /\ loop' = RequestTrustRebuild(loop)
    /\ UNCHANGED <<pgVars, file, engineVars, load, ws, building, query, used, acked>>

\* saveSnapshotWrite: the rename puts the whole file in place at once.
SaveWrite ==
    /\ SaveStep("write", "recheck")
    /\ file' = [rows |-> save.rows, counter |-> save.counter, seq |-> save.seq,
                lineage |-> save.lineage]
    /\ UNCHANGED <<pgVars, engineVars, loop, load, ws, building, query, used, acked>>

\* The write failed before the rename; the recheck runs all the same.  An
\* error after the rename leaves the file in place, as SaveWrite does.
SaveWriteFails ==
    /\ SaveStep("write", "recheck")
    /\ Fault
    /\ UNCHANGED <<pgVars, file, engineVars, loop, load, ws, building, query, acked>>

\* Broken on purpose: no recheck.
SaveUnchecked ==
    /\ save.pc = "recheck"
    /\ SaveDone
    /\ UNCHANGED <<pgVars, file, engineVars, loop, load, ws, building, query, used, acked>>

\* A bump that failed since the preconditions takes the file out of play.
SaveRecheck ==
    /\ save.pc = "recheck"
    /\ file' = IF dirtyGen # save.dirty THEN Null ELSE file
    /\ SaveDone
    /\ UNCHANGED <<pgVars, engineVars, loop, load, ws, building, query, used, acked>>

\* A compaction folds the delta into a new base that holds the same rows.
CompactionAdopted ==
    /\ up /\ ~stopping /\ applyMu = Null
    /\ Serving /\ snap # Null /\ delta
    /\ delta' = FALSE
    /\ UNCHANGED <<pgVars, file, lifeVars, state, snap, baseLineage, genVars, countVars, applyMu,
                   applyEpoch, bootGap, loop, load, ws, building, save, query, used, acked>>

SaveNext ==
    \/ \E shutdown \in BOOLEAN : SaveBegin(shutdown)
    \/ SaveReadCounter \/ SaveReadInflight \/ SaveReadLedger \/ SaveReadSequence
    \/ SaveFails \/ SavePrepare \/ SaveWrite \/ SaveWriteFails \/ SaveRecheck
    \/ CompactionAdopted
============================================================================
