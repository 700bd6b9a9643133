------------------------------ MODULE Rebuild ------------------------------
(***************************************************************************)
(* The one background loop that reloads the replica from PostgreSQL        *)
(* (runFallbackRebuild, and runBootLoad after its file attempt), one       *)
(* rebuildOnce after another, and the rate-limited launcher that restores  *)
(* trust in the watermark (apply.go, engine.go, watermark.go).             *)
(*                                                                         *)
(* loop.pc is "none" exactly when fallbackRebuilding is false.             *)
(***************************************************************************)
EXTENDS EngineState

LoopStep(from, to) == loop.pc = from /\ loop' = [loop EXCEPT !.pc = to]

\* watermarkRebaseMu: held for writing from the adoption to the rebase, for
\* reading between a save's two reads.
RebaseMuWriteHeld == loop.pc \in {"flip", "rebase"}
RebaseMuReadHeld  == save.pc = "ledger"

\* rebuildOnce reads the epoch first ...
RebuildReadEpoch ==
    /\ ~stopping
    /\ LoopStep("top", "gen")
    /\ load' = [NewLoad EXCEPT !.epoch = applyEpoch]
    /\ UNCHANGED <<pgVars, file, engineVars, ws, building, save, query, used, acked>>

\* Broken on purpose: the generation that is open, not the one that settled.
RebuildReadDirtyGen ==
    /\ LoopStep("gen", "load")
    /\ load' = [load EXCEPT !.gen = dirtyGen]
    /\ UNCHANGED <<pgVars, file, engineVars, ws, building, save, query, used, acked>>

\* Broken on purpose: no generation is read, so the adoption resolves none.
RebuildReadNoGen ==
    /\ LoopStep("gen", "load")
    /\ UNCHANGED <<pgVars, file, engineVars, load, ws, building, save, query, used, acked>>

\* ... and the settled generation after it, both before the load begins.
RebuildReadGen ==
    /\ LoopStep("gen", "load")
    /\ load' = [load EXCEPT !.gen = settledGen]
    /\ UNCHANGED <<pgVars, file, engineVars, ws, building, save, query, used, acked>>

\* loadSnapshot reads rows, counter and lineage in one repeatable-read
\* transaction.  Lineage is read only where a file could be written.
RebuildLoad ==
    /\ LoopStep("load", "adopt")
    /\ load' = [load EXCEPT !.rows = pgRow, !.counter = pgCounter,
                            !.lineage = IF SnapshotDir THEN pgLineage ELSE 0]
    /\ UNCHANGED <<pgVars, file, engineVars, ws, building, save, query, used, acked>>

\* The counter, or the lineage after it, could not be read: the rows are
\* adopted all the same.
RebuildLoadUncounted ==
    /\ LoopStep("load", "adopt")
    /\ Fault
    /\ \E counter \in {Null, pgCounter} :
        load' = [load EXCEPT !.rows = pgRow, !.counter = counter]
    /\ UNCHANGED <<pgVars, file, engineVars, ws, building, save, query, acked>>

\* The load failed, or exceeds the memory limit.
RebuildFails ==
    /\ LoopStep("load", "backoff")
    /\ Fault
    /\ UNCHANGED <<pgVars, file, engineVars, load, ws, building, save, query, acked>>

\* recoverRebuildPanic: the replica cannot be vouched for any more.
RebuildPanics ==
    /\ loop.pc \in {"gen", "load", "adopt"} /\ applyMu = Null
    /\ Fault
    /\ EnterFallback([loop EXCEPT !.pc = "backoff"])
    /\ UNCHANGED <<pgVars, file, lifeVars, snap, baseLineage, delta, genVars, countVars,
                   applyMu, applyEpoch, bootGap, load, ws, building, save, query, acked>>

\* adoptRebuiltView: a write applied since the epoch was read refuses the load.
SupersededNever == FALSE    \* broken on purpose
Superseded == applyEpoch # load.epoch

RebuildRefused ==
    /\ applyMu = Null /\ ~RebaseMuReadHeld /\ Superseded
    /\ LoopStep("adopt", "backoff")
    /\ UNCHANGED <<pgVars, file, engineVars, load, ws, building, save, query, used, acked>>

RebuildAdopt ==
    /\ applyMu = Null /\ ~RebaseMuReadHeld /\ ~Superseded
    /\ LoopStep("adopt", "flip")
    /\ applyMu' = Loader
    /\ snap' = load.rows /\ baseLineage' = load.lineage /\ delta' = FALSE
    /\ resolvedGen' = MaxOf(resolvedGen, load.gen)
    /\ bootGap' = Deactivate(bootGap)
    /\ UNCHANGED <<pgVars, file, lifeVars, state, dirtyGen, settledGen, countVars, applyEpoch,
                   load, ws, building, save, query, used, acked>>

\* The state is flipped only after the view is stored.
RebuildFlip ==
    /\ LoopStep("flip", "rebase")
    /\ state' = "serving"
    /\ applyMu' = Null
    /\ UNCHANGED <<pgVars, file, lifeVars, snap, baseLineage, delta, genVars, countVars,
                   applyEpoch, bootGap, load, ws, building, save, query, used, acked>>

RebuildRebase ==
    /\ LoopStep("rebase", "finish")
    /\ ledger' = IF load.counter # Null THEN Rebase(ledger, load.counter) ELSE ledger
    /\ load' = NewLoad
    /\ UNCHANGED <<pgVars, file, lifeVars, viewVars, genVars, inflight, applyMu, applyEpoch,
                   bootGap, ws, building, save, query, used, acked>>

LoopBackoff ==
    /\ ~stopping
    /\ LoopStep("backoff", "top")
    /\ load' = NewLoad
    /\ UNCHANGED <<pgVars, file, engineVars, ws, building, save, query, used, acked>>

\* bgCtx is cancelled: the loop lets go of the gate and exits.
LoopStops ==
    /\ stopping /\ loop.pc \in {"boot", "top", "backoff"}
    /\ loop' = [loop EXCEPT !.pc = "none"]
    /\ load' = NewLoad
    /\ UNCHANGED <<pgVars, file, engineVars, ws, building, save, query, used, acked>>

\* finishFallbackRebuild lets go of the gate first ...
LoopFinish ==
    /\ loop.pc = "finish"
    /\ loop' = [loop EXCEPT !.pc = "none", !.finishing = @ + 1]
    /\ UNCHANGED <<pgVars, file, engineVars, load, ws, building, save, query, used, acked>>

\* Broken on purpose: only the generations are rechecked.
RelaunchForTrustOnly ==
    LET done == [loop EXCEPT !.finishing = @ - 1]
    IN  /\ loop.finishing > 0
        /\ loop' = IF settledGen # resolvedGen THEN RequestTrustRebuild(done) ELSE done
        /\ UNCHANGED <<pgVars, file, engineVars, load, ws, building, save, query, used, acked>>

\* ... and then looks for what its adoption left behind.
RelaunchAfterAdoption ==
    LET done == [loop EXCEPT !.finishing = @ - 1]
    IN  /\ loop.finishing > 0
        /\ loop' = CASE state = "fallback" -> StartFallbackRebuild(done)
                     [] state # "fallback" /\ settledGen # resolvedGen -> RequestTrustRebuild(done)
                     [] OTHER -> done
        /\ UNCHANGED <<pgVars, file, engineVars, load, ws, building, save, query, used, acked>>
-----------------------------------------------------------------------------
(* The delayed launcher of requestTrustRebuild.                             *)

\* trustRebuildMinInterval has passed since the last trust launch.
IntervalElapses ==
    /\ loop.fresh
    /\ loop' = [loop EXCEPT !.fresh = FALSE,
                            !.launcher = IF @ = "asleep" THEN "due" ELSE @]
    /\ UNCHANGED <<pgVars, file, engineVars, load, ws, building, save, query, used, acked>>

\* The launcher rechecks the generations, and launches if they still disagree.
LauncherFires ==
    /\ loop.launcher = "due"
    /\ loop' = IF settledGen = resolvedGen
               THEN [loop EXCEPT !.launcher = "leaving"]
               ELSE StartFallbackRebuild([loop EXCEPT !.launcher = "leaving", !.fresh = TRUE])
    /\ UNCHANGED <<pgVars, file, engineVars, load, ws, building, save, query, used, acked>>

\* Only its deferred Store(false) makes room for another launcher.
LauncherLeaves ==
    /\ loop.launcher = "leaving" \/ (stopping /\ loop.launcher = "asleep")
    /\ loop' = [loop EXCEPT !.launcher = "none"]
    /\ UNCHANGED <<pgVars, file, engineVars, load, ws, building, save, query, used, acked>>
-----------------------------------------------------------------------------
RebuildStep ==
    \/ RebuildReadEpoch \/ RebuildReadGen \/ RebuildLoad \/ RebuildRefused \/ RebuildAdopt
    \/ RebuildFlip \/ RebuildRebase \/ LoopBackoff \/ LoopStops \/ LoopFinish
    \/ RelaunchAfterAdoption

LauncherStep == IntervalElapses \/ LauncherFires \/ LauncherLeaves

RebuildFault == RebuildLoadUncounted \/ RebuildFails \/ RebuildPanics

RebuildNext == RebuildStep \/ LauncherStep \/ RebuildFault
============================================================================
