----------------------------- MODULE WritePath -----------------------------
(***************************************************************************)
(* One driver call that writes: the eager watermark bump and the mutating  *)
(* calls (write_observer.go), how the call ends (driver.go), and Apply or  *)
(* ResolveAbandonedWrite, which bring the replica and the bookkeeping up   *)
(* to date before the call returns (apply.go, watermark.go).               *)
(***************************************************************************)
EXTENDS EngineState

Becomes(w, scope) == ws' = [ws EXCEPT ![w] = scope]
Step(w, from, to) == ws[w].pc = from /\ Becomes(w, [ws[w] EXCEPT !.pc = to])

\* WriteTransaction, BatchOperation, Run...: a fresh scope for this call.
BeginWrite(w) ==
    /\ up /\ ws[w].pc = "idle"
    /\ Becomes(w, [NewScope EXCEPT !.pc = "call", !.todo = Touches[w]])
    /\ UNCHANGED <<pgVars, file, engineVars, loop, load, building, save, query, used, acked>>
-----------------------------------------------------------------------------
(* ensureBumped and BumpWatermark.                                          *)

\* The bump is in flight before its UPDATE is sent.
BumpSend(w) ==
    /\ ws[w].todo # {} /\ ws[w].counter = 0
    /\ Step(w, "call", "bumping")
    /\ inflight' = inflight + 1
    /\ UNCHANGED <<pgVars, file, lifeVars, viewVars, genVars, ledger, applyMu, applyEpoch,
                   bootGap, loop, load, building, save, query, used, acked>>

\* PostgreSQL commits the UPDATE.
BumpLands(w) ==
    /\ ws[w].pc = "bumping"
    /\ pgCounter' = pgCounter + 1
    /\ Becomes(w, [ws[w] EXCEPT !.pc = "replying", !.reply = pgCounter + 1])
    /\ UNCHANGED <<pgRow, pgSeq, pgLineage, file, engineVars, loop, load, building,
                   save, query, used, acked>>

BumpReturns(w) ==
    /\ ws[w].pc = "replying"
    /\ Becomes(w, [ws[w] EXCEPT !.pc = "mutate", !.counter = ws[w].reply, !.reply = 0])
    /\ UNCHANGED <<pgVars, file, engineVars, loop, load, building, save, query, used, acked>>

\* NoteWatermarkBumpFailure opens a generation for a scope's first failure.
OpensGenerationNever(w) == FALSE    \* broken on purpose
OpensGeneration(w) == ~ws[w].bumpFailed

\* The UPDATE failed, or committed and its response was lost.
BumpFails(w) ==
    /\ ws[w].pc \in {"bumping", "replying"}
    /\ Fault
    /\ inflight' = inflight - 1
    /\ Becomes(w, [ws[w] EXCEPT !.reply = 0, !.bumpFailed = TRUE,
                                !.pc = IF ws[w].bumpFailed THEN "mutate" ELSE "invalidate"])
    /\ dirtyGen' = IF OpensGeneration(w) THEN dirtyGen + 1 ELSE dirtyGen
    /\ UNCHANGED <<pgVars, file, lifeVars, viewVars, settledGen, resolvedGen, ledger,
                   applyMu, applyEpoch, bootGap, loop, load, building, save, query, acked>>

\* Broken on purpose: the file stays.
InvalidateFileKept(w) ==
    /\ ws[w].pc = "invalidate"
    /\ Becomes(w, [ws[w] EXCEPT !.pc = "mutate", !.fallback = TRUE])
    /\ UNCHANGED <<pgVars, file, engineVars, loop, load, building, save, query, used, acked>>

\* NoteWatermarkBumpFailure's second half and the fallback record it is paired
\* with: the snapshot file goes before the uncounted write can commit.
InvalidateFile(w) ==
    /\ ws[w].pc = "invalidate"
    /\ file' = Null
    /\ Becomes(w, [ws[w] EXCEPT !.pc = "mutate", !.fallback = TRUE])
    /\ UNCHANGED <<pgVars, engineVars, loop, load, building, save, query, used, acked>>
-----------------------------------------------------------------------------
(* The mutating calls, and how the driver call ends.                        *)

\* ensureBumped has run for this scope: it drew a counter, or failed to.
MayMutate(w) == ws[w].pc = "mutate" \/ (ws[w].pc = "call" /\ ws[w].counter > 0)

\* One mutating call: the observer records the row's key, or a fallback where
\* it cannot name it, and the statement runs.
MutatingCall(w) ==
    /\ MayMutate(w)
    /\ \E r \in ws[w].todo :
        Becomes(w, [ws[w] EXCEPT !.pc = "call", !.todo = @ \ {r},
                                 !.keys = IF w \in Opaque THEN @ ELSE @ \cup {r},
                                 !.fallback = @ \/ w \in Opaque])
    /\ pgSeq' = IF w \in Inserts THEN pgSeq + 1 ELSE pgSeq
    /\ UNCHANGED <<pgRow, pgCounter, pgLineage, file, engineVars, loop, load, building,
                   save, query, used, acked>>

\* PostgreSQL makes a set of rows durable.
MakeDurable(w, rows) ==
    /\ pgRow' = [r \in Row |-> IF r \in rows THEN pgRow[r] + 1 ELSE pgRow[r]]
    /\ UNCHANGED <<pgCounter, pgSeq, pgLineage>>

VersionsOf(w, rows) == [r \in Row |-> IF r \in rows THEN pgRow[r] + 1 ELSE ws[w].ver[r]]

\* A batch has no transaction: a flushed row is durable at once.
FlushChunk(w) ==
    /\ w \in Batch /\ ws[w].pc = "call"
    /\ \E r \in Touches[w] \ (ws[w].todo \cup DurableRows(w)) :
        /\ MakeDurable(w, {r})
        /\ Becomes(w, [ws[w] EXCEPT !.ver = VersionsOf(w, {r})])
    /\ UNCHANGED <<file, engineVars, loop, load, building, save, query, used, acked>>

\* BatchOperation applies whether or not its delegate failed.
BatchReturns(w) ==
    /\ w \in Batch
    /\ Step(w, "call", "apply")
    /\ UNCHANGED <<pgVars, file, engineVars, loop, load, building, save, query, used, acked>>

\* BatchOperation's deferred settle: a panic may land between a write and its
\* record, so the scope is applied with a fallback.
BatchPanics(w) ==
    /\ w \in Batch /\ ws[w].pc \in {"call", "mutate"}
    /\ Fault
    /\ \E rows \in {{}} \cup {{r} : r \in ws[w].todo} :
        /\ rows # {} => MayMutate(w)
        /\ MakeDurable(w, rows)
        /\ Becomes(w, [ws[w] EXCEPT !.pc = "apply", !.fallback = TRUE,
                                    !.ver = VersionsOf(w, rows)])
    /\ UNCHANGED <<file, engineVars, loop, load, building, save, query, acked>>

CommitTransaction(w) ==
    /\ w \notin Batch /\ ws[w].pc = "call" /\ ws[w].todo = {}
    /\ MakeDurable(w, Touches[w])
    /\ Becomes(w, [ws[w] EXCEPT !.pc = "apply", !.ver = VersionsOf(w, Touches[w])])
    /\ UNCHANGED <<file, engineVars, loop, load, building, save, query, used, acked>>

\* resolveWriteTransactionFailure: the final COMMIT errored and may be durable,
\* so a fallback is recorded and the scope applied.
CommitAmbiguous(w) ==
    /\ w \notin Batch /\ ws[w].pc = "call" /\ ws[w].todo = {}
    /\ Fault
    /\ \E rows \in {{}, Touches[w]} :
        /\ MakeDurable(w, rows)
        /\ Becomes(w, [ws[w] EXCEPT !.pc = "apply", !.fallback = TRUE,
                                    !.ver = VersionsOf(w, rows)])
    /\ UNCHANGED <<file, engineVars, loop, load, building, save, query, acked>>

\* The delegate's own error, or its panic: PostgreSQL rolled everything back.
AbortTransaction(w) ==
    /\ w \notin Batch
    /\ Step(w, "call", "abandon")
    /\ UNCHANGED <<pgVars, file, engineVars, loop, load, building, save, query, used, acked>>
-----------------------------------------------------------------------------
(* Apply, under applyMu from ApplyLock until it returns.                    *)

ApplyLock(w) ==
    /\ applyMu = Null
    /\ Step(w, "apply", "resolve")
    /\ applyMu' = w
    /\ UNCHANGED <<pgVars, file, lifeVars, viewVars, genVars, countVars, applyEpoch, bootGap,
                   loop, load, building, save, query, used, acked>>

\* AdvanceWatermark, first half: the ledger, before inflight lets go of it.
ApplyResolve(w) ==
    /\ Step(w, "resolve", "retire")
    /\ ledger' = IF ws[w].counter > 0 THEN Resolve(ledger, ws[w].counter) ELSE ledger
    /\ UNCHANGED <<pgVars, file, lifeVars, viewVars, genVars, inflight, applyMu, applyEpoch,
                   bootGap, loop, load, building, save, query, used, acked>>

\* AdvanceWatermark, second half, and settleWatermarkFailure: the failure is
\* settled before the epoch moves.
ApplySettle(w) ==
    /\ ws[w].pc = "retire"
    /\ Becomes(w, [ws[w] EXCEPT !.pc = "decide", !.bumpFailed = FALSE,
                                !.settled = ws[w].bumpFailed])
    /\ inflight' = IF ws[w].counter > 0 THEN inflight - 1 ELSE inflight
    /\ settledGen' = IF ws[w].bumpFailed THEN settledGen + 1 ELSE settledGen
    /\ UNCHANGED <<pgVars, file, lifeVars, viewVars, dirtyGen, resolvedGen, ledger, applyMu,
                   applyEpoch, bootGap, loop, load, building, save, query, used, acked>>

\* The driver call returns to its caller, who may now expect to read its rows.
ReturnFrom(w) ==
    /\ Becomes(w, OverScope(ws[w], "returned"))
    /\ acked' = [r \in Row |-> MaxOf(acked[r], ws[w].ver[r])]

\* Apply reads back only into a view it has and is serving from.
ReadBackNeededNoView(w) == ws[w].keys # {} /\ Serving    \* broken on purpose
ReadBackNeeded(w) == ws[w].keys # {} /\ Serving /\ snap # Null

\* The epoch, the boot gap buffer, the trust request of a settled failure, and
\* then Apply's early returns in order; otherwise read-back begins.
ApplyDecide(w) ==
    LET requested == IF ws[w].settled THEN RequestTrustRebuild(loop) ELSE loop
    IN  /\ ws[w].pc = "decide"
        /\ applyEpoch' = applyEpoch + 1
        /\ bootGap' = Observe(bootGap, ws[w])
        /\ \/ /\ ws[w].fallback
              /\ EnterFallback(requested)
              /\ applyMu' = Null /\ ReturnFrom(w) /\ UNCHANGED building
           \/ /\ ~ws[w].fallback
              /\ ~ReadBackNeeded(w)
              /\ loop' = IF ws[w].keys # {} /\ ~Serving
                         THEN StartFallbackRebuild(requested) ELSE requested
              /\ applyMu' = Null /\ ReturnFrom(w) /\ UNCHANGED <<state, building>>
           \/ /\ ~ws[w].fallback /\ ReadBackNeeded(w)
              /\ loop' = requested
              /\ building' = [todo |-> ws[w].keys, rows |-> snap]
              /\ Becomes(w, [ws[w] EXCEPT !.pc = "readback"])
              /\ UNCHANGED <<state, applyMu, acked>>
        /\ UNCHANGED <<pgVars, file, lifeVars, snap, baseLineage, delta, genVars, countVars,
                       load, save, query, used>>

\* Broken on purpose: a key read back stays to be read.
ReadBackRowAgain(w) ==
    /\ ws[w].pc = "readback"
    /\ \E r \in building.todo : building' = [building EXCEPT !.rows[r] = pgRow[r]]
    /\ UNCHANGED <<pgVars, file, engineVars, loop, load, ws, save, query, used, acked>>

\* readBack: PostgreSQL's committed truth for one key, whoever wrote it.
ReadBackRow(w) ==
    /\ ws[w].pc = "readback"
    /\ \E r \in building.todo :
        building' = [todo |-> building.todo \ {r}, rows |-> [building.rows EXCEPT ![r] = pgRow[r]]]
    /\ UNCHANGED <<pgVars, file, engineVars, loop, load, ws, save, query, used, acked>>

ApplyPublish(w) ==
    /\ ws[w].pc = "readback" /\ building.todo = {}
    /\ snap' = building.rows /\ delta' = TRUE
    /\ building' = Null
    /\ applyMu' = Null /\ ReturnFrom(w)
    /\ UNCHANGED <<pgVars, file, lifeVars, state, baseLineage, genVars, countVars, applyEpoch,
                   bootGap, loop, load, save, query, used>>

\* A read-back that fails or names nothing, a segment that does not build, and
\* a view over the memory limit all end in fallback.
ApplyFails(w) ==
    /\ ws[w].pc = "readback"
    /\ Fault
    /\ EnterFallback(loop)
    /\ building' = Null
    /\ applyMu' = Null /\ ReturnFrom(w)
    /\ UNCHANGED <<pgVars, file, lifeVars, snap, baseLineage, delta, genVars, countVars,
                   applyEpoch, bootGap, load, save, query>>

\* fallBackOnApplyPanic moves the epoch itself: the panic may have come first.
ApplyPanics(w) ==
    /\ applyMu = w
    /\ Fault
    /\ applyEpoch' = applyEpoch + 1
    /\ EnterFallback(loop)
    /\ building' = Null
    /\ applyMu' = Null /\ ReturnFrom(w)
    /\ UNCHANGED <<pgVars, file, lifeVars, snap, baseLineage, delta, genVars, countVars,
                   bootGap, load, save, query>>
-----------------------------------------------------------------------------
(* ResolveAbandonedWrite, for a write that committed nothing; no applyMu.   *)

AbandonResolve(w) ==
    /\ Step(w, "abandon", "abandonRetire")
    /\ ledger' = IF ws[w].counter > 0 THEN Resolve(ledger, ws[w].counter) ELSE ledger
    /\ UNCHANGED <<pgVars, file, lifeVars, viewVars, genVars, inflight, applyMu, applyEpoch,
                   bootGap, loop, load, building, save, query, used, acked>>

AbandonRetire(w) ==
    /\ Step(w, "abandonRetire", "abandonObserve")
    /\ inflight' = IF ws[w].counter > 0 THEN inflight - 1 ELSE inflight
    /\ UNCHANGED <<pgVars, file, lifeVars, viewVars, genVars, ledger, applyMu, applyEpoch,
                   bootGap, loop, load, building, save, query, used, acked>>

AbandonObserve(w) ==
    /\ Step(w, "abandonObserve", "abandonSettle")
    /\ bootGap' = ObserveAbandoned(bootGap, ws[w])
    /\ UNCHANGED <<pgVars, file, lifeVars, viewVars, genVars, countVars, applyMu, applyEpoch,
                   loop, load, building, save, query, used, acked>>

\* A settled failure asks for a rebuild; the replica itself is not suspect.
AbandonSettle(w) ==
    /\ ws[w].pc = "abandonSettle"
    /\ Becomes(w, OverScope(ws[w], "returned"))
    /\ settledGen' = IF ws[w].bumpFailed THEN settledGen + 1 ELSE settledGen
    /\ loop' = IF ws[w].bumpFailed THEN RequestTrustRebuild(loop) ELSE loop
    /\ UNCHANGED <<pgVars, file, lifeVars, viewVars, dirtyGen, resolvedGen, countVars, applyMu,
                   applyEpoch, bootGap, load, building, save, query, used, acked>>
-----------------------------------------------------------------------------
DriverStep(w) ==
    \/ BumpSend(w) \/ BumpLands(w) \/ BumpReturns(w) \/ InvalidateFile(w)
    \/ MutatingCall(w) \/ FlushChunk(w) \/ BatchReturns(w) \/ CommitTransaction(w)

ApplyStep(w) ==
    \/ ApplyLock(w) \/ ApplyResolve(w) \/ ApplySettle(w) \/ ApplyDecide(w)
    \/ ReadBackRow(w) \/ ApplyPublish(w)

AbandonStep(w) ==
    \/ AbandonResolve(w) \/ AbandonRetire(w) \/ AbandonObserve(w) \/ AbandonSettle(w)

WriteFault(w) ==
    BumpFails(w) \/ BatchPanics(w) \/ CommitAmbiguous(w) \/ ApplyFails(w) \/ ApplyPanics(w)

WriteNext(w) ==
    BeginWrite(w) \/ DriverStep(w) \/ AbortTransaction(w) \/ ApplyStep(w) \/ AbandonStep(w)
    \/ WriteFault(w)
============================================================================
