---------------------------- MODULE EngineState ----------------------------
(***************************************************************************)
(* The state of one BloodTrail process in front of one PostgreSQL graph:   *)
(* what PostgreSQL and the snapshot file hold, the replica and the         *)
(* protocol variables of internal/engine's Engine, and where every         *)
(* goroutine stands.  The handlers are in WritePath, Rebuild, Persist and  *)
(* Boot; module Engine composes them.                                      *)
(*                                                                         *)
(* A row's content is its version: pgRow[r] counts the committed writes    *)
(* to r, and a view holds one version per row.                             *)
(***************************************************************************)
EXTENDS WatermarkLedger

CONSTANTS
    Row,            \* graph rows (nodes and edges alike)
    Write,          \* write scopes: one WriteTransaction, batch or Run each
    Touches,        \* the rows each write writes, one mutating call per row
    Batch,          \* writes made through BatchOperation: rows autocommit
    Opaque,         \* writes whose keys cannot be named (Raw, Run, WipeGraph...)
    Inserts,        \* writes that draw ids from the node/edge sequences
    Null,           \* no view, no file, no capture, no lock holder
    SnapshotDir,    \* whether BLOODTRAIL_SNAPSHOT_DIR is configured
    Loader,         \* the lock owner standing for the rebuild/boot goroutine
    Queries,        \* whether queries run against the replica
    TornSave,       \* whether the process may end between a save's rename and
                    \* its recheck after a bump failed (see Exit)
    MaxBootGapEntries, \* writes the boot gap buffer holds before it overflows
    MaxFaults,      \* bound: failed PostgreSQL calls, panics and lost responses
    MaxCrashes,     \* bound: process exits, clean or not
    MaxSaves,       \* bound: snapshot save attempts
    MaxExternal     \* bound: writes by a stock server while this one is down

ASSUME EngineConstants ==
    /\ IsFiniteSet(Write) /\ Touches \in [Write -> SUBSET Row]
    /\ Batch \subseteq Write /\ Opaque \subseteq Write /\ Inserts \subseteq Write
    /\ Loader \notin Write /\ Null \notin Write \cup {Loader}
    /\ Null \notin Nat /\ Null \notin [Row -> Nat]
    /\ Null \notin [todo : SUBSET Row, rows : [Row -> Nat]]
    /\ {SnapshotDir, Queries, TornSave} \subseteq BOOLEAN
    /\ {MaxBootGapEntries, MaxFaults, MaxCrashes, MaxSaves, MaxExternal} \subseteq Nat

VARIABLES
    \* PostgreSQL and the disk
    pgRow, pgCounter, pgSeq, pgLineage, file,
    \* Engine fields
    up, stopping, state, snap, baseLineage, delta, applyMu, applyEpoch,
    dirtyGen, settledGen, resolvedGen, inflight, ledger, bootGap, atStart,
    \* the single rebuild loop, its launchers, and the load it has under way
    loop, load,
    \* the writes, and the view the holder of applyMu is building
    ws, building,
    \* one snapshot save, one query
    save, query,
    \* what has been used of the bounds, and what callers have been told
    used, acked

pgVars     == <<pgRow, pgCounter, pgSeq, pgLineage>>
genVars    == <<dirtyGen, settledGen, resolvedGen>>
countVars  == <<inflight, ledger>>
viewVars   == <<state, snap, baseLineage, delta>>
lifeVars   == <<up, stopping, atStart>>
engineVars == <<lifeVars, viewVars, genVars, countVars, applyMu, applyEpoch, bootGap>>
vars == <<pgVars, file, engineVars, loop, load, ws, building, save, query, used, acked>>

Rows == [Row -> Nat]
NoRows == [r \in Row |-> 0]

\* A WriteScope and where its driver call stands.  ver is history: the version
\* each row got from this write, 0 while it is not durable.
NewScope == [pc |-> "idle", reply |-> 0, counter |-> 0, bumpFailed |-> FALSE, settled |-> FALSE,
             fallback |-> FALSE, keys |-> {}, todo |-> {}, ver |-> NoRows]

NewBootGap == [active |-> FALSE, poisoned |-> FALSE, entries |-> {}]
NewLoad    == [epoch |-> 0, gen |-> 0, rows |-> Null, counter |-> Null,
               lineage |-> 0, seq |-> 0, target |-> 0]
NewLoop    == [pc |-> "none", finishing |-> 0, fresh |-> FALSE, launcher |-> "none"]
NewSave    == [pc |-> "idle", shutdown |-> FALSE, epoch |-> 0, counter |-> 0,
               inflight |-> 0, seq |-> 0, dirty |-> 0, rows |-> Null, lineage |-> 0]
NewQuery   == [pc |-> "idle", floor |-> NoRows, rows |-> Null]

\* A scope is garbage once its driver call is over; the counter it drew and
\* the versions it wrote stay as history.
OverScope(scope, pc) ==
    [NewScope EXCEPT !.pc = pc, !.ver = scope.ver,
                     !.counter = MaxOf(scope.counter, scope.reply)]

\* A write is durable in PostgreSQL for the rows it has a version of.
DurableRows(w) == {r \in Row : ws[w].ver[r] > 0}

\* The writes this process is still carrying: begun, and not yet returned.
Finished == {"idle", "returned", "dead"}
InFlight(w) == ws[w].pc \notin Finished

Serving == state = "serving"
-----------------------------------------------------------------------------
(* The rebuild-loop gate and the trust-rebuild limiter, as functions on the *)
(* loop record so that a handler can call several of them.                  *)

\* startFallbackRebuild: claimRebuildLoop's CAS admits one loop at a time.
StartFallbackRebuild(l) == IF l.pc = "none" THEN [l EXCEPT !.pc = "top"] ELSE l

\* requestTrustRebuild: launch at once on a quiet engine, else leave it to the
\* one pending launcher; a request that finds a launcher pending coalesces.
RequestTrustRebuild(l) ==
    IF ~l.fresh
    THEN StartFallbackRebuild([l EXCEPT !.fresh = TRUE])
    ELSE IF l.launcher = "none" THEN [l EXCEPT !.launcher = "asleep"] ELSE l

\* Broken on purpose: the rebuild is started, the state is not flipped.
EnterFallbackStateKept(l) == loop' = StartFallbackRebuild(l) /\ UNCHANGED state

\* enterFallback, for the holder of applyMu.
EnterFallback(l) ==
    /\ state' = "fallback"
    /\ loop' = StartFallbackRebuild(l)
-----------------------------------------------------------------------------
(* The boot gap buffer.                                                     *)

\* append: an overflowing buffer is poisoned, which is never undone.  The code
\* caps the keys it holds as well, to the same effect.
AppendEntry(b, counter, keys) ==
    IF Cardinality(b.entries) >= MaxBootGapEntries
    THEN [b EXCEPT !.poisoned = TRUE]
    ELSE [b EXCEPT !.entries = @ \cup {[counter |-> counter, keys |-> keys]}]

\* observe: a committed write, exactly as Apply saw it.  One it cannot replay,
\* or that recorded keys without a counter, poisons the buffer.
Observe(b, scope) ==
    CASE ~b.active -> b
      [] b.active /\ (scope.fallback \/ (scope.counter = 0 /\ scope.keys # {})) ->
            [b EXCEPT !.poisoned = TRUE]
      [] b.active /\ ~scope.fallback /\ scope.counter = 0 /\ scope.keys = {} -> b
      [] OTHER -> AppendEntry(b, scope.counter, scope.keys)

\* observeAbandoned: only the counter of a write that committed nothing.
ObserveAbandoned(b, scope) ==
    IF b.active /\ scope.counter > 0 THEN AppendEntry(b, scope.counter, {}) ELSE b

\* deactivate disarms the buffer and frees what it held; poison stays.
Deactivate(b) == [b EXCEPT !.active = FALSE, !.entries = {}]

\* What every fault costs of the bound on faults.
Fault == used.faults < MaxFaults /\ used' = [used EXCEPT !.faults = @ + 1]
============================================================================
