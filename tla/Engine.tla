------------------------------- MODULE Engine -------------------------------
(***************************************************************************)
(* One BloodTrail process, its restarts, the queries it serves and the     *)
(* writes it carries, composed.                                            *)
(***************************************************************************)
EXTENDS WritePath, Persist, Boot

Init ==
    /\ pgRow = NoRows /\ pgCounter = 0 /\ pgSeq = 0 /\ pgLineage = 1 /\ file = Null
    /\ up = FALSE /\ stopping = FALSE
    /\ state = "serving" /\ snap = Null /\ baseLineage = 0 /\ delta = FALSE
    /\ applyMu = Null /\ applyEpoch = 0
    /\ dirtyGen = 0 /\ settledGen = 0 /\ resolvedGen = 0
    /\ inflight = 0 /\ ledger = NewLedger
    /\ bootGap = NewBootGap /\ atStart = Null
    /\ loop = NewLoop /\ load = NewLoad
    /\ ws = [w \in Write |-> NewScope] /\ building = Null
    /\ save = NewSave /\ query = NewQuery
    /\ used = [faults |-> 0, crashes |-> 0, saves |-> 0, external |-> 0]
    /\ acked = NoRows
-----------------------------------------------------------------------------
(* Queries: servableView reads the state first and the view after it.       *)

QueryReadState ==
    /\ Queries /\ up /\ query.pc # "view" /\ Serving
    /\ query' = [NewQuery EXCEPT !.pc = "view", !.floor = acked]
    /\ UNCHANGED <<pgVars, file, engineVars, loop, load, ws, building, save, used, acked>>

\* Without a view the query goes to PostgreSQL, as it does in fallback.
QueryReadView ==
    /\ query.pc = "view"
    /\ query' = IF snap = Null THEN NewQuery
                ELSE [query EXCEPT !.pc = "served", !.rows = snap]
    /\ UNCHANGED <<pgVars, file, engineVars, loop, load, ws, building, save, used, acked>>
-----------------------------------------------------------------------------
(* The process.                                                             *)

\* Driver.Close stops the engine's goroutines, then saves once.
Stop ==
    /\ up /\ ~stopping /\ MaxCrashes > used.crashes
    /\ stopping' = TRUE
    /\ UNCHANGED <<pgVars, file, up, atStart, viewVars, genVars, countVars, applyMu, applyEpoch,
                   bootGap, loop, load, ws, building, save, query, used, acked>>

\* The process ends, at any point: everything in memory is gone, transactions
\* that had not committed are rolled back, and the file stays as it is.
\* TornSave = FALSE leaves out one instant: a file written across a failed
\* bump, and not yet taken back by its recheck.
Exit ==
    /\ up /\ used.crashes < MaxCrashes
    /\ TornSave \/ ~(save.pc = "recheck" /\ dirtyGen # save.dirty)
    /\ used' = [used EXCEPT !.crashes = @ + 1]
    /\ up' = FALSE /\ stopping' = FALSE
    /\ state' = "serving" /\ snap' = Null /\ baseLineage' = 0 /\ delta' = FALSE
    /\ applyMu' = Null /\ applyEpoch' = 0
    /\ dirtyGen' = 0 /\ settledGen' = 0 /\ resolvedGen' = 0
    /\ inflight' = 0 /\ ledger' = NewLedger
    /\ bootGap' = NewBootGap /\ atStart' = Null
    /\ loop' = NewLoop /\ load' = NewLoad /\ building' = Null
    /\ ws' = [w \in Write |-> IF InFlight(w) THEN OverScope(ws[w], "dead") ELSE ws[w]]
    /\ save' = NewSave /\ query' = NewQuery
    /\ UNCHANGED <<pgVars, file, acked>>

\* A stock server writes while this one is down: it bumps nothing.  Either the
\* insert shows in the sequences, or the operator ended the lineage.
ExternalWrite(r) ==
    /\ ~up /\ used.external < MaxExternal
    /\ used' = [used EXCEPT !.external = @ + 1]
    /\ pgRow' = [pgRow EXCEPT ![r] = @ + 1]
    /\ \/ pgSeq' = pgSeq + 1 /\ UNCHANGED pgLineage
       \/ pgLineage' = pgLineage + 1 /\ UNCHANGED pgSeq
    /\ UNCHANGED <<pgCounter, file, engineVars, loop, load, ws, building, save, query, acked>>

\* Nothing is left to do: every write has returned and every goroutine rests.
Quiescent ==
    /\ up /\ \A w \in Write : ws[w].pc \in {"returned", "dead"}
    /\ loop.pc = "none" /\ loop.finishing = 0 /\ loop.launcher = "none"
    /\ save.pc = "idle" /\ query.pc # "view"
    /\ UNCHANGED vars
-----------------------------------------------------------------------------
Next ==
    \/ \E w \in Write : WriteNext(w)
    \/ RebuildNext \/ SaveNext \/ BootNext \/ Start
    \/ QueryReadState \/ QueryReadView
    \/ Stop \/ Exit \/ \E r \in Row : ExternalWrite(r)
    \/ Quiescent

Spec == Init /\ [][Next]_vars

\* Goroutines run on: a driver call goes on to its end, applyMu is a
\* starvation-free mutex, the loop and the launcher keep going and their
\* timers fire.  Nothing obliges a caller to write, or PostgreSQL to fail.
Fairness ==
    /\ WF_vars(Start)
    /\ \A w \in Write : WF_vars(DriverStep(w) \/ ApplyStep(w) \/ AbandonStep(w))
    /\ WF_vars(BootStep) /\ WF_vars(RebuildStep) /\ WF_vars(LauncherStep)

FairSpec == Spec /\ Fairness
-----------------------------------------------------------------------------
FileType == [rows : Rows, counter : Nat, seq : Nat, lineage : Nat]

LoopPC == {"none", "boot", "bootFile", "bootFreeze", "bootAttempt", "bootReplay", "top", "gen",
           "load", "adopt", "flip", "rebase", "finish", "backoff"}
WritePC == {"idle", "call", "bumping", "replying", "invalidate", "mutate", "apply", "resolve",
            "retire", "decide", "readback", "abandon", "abandonRetire", "abandonObserve",
            "abandonSettle", "returned", "dead"}
SavePC == {"idle", "counter", "inflight", "ledger", "sequence", "prepare", "write", "recheck"}

Counts == [faults : Nat, crashes : Nat, saves : Nat, external : Nat]

StoreTypeOK ==
    /\ pgRow \in Rows /\ pgCounter \in Nat /\ pgSeq \in Nat /\ pgLineage \in Nat
    /\ file \in FileType \cup {Null}
    /\ used \in Counts
    /\ acked \in Rows

EngineTypeOK ==
    /\ up \in BOOLEAN /\ stopping \in BOOLEAN
    /\ state \in {"serving", "fallback"}
    /\ snap \in Rows \cup {Null} /\ baseLineage \in Nat /\ delta \in BOOLEAN
    /\ applyMu \in Write \cup {Loader, Null} /\ applyEpoch \in Nat
    /\ dirtyGen \in Nat /\ settledGen \in Nat /\ resolvedGen \in Nat
    /\ inflight \in Int
    /\ ledger \in Ledger /\ \A v \in ledger.above : v <= ledger.highest

BootGapType == [active : BOOLEAN, poisoned : BOOLEAN,
                entries : SUBSET [counter : Nat, keys : SUBSET Row]]
LoopType == [pc : LoopPC, finishing : Nat, fresh : BOOLEAN,
             launcher : {"none", "asleep", "due", "leaving"}]
LoadType == [epoch : Nat, gen : Nat, rows : Rows \cup {Null}, counter : Nat \cup {Null},
             lineage : Nat, seq : Nat, target : Nat]
BuildingType == [todo : SUBSET Row, rows : Rows]

LoaderTypeOK ==
    /\ bootGap \in BootGapType
    /\ atStart \in [counter : Nat, seq : Nat] \cup {Null}
    /\ loop \in LoopType
    /\ load \in LoadType
    /\ building \in BuildingType \cup {Null}

Scope == [pc : WritePC, reply : Nat, counter : Nat, bumpFailed : BOOLEAN, settled : BOOLEAN,
          fallback : BOOLEAN, keys : SUBSET Row, todo : SUBSET Row, ver : Rows]

WriteTypeOK == ws \in [Write -> Scope]

SaveType == [pc : SavePC, shutdown : BOOLEAN, epoch : Nat, counter : Nat, inflight : Int,
             seq : Nat, dirty : Nat, rows : Rows \cup {Null}, lineage : Nat]

ReaderTypeOK ==
    /\ save \in SaveType
    /\ query \in [pc : {"idle", "view", "served"}, floor : Rows, rows : Rows \cup {Null}]

\* Every variable of the model keeps its type.
TypeOK == StoreTypeOK /\ EngineTypeOK /\ LoaderTypeOK /\ WriteTypeOK /\ ReaderTypeOK
-----------------------------------------------------------------------------
(* Safety.                                                                  *)

\* The replica matches PostgreSQL: whenever a query would be served, every row
\* of the view holds its committed version, except where a write this process
\* is still carrying has yet to return (Apply publishes before it does).
ReplicaCurrent ==
    (up /\ Serving /\ snap # Null) =>
        \A r \in Row : \/ snap[r] = pgRow[r]
                       \/ \E w \in Write : InFlight(w) /\ r \in DurableRows(w)

\* servableView: a served query reads every write whose driver call returned
\* before the query began, across a fallback and its recovery too.
ReadsAcknowledgedWrites ==
    query.pc = "served" => \A r \in Row : query.rows[r] >= query.floor[r]

\* A watermark failure is settled at most once and resolved only after it
\* settled: the order engine.go documents for its three generations, which
\* "equal means every failure has settled" rests on.
GenerationsOrdered == resolvedGen <= settledGen /\ settledGen <= dirtyGen

\* An engine in fallback always has a rebuild under way or about to be
\* relaunched, so it is never stranded there (finishFallbackRebuild).
FallbackHasARebuild ==
    (up /\ ~stopping /\ state = "fallback") => loop.pc # "none" \/ loop.finishing > 0

\* The applying phase of a write: its counter is resolved, its rows not yet
\* published.
Applying(w) == ws[w].pc \in {"retire", "decide", "readback"}

\* What WatermarkTrusted answers for: generations equal, nothing in flight,
\* every counter accounted for.  The replica then misses no committed write,
\* bar the one Apply is publishing at that moment.
TrustedMeansComplete ==
    (/\ up /\ Serving /\ snap # Null /\ dirtyGen = resolvedGen
     /\ Converged(pgCounter, inflight)) =>
        \A r \in Row : \/ snap[r] = pgRow[r]
                       \/ \E w \in Write : Applying(w) /\ r \in DurableRows(w)

\* A file whose header would pass for current at the next start.
LooksCurrent(f) == f.lineage = pgLineage /\ f.counter = pgCounter /\ f.seq = pgSeq

\* A snapshot file holds every write whose counter is at or below its stamp.
StampVouches ==
    file # Null =>
        \A w \in Write, r \in Row :
            ws[w].counter \in 1 .. file.counter => file.rows[r] >= ws[w].ver[r]

\* A file stamped with the counter PostgreSQL still holds matches PostgreSQL,
\* so a quiet restart may adopt it.  A write whose bump failed moves no
\* counter: only removing the file keeps this true, and the one exception is
\* a file whose recheck is still to come.
CurrentStampMeansCurrentFile ==
    (file # Null /\ LooksCurrent(file) /\ ~(save.pc = "recheck" /\ dirtyGen # save.dirty)) =>
        file.rows = pgRow
-----------------------------------------------------------------------------
(* Liveness, under FairSpec and with finitely many faults.                  *)

\* enterFallback and finishFallbackRebuild: an engine that fell back serves
\* from its replica again, whatever raced with the rebuild that recovers it.
FallbackRecovers == (state = "fallback") ~> (Serving /\ snap # Null)

\* Apply and ResolveAbandonedWrite hold no lock or loop for ever: every write a
\* caller begins returns to it.
WritesReturn == \A w \in Write : InFlight(w) ~> ~InFlight(w)

\* refused loads and relaunches come to an end: once writes and faults stop,
\* so do full reloads of the graph.
RebuildsStop == <>[](loop.pc = "none" /\ loop.finishing = 0)
-----------------------------------------------------------------------------
(* What the comments claim and the code does not always do.                 *)

\* saveSnapshotCommit's comment: of a failed bump's removal of the file and the
\* save's own, "one of the two removals always comes last", so a hard stop
\* leaves no file that looks current and misses the uncounted write.
StopLeavesNoStaleFile ==
    (~up /\ file # Null /\ LooksCurrent(file)) => file.rows = pgRow

\* requestTrustRebuild's comment: every request launches, coalesces into a
\* launcher that will run, or finds the generations equal.  So a settled
\* failure that is not resolved has a rebuild under way, a launcher pending, or
\* an Apply that is about to ask for one.
TrustRebuildComing ==
    (up /\ ~stopping /\ settledGen # resolvedGen) =>
        \/ loop.pc # "none" \/ loop.finishing > 0 \/ loop.launcher # "none"
        \/ \E w \in Write : ws[w].pc = "decide" /\ ws[w].settled
=============================================================================
