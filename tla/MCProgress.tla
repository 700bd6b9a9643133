----------------------------- MODULE MCProgress -----------------------------
(* What must come to an end, in four parts: writes, reads and a shutdown that     *)
(* share two connection pools (Connections), a compaction (Compaction), the       *)
(* goroutine that feeds a served cursor (Builder) and a traversal (Traverse).     *)
(* A behaviour stays in the part it began in; the other parts' variables stand    *)
(* where nothing is left to do.                                                   *)
EXTENDS Connections, TLC

CONSTANTS t1, b1, b2, r1, r2, c1, c2

VARIABLES part, view, serving, writes,
          pg, unapplied, stopping, rebuilds, compacting, job, applied,
          db, foreign, inflight, q, c, calls,
          graph, st, todo, cur, scF, scT, scTmp, dists, sink, best, used, reserved, cancelled

Off(v) == v = "off"
commonVars == <<view, serving, writes>>
foldVars == <<pg, unapplied, stopping, rebuilds, compacting, job, applied>>
builderVars == <<db, foreign, inflight, c, calls>>
traverseVars == <<graph, st, todo, cur, scF, scT, scTmp, dists, sink, best, used, reserved, cancelled>>

BC == INSTANCE BuilderCases
TC == INSTANCE TraverseCases
Row(kinds, oid) == [kinds |-> kinds, oid |-> oid]

Fold == INSTANCE Compaction WITH
    NodeIds <- {1, 2}, EdgeIds <- {7}, NodeRows <- {Row({1}, "a"), Row({2}, "none")}, EdgeKinds <- {5},
    Base0 <- [nodes |-> 1 :> Row({1}, "a"), edges |-> [e \in {} |-> e]], Compactors <- {c1, c2},
    MaxSegments <- 1, CompactEntries <- 0, MaxWrites <- 2, MaxRebuilds <- 1

Feeder == INSTANCE Builder WITH
    Graphs <- BC!OneGraph, Foreign <- BC!NoForeign, NodeCriteria <- BC!OneNodeCriteria,
    RelCriteria <- BC!OneRelCriteria, Projections <- {}, Orders <- BC!NoOrders,
    NamedKinds <- {1, 3}, MaxKindID <- 3, RowCursorBuffer <- 1, CancelCheckInterval <- 2,
    Clauses <- TRUE, MaxCalls <- 1, MaxWrites <- 0, MaxFilters <- 1

Long == INSTANCE Traverse WITH
    NodeIds <- 1 .. 5, Graphs <- TC!ChainGraphs, Queries <- TC!FewQueries, PairBudget <- 4, SideBudget <- 1,
    MaxDist <- 3, EpochMod <- 3, ScratchBytes <- 1, PathBytes <- 1

CommonOff == Off(view) /\ Off(serving) /\ Off(writes)
NoPools ==
    /\ pc = [p \in Writers \cup Readers |-> "done"] /\ midway = {} /\ Off(pool) /\ Off(left)
    /\ onMain = {} /\ onWrite = {} /\ applyMu = {} /\ closed = TRUE /\ sd = "closed" /\ lost = FALSE
NoFold == /\ compacting = FALSE
          /\ Off(pg) /\ Off(unapplied) /\ Off(stopping) /\ Off(rebuilds) /\ Off(job) /\ Off(applied)
NoCall == c = Feeder!None /\ Off(db) /\ Off(foreign) /\ Off(inflight) /\ Off(calls)
NoTraversal ==
    /\ st = "done" /\ Off(graph) /\ Off(todo) /\ Off(cur) /\ Off(scF) /\ Off(scT) /\ Off(scTmp)
    /\ Off(dists) /\ Off(sink) /\ Off(best) /\ Off(used) /\ Off(reserved) /\ Off(cancelled)

ProgressInit ==
    \/ part = "pools" /\ Init /\ CommonOff /\ Off(q) /\ NoFold /\ NoCall /\ NoTraversal
    \/ part = "fold" /\ Fold!Init /\ tx = {} /\ Off(q) /\ NoPools /\ NoCall /\ NoTraversal
    \/ part = "feeder" /\ Feeder!Init /\ NoPools /\ NoFold /\ NoTraversal
    \/ part = "traversal" /\ Long!Init /\ CommonOff /\ tx = {} /\ NoPools /\ NoFold /\ NoCall

poolVars == <<pc, midway, pool, left, onMain, onWrite, applyMu, closed, sd, lost>>
ProgressNext ==
    /\ UNCHANGED part
    /\ \/ part = "pools" /\ Next /\ UNCHANGED <<commonVars, q, foldVars, builderVars, traverseVars>>
       \/ part = "fold" /\ Fold!Next /\ UNCHANGED <<tx, q, poolVars, builderVars, traverseVars>>
       \/ part = "feeder" /\ Feeder!Next /\ UNCHANGED <<poolVars, foldVars, traverseVars>>
       \/ part = "traversal" /\ Long!Next /\ UNCHANGED <<commonVars, tx, poolVars, foldVars, builderVars>>

(* Each part goes on as long as it has a step due: no more fairness than its     *)
(* module's own specification assumes.                                           *)
ProgressSpec ==
    /\ ProgressInit
    /\ [][ProgressNext]_<<part, commonVars, tx, q, poolVars, foldVars, builderVars, traverseVars>>
    /\ WF_vars(part = "pools" /\ Due)
    /\ WF_foldVars(part = "fold" /\ \E k \in {c1, c2} : Fold!Run(k))
    /\ WF_c(part = "feeder" /\ Feeder!Feed)
    /\ WF_traverseVars(part = "traversal" /\ Long!Next)
-----------------------------------------------------------------------------
(* writepool.go, driver.go Close: every write that has its connection ends,      *)
(* although all of them hold one of a saturated pool and served reads may wedge  *)
(* that pool; every write ends unless they do so for good; and a shutdown that   *)
(* began closes the write path's pool.                                           *)
WritesAndShutdownEnd == WritesEnd /\ ShutdownEnds

(* What a call or a write sets going ends: a compaction, adopted or not, the     *)
(* goroutine that feeds a cursor whose wrapper has returned, and a traversal,    *)
(* served, declined, cancelled or out of memory (compact.go, rowresult.go,       *)
(* traverse.go).                                                                 *)
StartedWorkEnds == Fold!CompactionEnds /\ Feeder!FeederEnds /\ Long!TraversalEnds
=============================================================================
