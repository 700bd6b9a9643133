----------------------------- MODULE MCServing -----------------------------
(* Queries answered from the replica, in seven parts: builder calls over many      *)
(* criteria, builder calls that race writes and cancellation (both Builder), path  *)
(* and Cypher queries whose rows vanish meanwhile (PathServing), the anchors of a  *)
(* pattern under one conjunct and under several (Anchors), and traversals of long  *)
(* paths and of parallel edges (Traverse).  A behaviour stays in the part it began *)
(* in; the variables it has no use for are off.                                    *)
EXTENDS Integers

VARIABLES part,
          db, view, serving, writes, calls,
          foreign, inflight, tx, c,
          acked, pending, call, moments,
          kindNodes, named, memo, nc, rejected, hint, seed, queries,
          q, graph, st, todo, cur, scF, scT, scTmp, dists, sink, best, used, reserved, cancelled

Off(v) == v = "off"
sharedVars == <<db, serving, writes, calls>>
builderVars == <<foreign, inflight, tx, c>>
pathVars == <<acked, pending, call, moments>>
anchorVars == <<kindNodes, named, memo, nc, rejected, hint, seed, queries>>
traverseVars == <<graph, st, todo, cur, scF, scT, scTmp, dists, sink, best, used, reserved, cancelled>>
SharedOff == Off(db) /\ Off(serving) /\ Off(writes) /\ Off(calls)
BuilderOff == Off(foreign) /\ Off(inflight) /\ Off(tx) /\ Off(c)
PathOff == Off(acked) /\ Off(pending) /\ Off(call) /\ Off(moments)
AnchorOff ==
    Off(kindNodes) /\ Off(named) /\ Off(memo) /\ Off(nc) /\ Off(rejected) /\ Off(hint) /\ Off(seed) /\ Off(queries)
TraverseOff ==
    /\ Off(graph) /\ Off(st) /\ Off(todo) /\ Off(cur) /\ Off(scF) /\ Off(scT) /\ Off(scTmp) /\ Off(dists)
    /\ Off(sink) /\ Off(best) /\ Off(used) /\ Off(reserved) /\ Off(cancelled)

BC == INSTANCE BuilderCases
PC == INSTANCE PathServingCases
AC == INSTANCE AnchorsCases
TC == INSTANCE TraverseCases

Criteria == INSTANCE Builder WITH
    Graphs <- BC!AllGraphs, Foreign <- BC!NoForeign, NodeCriteria <- BC!AllNodeCriteria,
    RelCriteria <- BC!AllRelCriteria, Projections <- BC!AllProjections, Orders <- BC!NoOrders,
    NamedKinds <- {1, 3}, MaxKindID <- 3, RowCursorBuffer <- 2, CancelCheckInterval <- 2,
    Clauses <- FALSE, MaxCalls <- 1, MaxWrites <- 0, MaxFilters <- 1

Sessions == INSTANCE Builder WITH
    Graphs <- BC!TwoGraphs, Foreign <- BC!SomeForeign, NodeCriteria <- BC!FewNodeCriteria,
    RelCriteria <- BC!FewRelCriteria, Projections <- BC!AllProjections, Orders <- BC!SomeOrders,
    NamedKinds <- {1, 3}, MaxKindID <- 3, RowCursorBuffer <- 2, CancelCheckInterval <- 2,
    Clauses <- TRUE, MaxCalls <- 2, MaxWrites <- 2, MaxFilters <- 2

Paths == INSTANCE PathServing WITH
    NodeIds <- 1 .. 4, Kinds <- {1, 2}, Databases <- PC!Databases, PathCriteria <- PC!PathCriteria,
    CypherQueries <- PC!CypherQueries, EdgeBatchSize <- 2, EdgePropsBatchSize <- 1, MaxWrites <- 2, MaxCalls <- 1

OneConjunct == INSTANCE Anchors WITH
    Bases <- AC!AllBases, Deltas <- AC!AllDeltas, KindSets <- AC!OneKindSet, Conjuncts <- AC!AllConjuncts,
    EdgeHints <- AC!NoHints, Seeds <- AC!NoSeeds, MaxConjuncts <- 1, MaxQueries <- 1,
    RegexAnchorMargin <- 1, ValueAnchorMargin <- 1

Combined == INSTANCE Anchors WITH
    Bases <- AC!FewBases, Deltas <- AC!FewDeltas, KindSets <- AC!SomeKindSets, Conjuncts <- AC!FewConjuncts,
    EdgeHints <- AC!SomeHints, Seeds <- AC!SomeSeeds, MaxConjuncts <- 2, MaxQueries <- 2,
    RegexAnchorMargin <- 1, ValueAnchorMargin <- 1

Long == INSTANCE Traverse WITH
    NodeIds <- 1 .. 5, Graphs <- TC!LongGraphs, Queries <- TC!LongQueries, PairBudget <- 4, SideBudget <- 1,
    MaxDist <- 3, EpochMod <- 3, ScratchBytes <- 1, PathBytes <- 1

Parallel == INSTANCE Traverse WITH
    NodeIds <- 1 .. 3, Graphs <- TC!ParallelGraphs, Queries <- TC!ParallelQueries, PairBudget <- 1, SideBudget <- 2,
    MaxDist <- 3, EpochMod <- 3, ScratchBytes <- 1, PathBytes <- 1

Init ==
    \/ part = "criteria" /\ Criteria!Init /\ PathOff /\ AnchorOff /\ TraverseOff
    \/ part = "sessions" /\ Sessions!Init /\ PathOff /\ AnchorOff /\ TraverseOff
    \/ part = "paths" /\ Paths!Init /\ Off(q) /\ BuilderOff /\ AnchorOff /\ TraverseOff
    \/ part = "conjunct" /\ OneConjunct!Init /\ Off(q) /\ SharedOff /\ BuilderOff /\ PathOff /\ TraverseOff
    \/ part = "combined" /\ Combined!Init /\ Off(q) /\ SharedOff /\ BuilderOff /\ PathOff /\ TraverseOff
    \/ part = "long" /\ Long!Init /\ Off(view) /\ SharedOff /\ BuilderOff /\ PathOff /\ AnchorOff
    \/ part = "parallel" /\ Parallel!Init /\ Off(view) /\ SharedOff /\ BuilderOff /\ PathOff /\ AnchorOff

Next ==
    /\ UNCHANGED part
    /\ \/ /\ \/ part = "criteria" /\ Criteria!Next
             \/ part = "sessions" /\ Sessions!Next
          /\ UNCHANGED <<pathVars, anchorVars, traverseVars>>
       \/ part = "paths" /\ Paths!Next /\ UNCHANGED <<q, builderVars, anchorVars, traverseVars>>
       \/ /\ \/ part = "conjunct" /\ OneConjunct!Next
             \/ part = "combined" /\ Combined!Next
          /\ UNCHANGED <<q, sharedVars, builderVars, pathVars, traverseVars>>
       \/ /\ \/ part = "long" /\ Long!Next
             \/ part = "parallel" /\ Parallel!Next
          /\ UNCHANGED <<view, sharedVars, builderVars, pathVars, anchorVars>>

Spec == Init /\ [][Next]_<<part, view, q, sharedVars, builderVars, pathVars, anchorVars, traverseVars>>
-----------------------------------------------------------------------------
(* TryNodeQuery, TryRelationshipQuery: a served builder call drained without error   *)
(* gave an answer PostgreSQL could have given at one moment of the call.             *)
ServedAnswerIsPostgres ==
    /\ part = "criteria" => Criteria!ServedAnswerIsPostgres
    /\ part = "sessions" => Sessions!ServedAnswerIsPostgres

(* servePathQuery, TryCypher, hydration: a drained path cursor delivered exactly the *)
(* shortest paths of one moment of the call, every row in them one PostgreSQL held,  *)
(* and a served Cypher result is what PostgreSQL answered at one moment.             *)
ServedResultsAreWhole == part = "paths" => Paths!ServedPathsAreWhole /\ Paths!ServedRowsAreWhole

(* Anchors: the rows a symbol is bound to are all the nodes its conjuncts admit,     *)
(* each once, from whatever index, hint or seed they came.                           *)
RowsAreTheMatches ==
    /\ part = "conjunct" => OneConjunct!RowsAreTheMatches
    /\ part = "combined" => Combined!RowsAreTheMatches

(* Traverse: an answered traversal returns the shortest paths, each once, in order.  *)
ServedPathsAreTheShortest ==
    /\ part = "long" => Long!ServedPathsAreTheShortest
    /\ part = "parallel" => Parallel!ServedPathsAreTheShortest

(* memBudget: what a query is charged is what its result and its buffers hold.       *)
ChargedIsHeld == part = "parallel" => Parallel!ChargedIsHeld
=============================================================================
