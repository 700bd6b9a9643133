---- MODULE PathServing ----
(* Shortest-path and Cypher answers served from the replica: the criteria      *)
(* FetchAllShortestPaths recognises (recognize/criteria.go), the two serving   *)
(* pipelines (engine.go servePathQuery and TryCypher, gate.go), the rows they  *)
(* still fetch from PostgreSQL (hydrate.go), and the result handed back        *)
(* (serve_cypher.go, result.go), beside a writer that commits and publishes    *)
(* between any two of their steps.                                             *)
(*                                                                             *)
(* A database is [nodes, edges, foreign]: a function from node ids to their    *)
(* row version, edges [id, s, e, kind, ver] unique by (s, e, kind), and        *)
(* whether a second graph is populated. A view has the same nodes, edges       *)
(* without `ver` (the replica holds no edge properties) and the highest kind   *)
(* id it uses. Ids stand for dense ids. A path is a sequence of edges.         *)
EXTENDS Integers, Sequences, FiniteSets, SequencesExt

CONSTANTS
    NodeIds,              \* node ids the database may use
    Kinds,                \* kind ids the database maps
    Databases,            \* databases to begin with
    PathCriteria,         \* criteria of FetchAllShortestPaths: sequences of conjuncts
    CypherQueries,        \* Cypher queries: sequences of patterns
    EdgeBatchSize,        \* edgeBatchSize, 500 in the code
    EdgePropsBatchSize,   \* edgePropsBatchSize, 10,000 in the code
    MaxWrites,            \* bound: writes committed
    MaxCalls              \* bound: queries made

VARIABLES
    db,        \* PostgreSQL as committed
    view,      \* the published view
    serving,   \* stateServing rather than fallback
    acked,     \* PostgreSQL when the last write finished
    pending,   \* a write has committed and is not published yet
    call,      \* the query being served
    moments,   \* what PostgreSQL has held since the call began
    writes, calls

vars == <<db, view, serving, acked, pending, call, moments, writes, calls>>

Idle == [st |-> "idle"]
Bare(e) == [id |-> e.id, s |-> e.s, e |-> e.e, kind |-> e.kind]
Triple(e) == <<e.s, e.e, e.kind>>

ViewOf(d) == [nodes |-> d.nodes, edges |-> {Bare(e) : e \in d.edges}, foreign |-> d.foreign,
              maxKind |-> Max({0} \cup {e.kind : e \in d.edges})]

------------------------------------------------------------------------------
(* What a pattern [roots, terms, kinds, how] matches in a view or database; no *)
(* kinds means every kind. The search is Traverse's.                           *)

Chains(p) == \A i \in 1 .. Len(p) - 1 : p[i].e = p[i + 1].s
Walks(edges, r, t, d) == {p \in [1 .. d -> edges] : p[1].s = r /\ p[d].e = t /\ Chains(p)}

ShortestOf(paths) == {p \in paths : \A o \in paths : Len(p) <= Len(o)}
Shortest(edges, r, t) ==
    IF r = t THEN {} ELSE ShortestOf(UNION {Walks(edges, r, t, d) : d \in 1 .. Cardinality(NodeIds) - 1})

PathsByPair(edges, roots, terms) == UNION {Shortest(edges, x[1], x[2]) : x \in roots \X terms}

SelfEndpointConflict(v, roots, terms) ==
    \E n \in roots \cap terms : n \in DOMAIN v.nodes /\ \E e \in v.edges : e.s = n

------------------------------------------------------------------------------
(* Recognition. A conjunct is [t |-> "id", var, id], [t |-> "kinds", var,      *)
(* kinds] or [t |-> "other"].                                                  *)

MatchRelationshipKinds(x) == x.var = "r" /\ x.kinds # {}

WalkConjunct(acc, x) ==
    CASE x.t = "id" /\ x.var \in {"s", "e"} /\ acc[x.var] = {} -> [acc EXCEPT ![x.var] = {x.id}]
      [] x.t = "kinds" /\ MatchRelationshipKinds(x) /\ acc.kinds = {} -> [acc EXCEPT !.kinds = x.kinds]
      [] OTHER -> [acc EXCEPT !.ok = FALSE]

(* FromCriteria: one start id, one end id and at most one list of kinds. *)
FromCriteria(criteria) ==
    LET r == FoldLeft(WalkConjunct, [ok |-> TRUE, s |-> {}, e |-> {}, kinds |-> {}], criteria)
    IN [r EXCEPT !.ok = @ /\ r.s # {} /\ r.e # {}]

------------------------------------------------------------------------------
(* The path pipeline: capture, search, fetch nodes, fetch edges by batches.    *)

(* resolveIDEndpoint: an id the view lacks narrows the endpoint to nothing. *)
ResolveIDEndpoint(v, ids) == ids \cap DOMAIN v.nodes

(* buildKindMask over the view's kinds; a kind the mapper lacks fails the call. *)
KindMask(v, kinds) == IF kinds = {} THEN 0 .. v.maxKind ELSE kinds \cap 0 .. v.maxKind
Masked(v, kinds) == {e \in v.edges : e.kind \in KindMask(v, kinds)}

(* hydrationKeys *)
PathNodes(paths) == UNION {UNION {{p[i].s, p[i].e} : i \in DOMAIN p} : p \in paths}
PathEdges(paths) == UNION {Range(p) : p \in paths}

Batch(todo, size) == SubSeq(todo, 1, IF Len(todo) < size THEN Len(todo) ELSE size)
Rest(todo, size) == SubSeq(todo, Len(Batch(todo, size)) + 1, Len(todo))

Declined == /\ call' = Idle
            /\ moments' = {}
Unwritten == UNCHANGED <<db, view, serving, acked, pending, writes>>

(* recordingRelationshipQuery.FetchAllShortestPaths, up to the engine. *)
FetchAllShortestPaths(criteria) ==
    /\ call = Idle /\ calls < MaxCalls
    /\ calls' = calls + 1
    /\ LET pq == FromCriteria(criteria) IN
       IF pq.ok
       THEN /\ call' = [st |-> "paths", criteria |-> criteria, pq |-> pq, cancelled |-> FALSE]
            /\ moments' = {acked, db}
       ELSE Declined
    /\ Unwritten

(* servePathQuery up to the traversal. The view is immutable, so what follows  *)
(* the capture is one step; a kind that does not map, an endpoint PostgreSQL   *)
(* refuses, a cancelled context or a traversal over its budget declines.       *)
ServePathQuery ==
    /\ call.st = "paths"
    /\ LET roots == ResolveIDEndpoint(view, call.pq.s)
           terms == ResolveIDEndpoint(view, call.pq.e)
       IN \/ /\ ~call.cancelled /\ serving /\ ~view.foreign
             /\ ~SelfEndpointConflict(view, roots, terms)
             /\ call.pq.kinds \subseteq Kinds
             /\ \E paths \in {PathsByPair(Masked(view, call.pq.kinds), roots, terms)} :
                   call' = [st |-> IF paths = {} THEN "stream" ELSE "nodes", criteria |-> call.criteria,
                            cancelled |-> FALSE, paths |-> paths, nodes |-> <<>>,
                            todo |-> SetToSeq({Triple(e) : e \in PathEdges(paths)}), edges |-> {},
                            out |-> {}, left |-> {}]
             /\ UNCHANGED moments
          \/ Declined
    /\ Unwritten /\ UNCHANGED calls

NodesFound(ids) == ids \subseteq DOMAIN db.nodes

(* hydrateNodes: one query for every node, all of them or none. *)
HydrateNodes ==
    /\ call.st = "nodes" /\ ~call.cancelled
    /\ LET ids == PathNodes(call.paths) IN
       /\ NodesFound(ids)
       /\ call' = [call EXCEPT !.st = "edges",
                               !.nodes = [n \in ids \cap DOMAIN db.nodes |-> db.nodes[n]]]
    /\ Unwritten /\ UNCHANGED <<calls, moments>>

(* hydrateEdgeBatch: the rows of one batch of triples. *)
HydrateEdgeBatch ==
    /\ call.st = "edges" /\ call.todo # <<>> /\ ~call.cancelled
    /\ LET batch == Range(Batch(call.todo, EdgeBatchSize)) IN
       call' = [call EXCEPT !.todo = Rest(@, EdgeBatchSize),
                            !.edges = @ \cup {e \in db.edges : Triple(e) \in batch}]
    /\ Unwritten /\ UNCHANGED <<calls, moments>>

(* Every triple asked for came back. *)
EdgesFound == {Triple(e) : e \in PathEdges(call.paths)} = {Triple(e) : e \in call.edges}

(* assemblePath: each step replaced by the row of its triple. *)
AssemblePath(p) == [i \in DOMAIN p |-> CHOOSE e \in call.edges : Triple(e) = Triple(p[i])]

\* Broken on purpose: a path whose edge has gone is left out of the answer.
HydratePathsFound ==
    /\ call.st = "edges" /\ call.todo = <<>>
    /\ \E paths \in {{AssemblePath(p) : p \in {o \in call.paths :
                         \A i \in DOMAIN o : \E e \in call.edges : Triple(e) = Triple(o[i])}}} :
          call' = [call EXCEPT !.st = "stream", !.paths = paths, !.left = paths]
    /\ Unwritten /\ UNCHANGED <<calls, moments>>

(* hydrateEdges' check, hydratePaths' assembly and NewPathCursor. *)
HydratePaths ==
    /\ call.st = "edges" /\ call.todo = <<>>
    /\ EdgesFound
    /\ \E paths \in {{AssemblePath(p) : p \in call.paths}} :
          call' = [call EXCEPT !.st = "stream", !.paths = paths, !.left = paths]
    /\ Unwritten /\ UNCHANGED <<calls, moments>>

(* A query that fails, a cancelled context or a row that has gone declines. *)
HydrationFails ==
    /\ call.st \in {"nodes", "edges"}
    /\ Declined
    /\ Unwritten /\ UNCHANGED calls

(* pathCursor.feed: one path to the delegate. *)
Feed ==
    /\ call.st = "stream"
    /\ \E p \in call.left :
          call' = [call EXCEPT !.left = @ \ {p}, !.out = @ \cup {p}]
    /\ Unwritten /\ UNCHANGED <<calls, moments>>

(* Submit saw the context done: the cursor ends with ErrContextTimedOut. *)
SubmitFails ==
    /\ call.st = "stream" /\ call.cancelled /\ call.left # {}
    /\ call' = [call EXCEPT !.st = "failed"]
    /\ Unwritten /\ UNCHANGED <<calls, moments>>

(* The feeder closed the channel; the delegate read everything and no error. *)
Drained ==
    /\ call.st = "stream" /\ call.left = {}
    /\ call' = [call EXCEPT !.st = "drained"]
    /\ Unwritten /\ UNCHANGED <<calls, moments>>

Cancel ==
    /\ call.st \in {"paths", "nodes", "edges", "stream"} /\ ~call.cancelled
    /\ call' = [call EXCEPT !.cancelled = TRUE]
    /\ Unwritten /\ UNCHANGED <<calls, moments>>

------------------------------------------------------------------------------
(* The Cypher pipeline. A query is a sequence of patterns; how is "edge" for a *)
(* plain relationship and "asp" for allShortestPaths, whose `harnesses` are    *)
(* the semantics of the harness calls dawgs translates it to: PostgreSQL finds *)
(* the shortest paths "overall" or "perPair".                                  *)

Asp(patterns) == {i \in DOMAIN patterns : patterns[i].how = "asp"}
HasAllShortestPaths(patterns) == Asp(patterns) # {}

(* interpret.Plan takes one shortest-path pattern at most. *)
Plans(patterns) == Cardinality(Asp(patterns)) <= 1

FunctionCalls(patterns) == UNION {patterns[i].harnesses : i \in Asp(patterns)}

(* harnessSemantics: what every harness of the translation agrees on. *)
HarnessSemantics(patterns) ==
    LET hs == FunctionCalls(patterns) IN
    CASE hs = {} -> "none"
      [] Cardinality(hs) = 1 -> CHOOSE h \in hs : TRUE
      [] OTHER -> "mixed"

(* snapshotKindMapper.MapKinds, translateGate: every kind named must map. *)
TranslateGateOK(patterns) == \A i \in DOMAIN patterns : patterns[i].kinds \subseteq Kinds

ResultOf(edges, p, perPair) ==
    LET found == {e \in edges : p.kinds = {} \/ e.kind \in p.kinds} IN
    IF p.how = "edge" THEN {<<e>> : e \in {x \in found : x.s \in p.roots /\ x.e \in p.terms}}
    ELSE LET paths == PathsByPair(found, p.roots, p.terms) IN
         IF perPair THEN paths ELSE ShortestOf(paths)

(* interpret.Execute refuses any pattern whose endpoints overlap. *)
Executes(v, patterns) ==
    \A i \in DOMAIN patterns :
        patterns[i].how = "edge" \/ patterns[i].roots \cap patterns[i].terms \cap DOMAIN v.nodes = {}

CallCypher(patterns) ==
    /\ call = Idle /\ calls < MaxCalls
    /\ calls' = calls + 1
    /\ call' = [st |-> "cypher", patterns |-> patterns]
    /\ moments' = {acked, db}
    /\ Unwritten

(* TryCypher up to the hydration; a budget, a collation or a panic declines. *)
TryCypher ==
    /\ call.st = "cypher"
    /\ LET ps == call.patterns IN
       \/ /\ Plans(ps)
          /\ ~view.foreign
          /\ TranslateGateOK(ps)
          /\ HasAllShortestPaths(ps) => HarnessSemantics(ps) \in {"overall", "perPair"}
          /\ serving
          /\ Executes(view, ps)
          /\ LET perPair == HasAllShortestPaths(ps) /\ HarnessSemantics(ps) = "perPair" IN
             \E rows \in {[i \in DOMAIN ps |-> ResultOf(view.edges, ps[i], perPair)]} :
                call' = [st |-> "props", patterns |-> ps, rows |-> rows, snap |-> view,
                         todo |-> SetToSeq({e.id : e \in UNION {PathEdges(rows[i]) : i \in DOMAIN rows}}),
                         props |-> <<>>]
          /\ UNCHANGED moments
       \/ Declined
    /\ Unwritten /\ UNCHANGED calls

(* hydrateEdgePropsBatch: the properties of the edges of one batch of ids. *)
HydrateEdgePropsBatch ==
    /\ call.st = "props" /\ call.todo # <<>>
    /\ LET found == {e \in db.edges : e.id \in Range(Batch(call.todo, EdgePropsBatchSize))} IN
       call' = [call EXCEPT !.todo = Rest(@, EdgePropsBatchSize),
                            !.props = @ @@ [i \in {e.id : e \in found} |-> (CHOOSE e \in found : e.id = i).ver]]
    /\ Unwritten /\ UNCHANGED <<calls, moments>>

ResultEdges == UNION {PathEdges(call.rows[i]) : i \in DOMAIN call.rows}

NoneVanished == \A e \in ResultEdges : e.id \in DOMAIN call.props

(* materializeEdge, edgePropsFor: the view's edge, with no properties (version *)
(* 0) where none were fetched.                                                 *)
EdgePropsFor(id) == IF id \in DOMAIN call.props THEN call.props[id] ELSE 0
MaterializeEdge(e) == [id |-> e.id, s |-> e.s, e |-> e.e, kind |-> e.kind, ver |-> EdgePropsFor(e.id)]
MaterializeNode(n) == call.snap.nodes[n]
MaterializePath(p) == [i \in DOMAIN p |-> MaterializeEdge(p[i])]

(* buildCypherRowsResult: every row is materialised before the call serves. *)
BuildCypherRowsResult ==
    /\ call.st = "props" /\ call.todo = <<>>
    /\ NoneVanished
    /\ call' = [st |-> "rows", patterns |-> call.patterns,
                rows |-> [i \in DOMAIN call.rows |-> {MaterializePath(p) : p \in call.rows[i]}],
                nodes |-> [n \in UNION {PathNodes(call.rows[i]) : i \in DOMAIN call.rows} |-> MaterializeNode(n)]]
    /\ Unwritten /\ UNCHANGED <<calls, moments>>

(* A query that fails, an edge that vanished or a recovered panic declines. *)
CypherFails ==
    /\ call.st = "props"
    /\ Declined
    /\ Unwritten /\ UNCHANGED calls

(* The caller has its answer. *)
Return ==
    /\ call.st \in {"drained", "failed", "rows"}
    /\ Declined
    /\ Unwritten /\ UNCHANGED calls

------------------------------------------------------------------------------
(* The writer: one write at a time commits, then its apply publishes a view or *)
(* gives up and falls back, and a rebuild ends the fallback (Engine, Rebuild). *)

FreshEdgeId == 1 + Max({0} \cup {e.id : e \in db.edges} \cup {e.id : e \in view.edges} \cup {e.id : e \in acked.edges})

DeleteNode(n) == [db EXCEPT !.nodes = [m \in DOMAIN @ \ {n} |-> @[m]], !.edges = {e \in @ : n \notin {e.s, e.e}}]
UpdateNode(n) == [db EXCEPT !.nodes[n] = @ + 1]
DeleteEdge(e) == [db EXCEPT !.edges = @ \ {e}]
UpdateEdge(e) == [db EXCEPT !.edges = (@ \ {e}) \cup {[e EXCEPT !.ver = @ + 1]}]
RecreateEdge(e) == [db EXCEPT !.edges = (@ \ {e}) \cup {[e EXCEPT !.id = FreshEdgeId, !.ver = 1]}]
CreateEdge(t) ==
    [db EXCEPT !.edges = @ \cup {[id |-> FreshEdgeId, s |-> t[1], e |-> t[2], kind |-> t[3], ver |-> 1]}]

NewTriples ==
    {t \in NodeIds \X NodeIds \X Kinds :
        {t[1], t[2]} \subseteq DOMAIN db.nodes /\ t[1] # t[2] /\ t \notin {Triple(e) : e \in db.edges}}

Changes == {DeleteNode(n) : n \in DOMAIN db.nodes} \cup {UpdateNode(n) : n \in DOMAIN db.nodes}
           \cup UNION {{DeleteEdge(e), UpdateEdge(e), RecreateEdge(e)} : e \in db.edges}
           \cup {CreateEdge(t) : t \in NewTriples}

Commit ==
    /\ ~pending /\ writes < MaxWrites
    /\ \E d \in Changes :
          /\ db' = d
          /\ moments' = IF call = Idle THEN {} ELSE moments \cup {d}
    /\ pending' = TRUE
    /\ writes' = writes + 1
    /\ UNCHANGED <<view, serving, acked, call, calls>>

Publish ==
    /\ pending
    /\ pending' = FALSE
    /\ acked' = db
    /\ view' = IF serving THEN ViewOf(db) ELSE view
    /\ UNCHANGED <<db, serving, call, moments, writes, calls>>

FallBack ==
    /\ pending /\ serving
    /\ serving' = FALSE /\ pending' = FALSE
    /\ acked' = db
    /\ UNCHANGED <<db, view, call, moments, writes, calls>>

Rebuild ==
    /\ ~serving /\ ~pending
    /\ serving' = TRUE
    /\ view' = ViewOf(db)
    /\ UNCHANGED <<db, acked, pending, call, moments, writes, calls>>

Init ==
    /\ db \in Databases
    /\ acked = db /\ view = ViewOf(db)
    /\ serving = TRUE /\ pending = FALSE
    /\ call = Idle /\ moments = {}
    /\ writes = 0 /\ calls = 0

Next ==
    \/ \E criteria \in PathCriteria : FetchAllShortestPaths(criteria)
    \/ ServePathQuery \/ HydrateNodes \/ HydrateEdgeBatch \/ HydratePaths \/ HydrationFails
    \/ Feed \/ SubmitFails \/ Drained \/ Cancel
    \/ \E patterns \in CypherQueries : CallCypher(patterns)
    \/ TryCypher \/ HydrateEdgePropsBatch \/ BuildCypherRowsResult \/ CypherFails
    \/ Return
    \/ Commit \/ Publish \/ FallBack \/ Rebuild

Spec == Init /\ [][Next]_vars

------------------------------------------------------------------------------
(* Properties.                                                                 *)

(* What PostgreSQL answers the criteria of FetchAllShortestPaths: the shortest *)
(* paths of the ends and edges every conjunct admits; "other" admits none.     *)
AdmitsEnd(criteria, var, n) ==
    \A i \in DOMAIN criteria : criteria[i].t = "id" /\ criteria[i].var = var => criteria[i].id = n
AdmitsEdge(criteria, e) ==
    \A i \in DOMAIN criteria :
        /\ criteria[i].t # "other"
        /\ criteria[i].t = "kinds" => criteria[i].var = "r" /\ e.kind \in criteria[i].kinds
EndsAt(m, criteria, var) == {n \in DOMAIN m.nodes : AdmitsEnd(criteria, var, n)}
RefPaths(m, criteria) ==
    ShortestOf(PathsByPair({e \in m.edges : AdmitsEdge(criteria, e)},
                           EndsAt(m, criteria, "s"), EndsAt(m, criteria, "e")))
Refuses(m, criteria) == m.foreign \/ SelfEndpointConflict(m, EndsAt(m, criteria, "s"), EndsAt(m, criteria, "e"))
Steps(paths) == {[i \in DOMAIN p |-> Triple(p[i])] : p \in paths}

(* A drained path cursor without error (hydrate.go, engine.go servePathQuery)  *)
(* delivered exactly the shortest paths PostgreSQL held at one moment of the   *)
(* call, one it would have answered, and every node and edge row in them is a  *)
(* row PostgreSQL held at some moment of the call: a row deleted or recreated  *)
(* between the capture and the fetches never shortens or garbles the answer.   *)
ServedPathsAreWhole ==
    call.st = "drained" =>
        /\ \E m \in moments : ~Refuses(m, call.criteria) /\ Steps(call.out) = Steps(RefPaths(m, call.criteria))
        /\ \A e \in PathEdges(call.out) : \E m \in moments : e \in m.edges
        /\ \A n \in PathNodes(call.out) :
              n \in DOMAIN call.nodes /\ \E m \in moments : n \in DOMAIN m.nodes /\ call.nodes[n] = m.nodes[n]

(* A served Cypher result (engine.go TryCypher, gate.go, serve_cypher.go) is   *)
(* what PostgreSQL, with the harness each pattern translates to, answered at   *)
(* one moment of the call, nodes included; each edge carries properties its    *)
(* row had at some moment of the call, never ones made up for a vanished edge. *)
ServedRowsAreWhole ==
    call.st = "rows" =>
        /\ \E m \in moments :
              /\ ~m.foreign
              /\ \A i \in DOMAIN call.patterns :
                    LET p == call.patterns[i] IN
                    /\ p.how = "asp" => Cardinality(p.harnesses) = 1 /\ ~SelfEndpointConflict(m, p.roots, p.terms)
                    /\ {[j \in DOMAIN w |-> Bare(w[j])] : w \in call.rows[i]}
                         = {[j \in DOMAIN w |-> Bare(w[j])] : w \in ResultOf(m.edges, p, "perPair" \in p.harnesses)}
              /\ \A n \in DOMAIN call.nodes : n \in DOMAIN m.nodes /\ call.nodes[n] = m.nodes[n]
        /\ \A i \in DOMAIN call.rows : \A e \in PathEdges(call.rows[i]) : \E m \in moments : e \in m.edges
====
