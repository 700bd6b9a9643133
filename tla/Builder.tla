---- MODULE Builder ----
(* Builder queries served from the replica: the criteria a caller filters by, *)
(* the wrappers that record them (src/node_query.go, relationship_query.go,    *)
(* transaction.go), the recognition that turns them into a spec                *)
(* (recognize/builder.go, projection.go), the scan that answers the spec from  *)
(* one view (serve_builder.go) and the cursor that streams the rows            *)
(* (rowresult.go), beside writers that publish new views meanwhile.            *)
(*                                                                             *)
(* A graph is [kinds, edges]: a function from node ids to their kind ids, and  *)
(* a set of edges [id, s, e, kind]. A view also has `dead`, the tombstoned     *)
(* nodes that keep a dense id. Dense ids are node ids here.                    *)
EXTENDS Integers, Sequences, FiniteSets, SequencesExt

CONSTANTS
    Graphs,               \* graphs the database may hold
    Foreign,              \* what the database's other graph may hold
    NodeCriteria,         \* criteria of node queries: sequences of conjuncts
    RelCriteria,          \* criteria of relationship queries
    Projections,          \* RETURN items of Query: sequences of [f, v]
    Orders,               \* OrderBy arguments: sequences of [v, asc]
    NamedKinds,           \* ids the kind table names
    MaxKindID,            \* highest kind id the view carries
    RowCursorBuffer,      \* rowCursorBuffer, 256 in the code
    CancelCheckInterval,  \* cancelCheckInterval, 1024 in the code
    Clauses,              \* whether the caller orders, limits and retargets
    MaxCalls,             \* bound: queries made
    MaxWrites,            \* bound: writes committed
    MaxFilters            \* bound: Filter calls of one query

VARIABLES
    db,        \* the default graph as committed
    foreign,   \* the other graph of the database
    view,      \* the published view
    serving,   \* stateServing rather than fallback
    inflight,  \* the graph before another caller's committed, unpublished write
    tx,        \* the transaction wrappers one ReadTransaction call hands out
    q,         \* the query wrapper being built
    c,         \* the served call and its cursor
    calls, writes

vars == <<db, foreign, view, serving, inflight, tx, q, c, calls, writes>>

None == [none |-> TRUE]
NoName == 0
Unlimited == 99
EmptyGraph == [kinds |-> <<>>, edges |-> {}]

------------------------------------------------------------------------------
(* Recognition: criteria to spec. A conjunct is                                *)
(*   [t |-> "kind", var, kinds, all],                                           *)
(*   [t |-> "id", var, op, ids], or [t |-> "other"]; ids is what the literal or  *)
(* parameter unwraps to.                                                       *)

NoIDs == [touched |-> FALSE, ids |-> {}]

(* idAccumulator.add: the first id conjunct seeds the set, later ones narrow it. *)
AddIDs(a, ids) == IF a.touched THEN [a EXCEPT !.ids = @ \cap ids] ELSE [touched |-> TRUE, ids |-> ids]

KindConstraint(x) == [kinds |-> x.kinds, all |-> x.all]

IsKindMatcher(x) == x.t = "kind" /\ x.kinds # {}
MatchIDEquals(x) == x.t = "id" /\ x.op = "="
MatchIDIn(x) == x.t = "id" /\ x.op = "IN"

WalkNodeConjunct(acc, x) ==
    CASE IsKindMatcher(x) /\ x.var = "n" -> [acc EXCEPT !.constraints = @ \cup {KindConstraint(x)}]
      [] (MatchIDEquals(x) \/ MatchIDIn(x)) /\ x.var = "n" -> [acc EXCEPT !.ids = AddIDs(@, x.ids)]
      [] OTHER -> [acc EXCEPT !.ok = FALSE]

FromNodeCriteria(criteria) ==
    FoldLeft(WalkNodeConjunct, [ok |-> TRUE, ids |-> NoIDs, constraints |-> {}], criteria)

(* walkRelConjunct, relAccumulator: one matcher over the relationship at most. *)
WalkRelConjunct(acc, x) ==
    CASE IsKindMatcher(x) /\ x.var = "r" /\ acc.edgeKinds = {} -> [acc EXCEPT !.edgeKinds = x.kinds]
      [] IsKindMatcher(x) /\ x.var \in {"s", "e"} ->
             [acc EXCEPT !.constraints[x.var] = @ \cup {KindConstraint(x)}]
      [] (MatchIDEquals(x) \/ MatchIDIn(x)) /\ x.var \in {"s", "e"} -> [acc EXCEPT !.ids[x.var] = AddIDs(@, x.ids)]
      [] OTHER -> [acc EXCEPT !.ok = FALSE]

FromRelCriteria(criteria) ==
    FoldLeft(WalkRelConjunct,
             [ok |-> TRUE, ids |-> [v \in {"s", "e"} |-> NoIDs],
              constraints |-> [v \in {"s", "e"} |-> {}], edgeKinds |-> {}],
             criteria)

Column(f, v) == [f |-> f, v |-> v]
StartEnd == <<Column("id", "s"), Column("id", "e")>>
Step(v) == <<Column("id", v), Column("labels", v), Column("id", "r"), Column("type", "r")>>

(* FromReturning: the three projections served, item by item. *)
FromReturning(items) ==
    CASE items = StartEnd -> "start_end"
      [] items = Step("e") -> "outbound"
      [] items = Step("s") -> "inbound"
      [] OTHER -> "none"

OrderIsEdgeIDAscending(order) == Len(order) = 1 /\ order[1].v = "r" /\ order[1].asc

------------------------------------------------------------------------------
(* Resolution against one view. A bitmap that may be nil is [nil, bits]: nil   *)
(* lets everything pass.                                                       *)

Nil == [nil |-> TRUE, bits |-> {}]
Bits(S) == [nil |-> FALSE, bits |-> S]
Passes(b, n) == b.nil \/ n \in b.bits

Dense(v) == DOMAIN v.kinds \cup v.dead
NodesOfKind(v, k) == {n \in DOMAIN v.kinds : k \in v.kinds[n]}

(* mapKind: a kind the kind mapper does not know fails the call. *)
Mapped(constraints) == \A x \in constraints : x.kinds \subseteq NamedKinds

MatchConstraint(v, x) ==
    LET bitmaps == {NodesOfKind(v, k) : k \in x.kinds} IN
    IF x.all THEN {n \in UNION bitmaps : \A bm \in bitmaps : n \in bm} ELSE UNION bitmaps

ResolveConstraintBitmaps(v, constraints) ==
    IF constraints = {} THEN Nil
    ELSE Bits({n \in DOMAIN v.kinds : \A x \in constraints : n \in MatchConstraint(v, x)})

DenseIDBitmap(v, ids) == ids \cap Dense(v)

(* resolveNodeSpec, past the gate: at least one kind constraint. *)
NodeSpecServes(spec) == spec.constraints # {} /\ Mapped(spec.constraints)

ResolveNodeSpec(v, spec) ==
    LET matches == ResolveConstraintBitmaps(v, spec.constraints).bits IN
    IF spec.ids.touched THEN matches \cap DenseIDBitmap(v, spec.ids.ids) ELSE matches

RelSpecServes(spec) ==
    spec.edgeKinds \subseteq NamedKinds /\ Mapped(spec.constraints["s"]) /\ Mapped(spec.constraints["e"])

\* Broken on purpose: an anchor that resolved to no id counts as no anchor.
AnchorIfAny(v, a) == IF a.ids = {} THEN Nil ELSE Bits(DenseIDBitmap(v, a.ids))

(* An endpoint's anchor: nil without an id conjunct, and the empty bitmap when *)
(* the id conjuncts leave no id.                                               *)
Anchor(v, a) == IF a.touched THEN Bits(DenseIDBitmap(v, a.ids)) ELSE Nil

BuildKindMask(edgeKinds) == IF edgeKinds = {} THEN 0..MaxKindID ELSE edgeKinds

ResolveRelSpec(v, spec) ==
    [view |-> v, kindMask |-> BuildKindMask(spec.edgeKinds),
     startBits |-> ResolveConstraintBitmaps(v, spec.constraints["s"]),
     endBits |-> ResolveConstraintBitmaps(v, spec.constraints["e"]),
     startAnchor |-> Anchor(v, spec.ids["s"]), endAnchor |-> Anchor(v, spec.ids["e"])]

Forward(p, outer, farAnchor) ==
    [forward |-> TRUE, outer |-> outer, nearBits |-> p.startBits, farBits |-> p.endBits, farAnchor |-> farAnchor]
Backward(p, outer, farAnchor) ==
    [forward |-> FALSE, outer |-> outer, nearBits |-> p.endBits, farBits |-> p.startBits, farAnchor |-> farAnchor]

(* newRelScanIter: the anchored side is scanned, the smaller one of two. *)
NewRelScanIter(p) ==
    CASE ~p.startAnchor.nil /\ ~p.endAnchor.nil ->
             IF Cardinality(p.startAnchor.bits) <= Cardinality(p.endAnchor.bits)
             THEN Forward(p, p.startAnchor.bits, p.endAnchor)
             ELSE Backward(p, p.endAnchor.bits, p.startAnchor)
      [] ~p.startAnchor.nil /\ p.endAnchor.nil -> Forward(p, p.startAnchor.bits, Nil)
      [] p.startAnchor.nil /\ ~p.endAnchor.nil -> Backward(p, p.endAnchor.bits, Nil)
      [] OTHER -> Forward(p, Dense(p.view), Nil)

Ascending(S) == SetToSortSeq(S, <)
ByEdgeID(S) == SetToSortSeq(S, LAMBDA a, b : a.id < b.id)

Near(it, e) == IF it.forward THEN e.s ELSE e.e
Far(it, e) == IF it.forward THEN e.e ELSE e.s

(* advanceNear: the near nodes that yield a segment, ascending. *)
NearNodes(it) == Ascending({n \in it.outer : Passes(it.nearBits, n)})

(* next: one near node's edges that pass the per-edge tests. *)
Segment(p, it, n) ==
    ByEdgeID({e \in p.view.edges : /\ Near(it, e) = n
                                   /\ e.kind \in p.kindMask
                                   /\ Passes(it.farAnchor, Far(it, e))
                                   /\ Passes(it.farBits, Far(it, e))})

Scan(p) ==
    LET it == NewRelScanIter(p)
        near == NearNodes(it)
    IN  FlattenSeq([i \in DOMAIN near |-> Segment(p, it, near[i])])

(* selectKindIDs: ids inside the range that no kind has are left out. *)
SelectKindIDs(allowed) == {k \in 1..MaxKindID : k \in NamedKinds /\ k \in allowed}
KindTableWhole == MaxKindID > 0 => MaxKindID \in NamedKinds

KindName(names, k) == IF k \in names THEN k ELSE NoName
KindNames(names, ks) == {KindName(names, k) : k \in ks}

------------------------------------------------------------------------------
(* Rows of a served call. src: [on, op, view, matches | plan, ordered, names]. *)

NodeRow(src, n) ==
    IF src.op = "kinds" THEN <<n, KindNames(src.names, src.view.kinds[n])>> ELSE <<n>>

EdgeRow(src, e) ==
    CASE src.op \in {"ids", "count"} -> <<e.id>>
      [] src.op = "triples" -> <<e.id, e.s, e.e>>
      [] src.op = "kinds" -> <<e.id, e.s, e.e, KindName(src.names, e.kind)>>
      [] src.op = "start_end" -> <<e.s, e.e>>
      [] src.op = "outbound" -> <<e.e, KindNames(src.names, src.view.kinds[e.e]), e.id, KindName(src.names, e.kind)>>
      [] src.op = "inbound" -> <<e.s, KindNames(src.names, src.view.kinds[e.s]), e.id, KindName(src.names, e.kind)>>

(* drainRelIter and the sort, when the order by edge id is honoured. *)
Edges(src) == IF src.ordered THEN ByEdgeID(ToSet(Scan(src.plan))) ELSE Scan(src.plan)

Rows(src) ==
    IF src.on = "node"
    THEN LET ns == Ascending(src.matches) IN [i \in DOMAIN ns |-> NodeRow(src, ns[i])]
    ELSE LET es == Edges(src) IN [i \in DOMAIN es |-> EdgeRow(src, es[i])]

NodeOps == {"count", "ids", "kinds"}
RowOps == {"start_end", "outbound", "inbound"}
RelOps == {"count", "ids", "triples", "kinds"}

(* serveGate, and the view being nil before the first adoption. *)
ServeGate == serving /\ DOMAIN foreign.kinds = {}

(* TryNodeCount, TryNodeFetchIDs, TryNodeFetchKinds. *)
NodeSource(op, spec) ==
    [on |-> "node", op |-> op, view |-> view, matches |-> ResolveNodeSpec(view, spec),
     names |-> NamedKinds, ordered |-> FALSE]

(* TryRelQueryRows' own declines; the wrapper's projectionDirectionConsistent *)
(* makes the first two comparisons as well.                                   *)
RowsServe(op, spec, ordered) ==
    /\ op = "outbound" => spec.ids["s"].touched
    /\ op = "inbound" => spec.ids["e"].touched
    /\ ordered => spec.ids["s"].touched \/ spec.ids["e"].touched

(* resolveSelectedKindNames: the allowed edge kinds of a kinds call, every *)
(* kind for a step projection's far node.                                  *)
SelectedNames(op, spec) ==
    IF op = "kinds" THEN SelectKindIDs(BuildKindMask(spec.edgeKinds)) ELSE SelectKindIDs(0..MaxKindID)

RelSource(op, spec, ordered) ==
    [on |-> "rel", op |-> op, view |-> view, plan |-> ResolveRelSpec(view, spec),
     names |-> SelectedNames(op, spec), ordered |-> ordered]

------------------------------------------------------------------------------
(* The wrappers. *)

Handles == {"first", "retargeted"}
NewTx == [declined |-> [h \in Handles |-> h = "retargeted"], target |-> "default", wrote |-> FALSE, cancelled |-> FALSE]
Serveable(h) == ~tx.declined[h] /\ ~tx.wrote

NewQ(on, h) == [on |-> on, handle |-> h, criteria |-> <<>>, tainted |-> FALSE, order |-> <<>>, limit |-> Unlimited]

Building == q # None /\ c = None

(* Relationships, Nodes: a query of either transaction handle. *)
NewQuery(on, h) ==
    /\ calls < MaxCalls /\ q = None
    /\ h = "retargeted" => tx.target = "other"
    /\ q' = NewQ(on, h) /\ calls' = calls + 1
    /\ UNCHANGED <<db, foreign, view, serving, inflight, tx, c, writes>>

Filter(x) ==
    /\ Building /\ Len(q.criteria) < MaxFilters
    /\ q' = [q EXCEPT !.criteria = Append(@, x)]
    /\ UNCHANGED <<db, foreign, view, serving, inflight, tx, c, calls, writes>>

(* OrderBy: a node query is tainted by any order, a relationship query by any *)
(* but the ascending edge id.                                                 *)
OrderBy(by) ==
    /\ Building /\ q.order = <<>>
    /\ q' = [q EXCEPT !.order = by, !.tainted = @ \/ q.on = "node" \/ ~OrderIsEdgeIDAscending(by)]
    /\ UNCHANGED <<db, foreign, view, serving, inflight, tx, c, calls, writes>>

(* Limit; Offset taints the same way. *)
Limit(n) ==
    /\ Building /\ q.limit = Unlimited
    /\ q' = [q EXCEPT !.limit = n, !.tainted = TRUE]
    /\ UNCHANGED <<db, foreign, view, serving, inflight, tx, c, calls, writes>>

(* WithGraph: the inner transaction retargets itself, so the receiver is *)
(* declined with the wrapper it returns.                                 *)
WithGraph ==
    /\ tx.target = "default"
    /\ tx' = [tx EXCEPT !.target = "other", !.declined = [h \in Handles |-> TRUE]]
    /\ UNCHANGED <<db, foreign, view, serving, inflight, q, c, calls, writes>>

Moments == IF inflight = None THEN {db} ELSE {db, inflight.before}
SawCommit(g) == IF c = None THEN c ELSE [c EXCEPT !.moments = @ \cup {g}]

(* A write through the read transaction: CreateNode, UpdateNode, Raw, a query *)
(* with an updating clause, mutating Cypher text. It is noted, and commits.   *)
TxWrite(g) ==
    /\ writes < MaxWrites /\ g # db /\ tx.target = "default"
    /\ tx' = [tx EXCEPT !.wrote = TRUE]
    /\ db' = g /\ writes' = writes + 1 /\ c' = SawCommit(g)
    /\ UNCHANGED <<foreign, view, serving, inflight, q, calls>>

(* Update and Delete of the query being built taint it as well. *)
QueryWrite(g) ==
    /\ Building /\ writes < MaxWrites /\ g # db /\ tx.target = "default"
    /\ q' = [q EXCEPT !.tainted = TRUE]
    /\ tx' = [tx EXCEPT !.wrote = TRUE]
    /\ db' = g /\ writes' = writes + 1
    /\ UNCHANGED <<foreign, view, serving, inflight, c, calls>>

Rebuilt == [kinds |-> db.kinds, edges |-> db.edges, dead |-> {}]

(* The end of ReadTransaction: settle applies noted writes as a fallback, *)
(* which rebuilds the view.                                               *)
EndTx ==
    /\ q = None /\ tx # NewTx
    /\ tx' = NewTx
    /\ IF tx.wrote THEN view' = Rebuilt /\ serving' = TRUE /\ inflight' = None
       ELSE UNCHANGED <<view, serving, inflight>>
    /\ UNCHANGED <<db, foreign, q, c, calls, writes>>

(* The request's context is cancelled, at any time. *)
Cancel ==
    /\ ~tx.cancelled /\ q # None
    /\ tx' = [tx EXCEPT !.cancelled = TRUE]
    /\ UNCHANGED <<db, foreign, view, serving, inflight, q, c, calls, writes>>

------------------------------------------------------------------------------
(* Terminal calls. *)

Wrapped == ~q.tainted /\ Serveable(q.handle) /\ Len(q.criteria) = 1 /\ ~tx.cancelled

(* What PostgreSQL is asked when the call is not served. *)
Asked(op, items) ==
    [on |-> q.on, op |-> op, items |-> items, criteria |-> q.criteria, order |-> q.order, limit |-> q.limit, target |-> tx.target]

Served(op, items, src) ==
    [st |-> IF op = "count" THEN "whole" ELSE IF op \in RowOps THEN "pull" ELSE "feed",
     src |-> src, asked |-> Asked(op, items), moments |-> Moments, pos |-> 0, unchecked |-> 0,
     got |-> IF op = "count" THEN <<Len(Rows(src))>> ELSE <<>>,
     buf |-> <<>>, feeder |-> IF op \in {"count"} \cup RowOps THEN "none" ELSE "run", failed |-> FALSE, closed |-> FALSE]

(* Declined: the inner query answers, and the wrapper is done. *)
Decline == q' = None /\ c' = None

NodeCall(op) ==
    /\ Building /\ q.on = "node"
    /\ LET spec == FromNodeCriteria(q.criteria[1]) IN
       IF Wrapped /\ spec.ok /\ ServeGate /\ NodeSpecServes(spec)
       THEN c' = Served(op, <<>>, NodeSource(op, spec)) /\ UNCHANGED q
       ELSE Decline
    /\ UNCHANGED <<db, foreign, view, serving, inflight, tx, calls, writes>>

Ordered == q.order # <<>>

(* Count, FetchIDs, FetchTriples, FetchKinds do not serve an ordered query. *)
RelCall(op) ==
    /\ Building /\ q.on = "rel"
    /\ LET spec == FromRelCriteria(q.criteria[1]) IN
       IF Wrapped /\ ~Ordered /\ spec.ok /\ ServeGate /\ RelSpecServes(spec) /\ (op = "kinds" => KindTableWhole)
       THEN c' = Served(op, <<>>, RelSource(op, spec, FALSE)) /\ UNCHANGED q
       ELSE Decline
    /\ UNCHANGED <<db, foreign, view, serving, inflight, tx, calls, writes>>

(* Query serves one too, under one of the three projections. *)
QueryCall(items) ==
    /\ Building /\ q.on = "rel"
    /\ LET spec == FromRelCriteria(q.criteria[1])
           proj == FromReturning(items) IN
       IF /\ Wrapped /\ proj \in RowOps /\ spec.ok /\ ServeGate /\ RelSpecServes(spec)
          /\ RowsServe(proj, spec, Ordered)
          /\ proj # "start_end" => KindTableWhole
       THEN c' = Served(proj, items, RelSource(proj, spec, Ordered)) /\ UNCHANGED q
       ELSE Decline
    /\ UNCHANGED <<db, foreign, view, serving, inflight, tx, calls, writes>>

------------------------------------------------------------------------------
(* Streaming. *)

Done == tx.cancelled \/ c.closed
Left == c.pos < Len(Rows(c.src))

(* feed: one value submitted onto the channel. *)
Submit ==
    /\ c # None /\ c.feeder = "run" /\ Left /\ Len(c.buf) < RowCursorBuffer
    /\ c' = [c EXCEPT !.buf = Append(@, Rows(c.src)[c.pos + 1]), !.pos = @ + 1]

(* channels.Submit returned false: the context was done, chosen over a channel *)
(* with room or the only case ready.                                           *)
SubmitFails ==
    /\ c # None /\ c.feeder = "run" /\ Left /\ Done
    /\ c' = [c EXCEPT !.feeder = "ended", !.failed = TRUE]

Exhausted ==
    /\ c # None /\ c.feeder = "run" /\ ~Left
    /\ c' = [c EXCEPT !.feeder = "ended"]

Feed ==
    /\ Submit \/ SubmitFails \/ Exhausted
    /\ UNCHANGED <<db, foreign, view, serving, inflight, tx, q, calls, writes>>

(* The delegate's loop over Chan(), and its Error() once the channel closed. *)
Receive ==
    /\ c # None /\ c.st = "feed"
    /\ \/ c.buf # <<>> /\ c' = [c EXCEPT !.got = Append(@, Head(c.buf)), !.buf = Tail(@)]
       \/ /\ c.buf = <<>> /\ c.feeder = "ended"
          /\ c' = [c EXCEPT !.st = IF c.failed THEN "failed" ELSE "whole", !.closed = TRUE]
    /\ UNCHANGED <<db, foreign, view, serving, inflight, tx, q, calls, writes>>

\* Broken on purpose: the wrapper leaves the cursor open.
ReturnUnclosed ==
    /\ c # None /\ c.st \in {"feed", "pull"}
    /\ c' = [c EXCEPT !.st = "returned"]
    /\ UNCHANGED <<db, foreign, view, serving, inflight, tx, q, calls, writes>>

(* The delegate returns without draining; the wrapper closes the cursor. *)
ReturnEarly ==
    /\ c # None /\ c.st \in {"feed", "pull"}
    /\ c' = [c EXCEPT !.st = "returned", !.closed = TRUE]
    /\ UNCHANGED <<db, foreign, view, serving, inflight, tx, q, calls, writes>>

(* rowResult.Next: the context is read every CancelCheckInterval rows. *)
Next1 ==
    LET checks == c.unchecked + 1 >= CancelCheckInterval
        unchecked == IF checks THEN 0 ELSE c.unchecked + 1 IN
    CASE checks /\ tx.cancelled -> [c EXCEPT !.unchecked = unchecked, !.st = "failed"]
      [] ~(checks /\ tx.cancelled) /\ Left ->
             [c EXCEPT !.unchecked = unchecked, !.pos = @ + 1, !.got = Append(@, Rows(c.src)[c.pos + 1])]
      [] OTHER -> [c EXCEPT !.unchecked = unchecked, !.st = "whole"]

Pull ==
    /\ c # None /\ c.st = "pull"
    /\ c' = Next1
    /\ UNCHANGED <<db, foreign, view, serving, inflight, tx, q, calls, writes>>

(* The caller's query is over; the next one starts once no feeder runs. *)
Release ==
    /\ c # None /\ c.st \notin {"feed", "pull"} /\ c.feeder # "run"
    /\ q' = None /\ c' = None
    /\ UNCHANGED <<db, foreign, view, serving, inflight, tx, calls, writes>>

------------------------------------------------------------------------------
(* Other writers, as the write path leaves them (modules WritePath, Rebuild):  *)
(* a commit, then the view that carries it before the writing call returns.    *)

OtherCommit(g) ==
    /\ writes < MaxWrites /\ inflight = None /\ g # db
    /\ inflight' = [before |-> db] /\ db' = g /\ writes' = writes + 1 /\ c' = SawCommit(g)
    /\ UNCHANGED <<foreign, view, serving, tx, q, calls>>

(* The delta is applied. It carries nothing of this transaction's own writes, *)
(* whose settling rebuilds the view.                                          *)
OtherPublish ==
    /\ inflight # None /\ serving
    /\ view' = IF tx.wrote THEN view
               ELSE [kinds |-> db.kinds, edges |-> db.edges, dead |-> Dense(view) \ DOMAIN db.kinds]
    /\ inflight' = None
    /\ UNCHANGED <<db, foreign, serving, tx, q, c, calls, writes>>

(* The delta cannot be applied: the engine falls back, the writer returns. *)
OtherFallsBack ==
    /\ inflight # None
    /\ serving' = FALSE /\ inflight' = None
    /\ UNCHANGED <<db, foreign, view, tx, q, c, calls, writes>>

Recover ==
    /\ ~serving /\ ~tx.wrote /\ inflight = None
    /\ serving' = TRUE /\ view' = Rebuilt
    /\ UNCHANGED <<db, foreign, inflight, tx, q, c, calls, writes>>

------------------------------------------------------------------------------

Init ==
    /\ db \in Graphs /\ foreign \in Foreign
    /\ view = [kinds |-> db.kinds, edges |-> db.edges, dead |-> {}]
    /\ serving = TRUE /\ inflight = None
    /\ tx = NewTx /\ q = None /\ c = None
    /\ calls = 0 /\ writes = 0

Caller ==
    \/ \E on \in {"node", "rel"}, h \in Handles : NewQuery(on, h)
    \/ \E x \in IF q = None THEN {} ELSE IF q.on = "node" THEN NodeCriteria ELSE RelCriteria : Filter(x)
    \/ \E op \in NodeOps : NodeCall(op)
    \/ \E op \in RelOps : RelCall(op)
    \/ \E items \in Projections : QueryCall(items)
    \/ Receive \/ Pull \/ Release
Shaping ==
    /\ Clauses
    /\ \/ \E by \in Orders : OrderBy(by)
       \/ Limit(1)
       \/ WithGraph \/ EndTx \/ Cancel \/ ReturnEarly
Writing ==
    \/ \E g \in Graphs : TxWrite(g) \/ QueryWrite(g) \/ OtherCommit(g)
    \/ OtherPublish \/ OtherFallsBack \/ Recover

Next == Caller \/ Shaping \/ Feed \/ Writing

(* The feeder is a goroutine that runs whenever it can. *)
Spec == Init /\ [][Next]_vars /\ WF_vars(Feed)

------------------------------------------------------------------------------
(* What PostgreSQL answers: every conjunct holds of the row, in the graph the  *)
(* transaction targets. Reads are not scoped by graph, so a default target     *)
(* spans the database.                                                         *)

KindHolds(ks, x) == IF x.all THEN x.kinds # {} /\ x.kinds \subseteq ks ELSE x.kinds \cap ks # {}

HoldsOfNode(g, n, x) ==
    CASE x.t = "kind" -> x.var = "n" /\ KindHolds(g.kinds[n], x)
      [] x.t = "id" -> x.var = "n" /\ (n \in x.ids <=> x.op # "<>")
      [] OTHER -> FALSE

HoldsOfEdge(g, e, x) ==
    LET entity == [s |-> e.s, e |-> e.e, r |-> e.id] IN
    CASE x.t = "kind" /\ x.var \in {"s", "e"} -> KindHolds(g.kinds[entity[x.var]], x)
      [] x.t = "kind" /\ x.var = "r" -> e.kind \in x.kinds
      [] x.t = "id" /\ x.var # "n" -> (entity[x.var] \in x.ids <=> x.op # "<>")
      [] OTHER -> FALSE

Spanning(g, target) ==
    IF target = "other" THEN foreign
    ELSE [kinds |-> [n \in DOMAIN g.kinds \cup DOMAIN foreign.kinds |->
                        IF n \in DOMAIN g.kinds THEN g.kinds[n] ELSE foreign.kinds[n]],
          edges |-> g.edges \cup foreign.edges]

Conjuncts(a) == UNION {ToSet(a.criteria[i]) : i \in DOMAIN a.criteria}

MatchesOf(a, g) ==
    IF a.on = "node" THEN {n \in DOMAIN g.kinds : \A x \in Conjuncts(a) : HoldsOfNode(g, n, x)}
    ELSE {e \in g.edges : \A x \in Conjuncts(a) : HoldsOfEdge(g, e, x)}

Entity(m, v) == IF v = "s" THEN m.s ELSE IF v = "e" THEN m.e ELSE IF v = "r" THEN m.id ELSE m

ColumnOf(g, e, col) ==
    CASE col.f = "id" -> Entity(e, col.v)
      [] col.f = "labels" -> g.kinds[Entity(e, col.v)]
      [] col.f = "type" -> e.kind

PgRow(a, g, m) ==
    CASE a.items # <<>> -> [i \in DOMAIN a.items |-> ColumnOf(g, m, a.items[i])]
      [] a.items = <<>> /\ a.on = "node" -> IF a.op = "kinds" THEN <<m, g.kinds[m]>> ELSE <<m>>
      [] OTHER -> SubSeq(<<m.id, m.s, m.e, m.kind>>, 1, CASE a.op = "ids" -> 1 [] a.op = "triples" -> 3 [] a.op = "kinds" -> 4)

(* m comes before w under the order asked for. *)
Before(order, m, w) ==
    \E i \in DOMAIN order :
        /\ \A j \in 1..(i - 1) : Entity(m, order[j].v) = Entity(w, order[j].v)
        /\ IF order[i].asc THEN Entity(m, order[i].v) < Entity(w, order[i].v) ELSE Entity(m, order[i].v) > Entity(w, order[i].v)

(* The answer `got` is one PostgreSQL may give to what was asked of graph g. *)
IsAnswer(a, g, got) ==
    LET S == MatchesOf(a, g) IN
    IF a.op = "count" THEN got = <<Cardinality(S)>>
    ELSE /\ Len(got) = IF Cardinality(S) < a.limit THEN Cardinality(S) ELSE a.limit
         /\ \A i \in DOMAIN got :
               Cardinality({j \in DOMAIN got : got[j] = got[i]}) <= Cardinality({m \in S : PgRow(a, g, m) = got[i]})
         /\ a.order # <<>> =>
               LET sorted == SetToSortSeq(S, LAMBDA m, w : Before(a.order, m, w)) IN
               \A i \in DOMAIN got : got[i] = PgRow(a, g, sorted[i])

(* A call the engine served, whose cursor the caller drained to its end with   *)
(* no error, gave an answer PostgreSQL could have given at one moment of the   *)
(* call: the whole of it, in the order asked for, of the graph the transaction *)
(* targets, with every write that had returned before the call and every write *)
(* made earlier through the same transaction.                                  *)
ServedAnswerIsPostgres ==
    c # None /\ c.st = "whole" => \E g \in c.moments : IsAnswer(c.asked, Spanning(g, c.asked.target), c.got)

(* Once the wrapper has returned, the goroutine that feeds its cursor ends, *)
(* however much of the answer was left unread.                              *)
FeederEnds == (c # None /\ c.st \notin {"feed", "pull"} /\ c.feeder = "run") ~> (c = None \/ c.feeder # "run")

====
