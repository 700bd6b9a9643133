------------------------------ MODULE ReadBack ------------------------------
(***************************************************************************)
(* One apply at a time reads a write's keys back from PostgreSQL, query by  *)
(* query, while other writers commit between the queries.  Each call of the *)
(* write observer commits rows and records what it can name of them: ids,   *)
(* object ids, triples of ids or of object ids, kind filters, or nothing    *)
(* (a fallback).  Kind names and kind ids stand for each other; a name      *)
(* resolves once its kind is registered.                                   *)
(***************************************************************************)
EXTENDS PgGraph

CONSTANTS ObjectIds, NodeKindSets,
          NodeCriteria,          \* [include, exclude] filters of DeleteNodesByKinds
          EdgeCriteria,          \* kind sets of relationship deletes
          FanoutCap,             \* readbackEdgeFanoutCap
          ObjectIdsMove          \* may an object id pass from one node to another?

VARIABLES db,          \* [nodes, edges]: each id Unborn, Tombstone or its row
          registered,  \* kinds of the kind table
          changes,     \* change sets of finished writes not yet applied, in no order
          commits,     \* commits so far
          snap,        \* e.snap, the published view
          reader,      \* the apply under applyMu: NoReader, or its progress
          fallback,    \* NotFallen, or why the engine left serving
          carried,     \* history: <<object id, node>> pairs that were ever true
          skipped      \* history: a failed batch's landed edge could not be named

readVars == <<db, registered, changes, commits, snap, reader, fallback, carried, skipped>>

NoReader == [pc |-> "none"]
NotFallen == [cause |-> "none", raced |-> FALSE]
Serving == fallback = NotFallen

KindsIn(g) ==
    (UNION {Rows(g.nodes)[n].kinds : n \in DOMAIN Rows(g.nodes)}) \cup {Rows(g.edges)[e].kind : e \in DOMAIN Rows(g.edges)}

(* Who carries an object id; the upserts find a node by it, so that it is one. *)
Carriers(nodes) == {<<nodes[n].oid, n>> : n \in {n \in DOMAIN Rows(nodes) : nodes[n].oid # NoOID}}
OneNodeEach(pairs) == \A p, q \in pairs : p[1] = q[1] => p = q

(* Ids are numbers, object ids are not empty, and the rows loaded at start are  *)
(* rows of a graph whose edges have their ends and whose object ids are unique. *)
IsNode(row) == row = [kinds |-> row.kinds, oid |-> row.oid]
IsEdge(row) == row = [start |-> row.start, end |-> row.end, kind |-> row.kind]
ReadBackConstants ==
    /\ NodeIds \subseteq Nat /\ IsFiniteSet(NodeIds) /\ EdgeIds \subseteq Nat /\ NoOID \notin ObjectIds
    /\ DOMAIN Base0.nodes \subseteq NodeIds /\ DOMAIN Base0.edges \subseteq EdgeIds
    /\ \A n \in DOMAIN Base0.nodes : IsNode(Base0.nodes[n])
    /\ \A e \in DOMAIN Base0.edges : /\ IsEdge(Base0.edges[e])
                                     /\ {Base0.edges[e].start, Base0.edges[e].end} \subseteq DOMAIN Base0.nodes
    /\ OneNodeEach(Carriers(Base0.nodes))

ReadInit ==
    /\ db = [nodes |-> [n \in NodeIds |-> IF n \in DOMAIN Base0.nodes THEN Base0.nodes[n] ELSE Unborn],
             edges |-> [e \in EdgeIds |-> IF e \in DOMAIN Base0.edges THEN Base0.edges[e] ELSE Unborn]]
    /\ registered = KindsIn(db)
    /\ snap = NewView(BuildBase(Base0.nodes, Base0.edges, registered))
    /\ changes = {} /\ commits = 0
    /\ reader = NoReader /\ fallback = NotFallen /\ carried = Carriers(db.nodes) /\ skipped = FALSE

(***************************************************************************)
(* Change sets.  raced is history: since this write committed, another      *)
(* re-keyed or deleted a node.  landed: its edge really committed.          *)
(***************************************************************************)
NoKeys == [nodes |-> {}, oids |-> {}, edges |-> {}, triples |-> {}, oidTriples |-> {},
           nodeCriteria |-> {}, edgeCriteria |-> {}, opaque |-> FALSE, incomplete |-> FALSE,
           raced |-> FALSE, landed |-> FALSE]
Names(cs) == [f \in {"nodes", "oids", "edges", "triples", "oidTriples", "nodeCriteria", "edgeCriteria"} |-> cs[f]]
EmptyChanges(cs) == Names(cs) = Names(NoKeys)

RecordFallback == [NoKeys EXCEPT !.opaque = TRUE]
RecordNodeIDs(ids) == [NoKeys EXCEPT !.nodes = ids]
RecordNodeObjectID(oid) == [NoKeys EXCEPT !.oids = {oid}]
RecordEdgeID(e) == [NoKeys EXCEPT !.edges = {e}]
RecordEdgeTriple(row) == [NoKeys EXCEPT !.triples = {row}]
RecordDeleteNodesByKinds(c) == [NoKeys EXCEPT !.nodeCriteria = {c}]
(* Matchers that admit no kind in common delete nothing and record nothing. *)
RecordDeleteRelationshipsByKinds(ks) == IF ks = {} THEN NoKeys ELSE [NoKeys EXCEPT !.edgeCriteria = {ks}]

(* The object id keys a node whose id the observed call does not know. *)
IdentityKeys(oid) == IF oid = NoOID THEN RecordFallback ELSE RecordNodeObjectID(oid)
(* Only the filter id(n) IN $ids names the rows a query changes. *)
CriteriaKeys(ids, recognised) == IF recognised THEN RecordNodeIDs(ids) ELSE RecordFallback

UnbornIn(table) == {x \in DOMAIN table : table[x] = Unborn}
NextId(table) == Min(UnbornIn(table))
NodesUnder(nodes, oid) == {n \in DOMAIN Rows(nodes) : nodes[n].oid = oid}
EdgesOf(edges, ns) == {e \in DOMAIN Rows(edges) : {edges[e].start, edges[e].end} \cap ns # {}}
Without(table, ids) == [x \in DOMAIN table |-> IF x \in ids THEN Tombstone ELSE table[x]]

Race(cs) == [cs EXCEPT !.raced = TRUE]

(* The call commits, records its keys and finishes; its apply comes later. *)
Commit(nodes, edges, kinds, keys, races) ==
    /\ commits' = commits + 1
    /\ carried' = carried \cup Carriers(nodes)
    /\ ObjectIdsMove \/ OneNodeEach(carried')
    /\ db' = [nodes |-> nodes, edges |-> edges]
    /\ registered' = registered \cup kinds
    /\ changes' = (IF races THEN {Race(cs) : cs \in changes} ELSE changes) \cup {keys}
    /\ reader' = IF races /\ reader.pc # "none" THEN [reader EXCEPT !.cs = Race(@)] ELSE reader
    /\ UNCHANGED <<snap, fallback, skipped>>

(* Tx CreateNode and batch CreateNodes learn the id; batch CreateNode does not. *)
CreateNode == \E kinds \in NodeKindSets, oid \in ObjectIds \cup {NoOID} :
    /\ UnbornIn(db.nodes) # {}
    /\ LET n == NextId(db.nodes) IN
       \E keys \in {RecordNodeIDs({n}), IdentityKeys(oid)} :
          Commit([db.nodes EXCEPT ![n] = [kinds |-> kinds, oid |-> oid]], db.edges, kinds, keys, FALSE)

(* Tx UpdateNode, batch UpdateNodes: may re-key. *)
UpdateNode == \E n \in DOMAIN Rows(db.nodes), kinds \in NodeKindSets, oid \in ObjectIds :
    /\ db.nodes[n] # [kinds |-> kinds, oid |-> oid]
    /\ Commit([db.nodes EXCEPT ![n] = [kinds |-> kinds, oid |-> oid]], db.edges, kinds,
              RecordNodeIDs({n}), db.nodes[n].oid # oid)

(* Upsert by object id: the nodes that carry it, or a new one. *)
Upserted(nodes, oid, kinds) ==
    IF NodesUnder(nodes, oid) = {} THEN [nodes EXCEPT ![NextId(nodes)] = [kinds |-> kinds, oid |-> oid]]
    ELSE [n \in DOMAIN nodes |-> IF n \in NodesUnder(nodes, oid) THEN [nodes[n] EXCEPT !.kinds = @ \cup kinds] ELSE nodes[n]]
UpdateNodeBy == \E oid \in ObjectIds, kinds \in NodeKindSets :
    /\ NodesUnder(db.nodes, oid) # {} \/ UnbornIn(db.nodes) # {}
    /\ Commit(Upserted(db.nodes, oid, kinds), db.edges, kinds, IdentityKeys(oid), FALSE)

(* A trigger deletes the edges of a deleted node. *)
Deleted(gone, keys) == Commit(Without(db.nodes, gone), Without(db.edges, EdgesOf(db.edges, gone)), {}, keys, TRUE)
DeleteNodeByID == \E n \in DOMAIN Rows(db.nodes) : Deleted({n}, RecordNodeIDs({n}))

(* NodeQuery.Delete (NodeQuery.Update records alike) over any filter. *)
NodeQueryDelete == \E ids \in SUBSET DOMAIN Rows(db.nodes), recognised \in BOOLEAN :
    /\ Cardinality(ids) >= 2
    /\ Deleted(ids, CriteriaKeys(ids, recognised))

(* Tx CreateRelationshipByIDs learns the edge's id; the batch names the triple. *)
CreateRelationshipByIDs == \E s, t \in DOMAIN Rows(db.nodes), k \in EdgeKinds :
    LET row == [start |-> s, end |-> t, kind |-> k] IN
    /\ UnbornIn(db.edges) # {}
    /\ row \notin Range(Rows(db.edges))
    /\ LET e == NextId(db.edges) IN
       \E keys \in {RecordEdgeID(e), RecordEdgeTriple(row)} :
          Commit(db.nodes, [db.edges EXCEPT ![e] = row], {k}, keys, FALSE)

DeleteRelationship == \E e \in DOMAIN Rows(db.edges) :
    Commit(db.nodes, Without(db.edges, {e}), {}, RecordEdgeID(e), FALSE)

(* Cypher that mutates, Raw, WithGraph: nothing of it can be named. *)
OpaqueQuery == \E e \in DOMAIN Rows(db.edges) :
    Commit(db.nodes, Without(db.edges, {e}), {}, RecordFallback, FALSE)

(* recordRelationshipUpsertIdentity, then settleBatchOutcome. *)
UpsertKeys(so, to, k, failed) ==
    [NoKeys EXCEPT !.oids = {so, to}, !.oidTriples = {[start |-> so, end |-> to, kind |-> k]}, !.incomplete = failed]

(* Batch.UpdateRelationshipBy creates what is missing.  A failed batch may   *)
(* have flushed all of it, the nodes alone or nothing, and its scope says    *)
(* incomplete.                                                             *)
UpdateRelationshipBy == \E so, to \in ObjectIds, k \in EdgeKinds, kinds \in NodeKindSets :
                        \E failed \in BOOLEAN, flushed \in {"edge", "nodes", "nothing"} :
    /\ ~failed => flushed = "edge"
    /\ UnbornIn(db.edges) # {}
    /\ Cardinality(UnbornIn(db.nodes)) >= Cardinality({o \in {so, to} : NodesUnder(db.nodes, o) = {}})
    /\ LET nodes == IF flushed = "nothing" THEN db.nodes ELSE Upserted(Upserted(db.nodes, so, kinds), to, kinds)
           keys == [UpsertKeys(so, to, k, failed) EXCEPT !.landed = flushed = "edge"]
       IN  IF flushed # "edge" THEN Commit(nodes, db.edges, IF flushed = "nothing" THEN {} ELSE kinds, keys, FALSE)
           ELSE \E s \in NodesUnder(nodes, so), t \in NodesUnder(nodes, to) :
                  LET row == [start |-> s, end |-> t, kind |-> k]
                  IN  Commit(nodes, IF row \in Range(Rows(db.edges)) THEN db.edges
                                    ELSE [db.edges EXCEPT ![NextId(db.edges)] = row], kinds \cup {k}, keys, FALSE)

(* Driver.DeleteNodesByKinds: an empty include means every node. *)
Matches(c, kinds) == (c.include = {} \/ kinds \cap c.include # {}) /\ kinds \cap c.exclude = {}
DeleteNodesByKinds == \E c \in NodeCriteria :
    LET gone == {n \in DOMAIN Rows(db.nodes) : Matches(c, db.nodes[n].kinds)}
    IN  Deleted(gone, RecordDeleteNodesByKinds(c))

(* Driver.DeleteRelationshipsByKinds and RelationshipQuery.Delete, whose     *)
(* conjunction of matchers deletes, and records, the kinds they all admit.   *)
RelationshipQueryKinds(a, b) == a \cap b
DeleteRelationshipsByKinds == \E a, b \in EdgeCriteria, failed \in BOOLEAN :
    LET ks == RelationshipQueryKinds(a, b) IN
    Commit(db.nodes, Without(db.edges, {e \in DOMAIN Rows(db.edges) : db.edges[e].kind \in ks}), {},
           IF failed THEN RecordFallback ELSE RecordDeleteRelationshipsByKinds(ks), FALSE)

Writer == \/ CreateNode \/ UpdateNode \/ UpdateNodeBy \/ DeleteNodeByID \/ NodeQueryDelete \/ OpaqueQuery
          \/ CreateRelationshipByIDs \/ DeleteRelationship \/ UpdateRelationshipBy
          \/ DeleteNodesByKinds \/ DeleteRelationshipsByKinds

(***************************************************************************)
(* What each query of the read-back asks, given the answers so far.         *)
(***************************************************************************)
(* readBackNodesByID, readBackEdgesByID: the rows found, over those known.  *)
(* rereadByID skips what an earlier query answered either way.              *)
Found(table, ids) == Restrict(table, ids \cap DOMAIN Rows(table))
ReadNodes(r, ids) ==
    [r EXCEPT !.nodes = Over(Found(db.nodes, ids), @), !.absentNodes = @ \cup (ids \ DOMAIN Rows(db.nodes))]
ReadEdges(r, ids) ==
    [r EXCEPT !.edges = Over(Found(db.edges, ids), @), !.absentEdges = @ \cup (ids \ DOMAIN Rows(db.edges))]
UnansweredNodes(r, ids) == ids \ (DOMAIN r.nodes \cup r.absentNodes)
UnansweredEdges(r, ids) == ids \ (DOMAIN r.edges \cup r.absentEdges)

(* resolveKindIDs: the view's table first, then PostgreSQL's. *)
Resolved(kinds) == kinds \cap (KindTable(snap) \cup registered)
TripleKinds(cs) == {t.kind : t \in cs.triples \cup cs.oidTriples}
CriteriaKinds(cs) == (UNION {c.include \cup c.exclude : c \in cs.nodeCriteria}) \cup (UNION cs.edgeCriteria)

(* readBackEdgesByTriple; an unregistered kind is absent without a query and *)
(* its sentinel tombstones nothing.                                        *)
Pairs(starts, ends, k) == {[start |-> s, end |-> t, kind |-> k] : s \in starts, t \in ends}
ReadTriples(r, keys) ==
    LET known == {t \in keys : t.kind \in r.tripleKinds}
        found == {e \in DOMAIN Rows(db.edges) : db.edges[e] \in known}
    IN  [r EXCEPT !.edges = Over(Found(db.edges, found), @), !.asked = @ \cup known,
                  !.absentTriples = @ \cup (known \ {db.edges[e] : e \in found})]
KeyedTriples(r) ==
    r.cs.triples \cup UNION {Pairs(r.oidToIDs[t.start], r.oidToIDs[t.end], t.kind) : t \in r.cs.oidTriples}

(* collectViewCandidates: what this view may hold and the write removed. *)
UnresolvedExclude(r) == \E c \in r.cs.nodeCriteria : ~(c.exclude \subseteq r.criteriaKinds)
CriteriaNodes(c) ==
    LET base == IF c.include = {} THEN AliveNodes(snap) ELSE UNION {NodesOfKind(snap, k) : k \in c.include}
    IN  {n \in base : Alive(snap, n) /\ KindIDsOf(snap, n) \cap c.exclude = {}}
CandidateNodes(r) ==
    (UNION {NodesByObjectID(snap, oid) : oid \in {oid \in r.cs.oids : r.oidToIDs[oid] = {}}})
      \cup (UNION {CriteriaNodes(c) : c \in r.cs.nodeCriteria})

\* Broken on purpose: only edges a reader can see are candidates.
CandidateEdgesVisible(r) == {t[4] : t \in {t \in VisibleEdges(snap) : t[3] \in UNION r.cs.edgeCriteria}}

(* addEdgeKindCriteria: stored rows, also those that do not resolve yet. *)
CandidateEdges(r) ==
    LET stored == Over(Restrict(Delta(snap).edges, Upserts(Delta(snap).edges)),
                       Restrict(snap.base.edges, DOMAIN snap.base.edges \ DOMAIN Delta(snap).edges))
    IN  {e \in DOMAIN stored : stored[e].kind \in UNION r.cs.edgeCriteria}

(* rekeyedTripleKeys: an object id on no row may be a node re-keyed since,  *)
(* which the view knows and the re-read found.                             *)
Nameable(r, oid) ==
    IF r.oidToIDs[oid] # {} THEN r.oidToIDs[oid] ELSE NodesByObjectID(snap, oid) \cap DOMAIN r.nodes
Deferred(r) == {t \in r.cs.oidTriples : r.oidToIDs[t.start] = {} \/ r.oidToIDs[t.end] = {}}
TwoEnded(r) == {t \in Deferred(r) : Nameable(r, t.start) # {} /\ Nameable(r, t.end) # {}}
OneEnded(r, side) ==
    {t \in Deferred(r) \ TwoEnded(r) : t.kind \in r.tripleKinds /\ Nameable(r, t[side]) # {}}
Unnameable(r) == Deferred(r) \ (TwoEnded(r) \cup OneEnded(r, "start") \cup OneEnded(r, "end"))
Fanouts(r, side) ==
    {[side |-> side, kind |-> t.kind,
      ids |-> UNION {Nameable(r, u[side]) : u \in {u \in OneEnded(r, side) : u.kind = t.kind}}] : t \in OneEnded(r, side)}
RekeyedTriples(r) ==
    (UNION {Pairs(Nameable(r, t.start), Nameable(r, t.end), t.kind) : t \in TwoEnded(r)}) \ r.asked

(***************************************************************************)
(* Apply, up to its read-back, and the queries in order; one with nothing   *)
(* to ask is not sent.                                                     *)
(***************************************************************************)
Stages == <<"nodesByID", "nodesByOID", "edgesByID", "tripleKinds", "triples", "criteriaKinds",
            "candidateNodes", "candidateEdges", "rekeyed", "fanouts", "endpoints", "publish">>
HasQuery(pc, r) ==
    \/ pc = "nodesByID" /\ r.cs.nodes # {}
    \/ pc = "nodesByOID" /\ r.cs.oids # {}
    \/ pc = "edgesByID" /\ r.cs.edges # {}
    \/ pc = "tripleKinds" /\ r.tripleKinds # TripleKinds(r.cs)
    \/ pc = "triples" /\ KeyedTriples(r) # {}
    \/ pc = "criteriaKinds" /\ r.criteriaKinds # CriteriaKinds(r.cs)
    \/ pc = "candidateNodes" /\ (UnresolvedExclude(r) \/ UnansweredNodes(r, CandidateNodes(r)) # {})
    \/ pc = "candidateEdges" /\ UnansweredEdges(r, CandidateEdges(r)) # {}
    \/ pc = "rekeyed" /\ Deferred(r) # {}
    \/ pc = "fanouts" /\ r.fanouts # {}
    \/ pc = "endpoints" /\ UnansweredNodes(r, r.discovered) # {}
    \/ pc = "publish"
After(pc) == IF pc = "start" THEN DOMAIN Stages ELSE {i \in DOMAIN Stages : \E j \in 1..(i - 1) : Stages[j] = pc}
From(pc, r) == [r EXCEPT !.pc = Stages[Min({i \in After(pc) : HasQuery(Stages[i], r)})]]

FallBack(cause, cs) ==
    /\ fallback' = [cause |-> cause, raced |-> cs.raced]
    /\ reader' = NoReader

BeginReadBack(cs) ==
    From("start", [pc |-> "start", cs |-> cs, nodes |-> Empty, edges |-> Empty,
                   absentNodes |-> {}, absentEdges |-> {}, absentTriples |-> {}, oidToIDs |-> [oid \in cs.oids |-> {}],
                   tripleKinds |-> TripleKinds(cs) \cap KindTable(snap),
                   criteriaKinds |-> CriteriaKinds(cs) \cap KindTable(snap),
                   asked |-> {}, fanouts |-> {}, discovered |-> {}, unnameable |-> FALSE, overCap |-> FALSE])

StartApply == \E cs \in changes :
    /\ Serving /\ reader = NoReader
    /\ changes' = changes \ {cs}
    /\ \/ cs.opaque /\ FallBack("recorded", cs)
       \/ ~cs.opaque /\ EmptyChanges(cs) /\ UNCHANGED <<reader, fallback>>
       \/ ~cs.opaque /\ ~EmptyChanges(cs) /\ reader' = BeginReadBack(cs) /\ UNCHANGED fallback
    /\ UNCHANGED <<db, registered, commits, snap, carried, skipped>>

Step(pc, next) ==
    /\ reader.pc = pc
    /\ reader' = From(pc, next)
    /\ UNCHANGED <<db, registered, changes, commits, snap, fallback, carried, skipped>>

ReadNodesByID == Step("nodesByID", ReadNodes(reader, reader.cs.nodes))

ReadNodesByObjectID ==
    LET to == [oid \in reader.cs.oids |-> NodesUnder(db.nodes, oid)]
    IN  Step("nodesByOID", [reader EXCEPT !.nodes = Over(Found(db.nodes, UNION Range(to)), @), !.oidToIDs = to])

ReadEdgesByID == Step("edgesByID", ReadEdges(reader, reader.cs.edges))

ResolveTripleKinds == Step("tripleKinds", [reader EXCEPT !.tripleKinds = Resolved(TripleKinds(reader.cs))])

ReadEdgesByTriple == Step("triples", ReadTriples(reader, KeyedTriples(reader)))

ResolveCriteriaKinds == Step("criteriaKinds", [reader EXCEPT !.criteriaKinds = Resolved(CriteriaKinds(reader.cs))])

RereadCandidateNodes ==
    /\ reader.pc = "candidateNodes"
    /\ ~UnresolvedExclude(reader)
    /\ Step("candidateNodes", ReadNodes(reader, UnansweredNodes(reader, CandidateNodes(reader))))

RereadCandidateEdges == Step("candidateEdges", ReadEdges(reader, UnansweredEdges(reader, CandidateEdges(reader))))

ReadRekeyedTriples ==
    Step("rekeyed", [ReadTriples(reader, RekeyedTriples(reader)) EXCEPT
                        !.fanouts = Fanouts(reader, "start") \cup Fanouts(reader, "end"),
                        !.unnameable = Unnameable(reader) # {}])

(* readBackEdgesByEndpoint: a group over the cap contributes no row. *)
FanoutEdges(f) == {e \in DOMAIN Rows(db.edges) : db.edges[e][f.side] \in f.ids /\ db.edges[e].kind = f.kind}
ReadFanouts ==
    LET within == {f \in reader.fanouts : Cardinality(FanoutEdges(f)) <= FanoutCap}
        rows == Found(db.edges, UNION {FanoutEdges(f) : f \in within})
    IN  Step("fanouts", [reader EXCEPT !.edges = Over(rows, @), !.overCap = within # reader.fanouts,
                             !.discovered = UNION {{rows[e].start, rows[e].end} : e \in DOMAIN rows}])

RereadEndpoints == Step("endpoints", ReadNodes(reader, UnansweredNodes(reader, reader.discovered)))

(* Any query may fail; an excluded kind that resolves nowhere is an error too. *)
ReadBackFails ==
    /\ reader.pc \notin {"none", "publish"}
    /\ FallBack("readBackFailed", reader.cs)
    /\ UNCHANGED <<db, registered, changes, commits, snap, carried, skipped>>

(* tombstoneNodeWithCascade, tombstoneAbsentTriple *)
CascadeOf(n) == IF n \in Known(snap) THEN {e[3] : e \in OutEdges(snap, n) \cup InEdges(snap, n)} ELSE {}
TripleEdges(t) ==
    IF {t.start, t.end} \subseteq Known(snap)
      THEN {e[3] : e \in {e \in OutEdges(snap, t.start) : e[1] = t.end /\ e[2] = t.kind}} ELSE {}

(* buildApplySegment: tombstones first, present rows over them. *)
ReadSegment(r) ==
    LET goneEdges == r.absentEdges \cup (UNION {CascadeOf(n) : n \in r.absentNodes})
                       \cup (UNION {TripleEdges(t) : t \in r.absentTriples})
        kinds == (UNION {r.nodes[n].kinds : n \in DOMAIN r.nodes}) \cup {r.edges[e].kind : e \in DOMAIN r.edges}
    IN  NewSegment(Over(r.nodes, [n \in r.absentNodes |-> Tombstone]),
                   Over(r.edges, [e \in goneEdges |-> Tombstone]),
                   (kinds \cup r.criteriaKinds) \ KindTable(snap))

(* The two fallbacks readBack records, for a write that completed. *)
MustFallBack(r) == ~r.cs.incomplete /\ (r.unnameable \/ r.overCap)
Publish ==
    /\ reader.pc = "publish"
    /\ IF MustFallBack(reader)
       THEN FallBack(IF reader.unnameable THEN "unnameable" ELSE "overCap", reader.cs) /\ UNCHANGED <<snap, skipped>>
       ELSE /\ snap' = WithSegment(snap, ReadSegment(reader))
            /\ reader' = NoReader
            /\ skipped' = (skipped \/ (reader.cs.incomplete /\ reader.cs.landed /\ (reader.unnameable \/ reader.overCap)))
            /\ UNCHANGED fallback
    /\ UNCHANGED <<db, registered, changes, commits, carried>>

ReadNext ==
    \/ Serving /\ commits < MaxWrites /\ Writer
    \/ StartApply \/ ReadNodesByID \/ ReadNodesByObjectID \/ ReadEdgesByID \/ ResolveTripleKinds \/ ReadEdgesByTriple
    \/ ResolveCriteriaKinds \/ RereadCandidateNodes \/ RereadCandidateEdges
    \/ ReadRekeyedTriples \/ ReadFanouts \/ RereadEndpoints \/ ReadBackFails \/ Publish

ReadSpec == ReadInit /\ [][ReadNext]_readVars

-----------------------------------------------------------------------------
(* When every committed write has been applied and the engine never had to   *)
(* fall back, the view holds exactly PostgreSQL's rows, whatever committed   *)
(* between the queries of the read-backs and in whatever order the applies   *)
(* ran.  The one exception readBack documents is an edge a failed batch      *)
(* flushed whose endpoints another writer re-keyed or deleted.              *)
ReadMeansCurrent ==
    Serving /\ changes = {} /\ reader = NoReader =>
      LET edges == {<<db.edges[e].start, db.edges[e].end, db.edges[e].kind, e>> : e \in DOMAIN Rows(db.edges)} IN
      /\ VisibleNodes(snap) = Rows(db.nodes)
      /\ IF skipped THEN VisibleEdges(snap) \subseteq edges ELSE VisibleEdges(snap) = edges

(* Read-back falls back on a write whose edge it cannot name only when        *)
(* another writer re-keyed or deleted a node since that write committed:     *)
(* an ingest without such a race never costs a rebuild.                     *)
FallbackNeedsARace == fallback.cause \in {"unnameable", "overCap"} => fallback.raced

(* Both, the first while an object id stays with its node: readBack tells a  *)
(* re-keyed node from a new one by the object id the view holds for it.      *)
ReadBackConverges == (~ObjectIdsMove => ReadMeansCurrent) /\ FallbackNeedsARace
=============================================================================
