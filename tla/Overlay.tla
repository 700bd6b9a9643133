------------------------------ MODULE Overlay ------------------------------
(***************************************************************************)
(* The in-memory graph: an immutable base, the segments layered on it, and *)
(* the view that answers reads from both.  A database id stands for its    *)
(* dense id, a set of adjacent edges for a CSR row, a function for a sorted *)
(* array or map.  A node is [kinds, oid], an edge [start, end, kind]; a     *)
(* segment maps an id to its row or to Tombstone and says nothing of the    *)
(* ids outside its domain.                                                 *)
(***************************************************************************)
EXTENDS Integers, Sequences, FiniteSets, FiniteSetsExt, Functions

Tombstone == [tombstoned |-> TRUE]
NoOID == "none"

Upserts(f) == {x \in DOMAIN f : f[x] # Tombstone}
Empty == [x \in {} |-> Tombstone]

(* Builder.Build: an edge whose endpoint was never staged is dropped. *)
BuildBase(nodes, edges, kinds) ==
    [nodes |-> nodes,
     edges |-> Restrict(edges, {e \in DOMAIN edges : {edges[e].start, edges[e].end} \subseteq DOMAIN nodes}),
     kinds |-> kinds]

(* What finalizeDerived derives from the packed arrays. *)
BaseNodesOfKind(base, k) == {n \in DOMAIN base.nodes : k \in base.nodes[n].kinds}
BaseEdgeKinds(base) == {base.edges[e].kind : e \in DOMAIN base.edges}
BaseSelfLoopKinds(base) ==
    {base.edges[e].kind : e \in {e \in DOMAIN base.edges : base.edges[e].start = base.edges[e].end}}
BaseMaxKindID(base) ==
    Max({0} \cup BaseEdgeKinds(base) \cup UNION {base.nodes[n].kinds : n \in DOMAIN base.nodes})
BaseObjectIndex(base, oid) == {n \in DOMAIN base.nodes : base.nodes[n].oid = oid}

(* SegmentBuilder.Build, over the last call made for each id. *)
NewSegment(nodes, edges, kinds) == [nodes |-> nodes, edges |-> edges, addedKinds |-> kinds]
SegSelfLoopKinds(seg) ==
    {seg.edges[e].kind : e \in {e \in Upserts(seg.edges) : seg.edges[e].start = seg.edges[e].end}}
SegEdgeKinds(seg) == {seg.edges[e].kind : e \in Upserts(seg.edges)}
SegObjectIndex(seg, oid) == {n \in Upserts(seg.nodes) : seg.nodes[n].oid = oid}
SegmentEntries(seg) == Cardinality(DOMAIN seg.nodes) + Cardinality(DOMAIN seg.edges)

(* The new rows, and the old ones they do not name. *)
Over(new, old) == [x \in DOMAIN new \cup DOMAIN old |-> IF x \in DOMAIN new THEN new[x] ELSE old[x]]

(* MergeSegments: the newest segment that names an id decides it. *)
Newest(segs, field, id) ==
    segs[Max({i \in DOMAIN segs : id \in DOMAIN segs[i][field]})][field][id]
MergeField(segs, field) ==
    [id \in UNION {DOMAIN segs[i][field] : i \in DOMAIN segs} |-> Newest(segs, field, id)]
MergeSegments(segs) ==
    NewSegment(MergeField(segs, "nodes"), MergeField(segs, "edges"), UNION {segs[i].addedKinds : i \in DOMAIN segs})

(***************************************************************************)
(* The view: a base and a stack of segments, with what ensureDelta and      *)
(* ensureDead memoise for it: the merged stack and the dead nodes.          *)
(***************************************************************************)
DeltaAdded(base, delta) == Upserts(delta.nodes) \ DOMAIN base.nodes
DeltaDead(base, delta) == {n \in DOMAIN delta.nodes \cap DOMAIN base.nodes : delta.nodes[n] = Tombstone}
ViewOf(base, segs) ==
    LET delta == MergeSegments(segs)
    IN  [base |-> base, segs |-> segs, delta |-> delta, dead |-> DeltaDead(base, delta)]
NewView(base) == ViewOf(base, <<>>)
WithSegment(v, seg) == ViewOf(v.base, Append(v.segs, seg))

Delta(v) == v.delta
Dead(v) == v.dead
Known(v) == DOMAIN v.base.nodes \cup DeltaAdded(v.base, v.delta)
Overridden(v, n) == n \in DOMAIN Delta(v).nodes
Alive(v, n) == n \in Known(v) \ Dead(v)

NodeRow(v, n) == IF Overridden(v, n) THEN Delta(v).nodes[n] ELSE v.base.nodes[n]
KindIDsOf(v, n) == IF NodeRow(v, n) = Tombstone THEN {} ELSE NodeRow(v, n).kinds
ObjectIDOf(v, n) == IF NodeRow(v, n) = Tombstone THEN NoOID ELSE NodeRow(v, n).oid

(* Base slots the delta has a record for, and delta edges that resolve. *)
EdgeTomb(v) == DOMAIN v.base.edges \cap DOMAIN Delta(v).edges
DeltaEdges(v) ==
    {e \in Upserts(Delta(v).edges) : Alive(v, Delta(v).edges[e].start) /\ Alive(v, Delta(v).edges[e].end)}

(* One walk for both directions: near is the end it starts from. *)
WalkEdges(v, n, near, far) ==
    LET base == v.base.edges
        delta == Delta(v).edges
    IN  IF ~Alive(v, n) THEN {}
        ELSE {<<base[e][far], base[e].kind, e>> : e \in
                {e \in DOMAIN base \ EdgeTomb(v) : base[e][near] = n /\ base[e][far] \notin Dead(v)}}
             \cup {<<delta[e][far], delta[e].kind, e>> : e \in {e \in DeltaEdges(v) : delta[e][near] = n}}
OutEdges(v, n) == WalkEdges(v, n, "start", "end")
InEdges(v, n) == WalkEdges(v, n, "end", "start")

(* EdgeStateByID: the row of a live edge, or Tombstone. *)
EdgeStateByID(v, e) ==
    LET row == IF e \in DOMAIN Delta(v).edges THEN Delta(v).edges[e]
               ELSE IF e \in DOMAIN v.base.edges THEN v.base.edges[e] ELSE Tombstone
    IN  IF row # Tombstone /\ Alive(v, row.start) /\ Alive(v, row.end) THEN row ELSE Tombstone

DeltaHoldsOnlyUnresolvableEdges(v) ==
    /\ v.segs # <<>>
    /\ DOMAIN Delta(v).nodes = {}
    /\ DOMAIN Delta(v).edges # {}
    /\ \A e \in DOMAIN Delta(v).edges : Delta(v).edges[e] # Tombstone /\ e \notin DeltaEdges(v)

NodesOfKind(v, k) ==
    {n \in BaseNodesOfKind(v.base, k) : ~Overridden(v, n)}
      \cup {n \in Upserts(Delta(v).nodes) : k \in Delta(v).nodes[n].kinds}
NodesByObjectID(v, oid) ==
    SegObjectIndex(Delta(v), oid) \cup {n \in BaseObjectIndex(v.base, oid) : ~Overridden(v, n)}
KindTable(v) == v.base.kinds \cup Delta(v).addedKinds
MaxKindID(v) ==
    Max({BaseMaxKindID(v.base)} \cup Delta(v).addedKinds \cup SegEdgeKinds(Delta(v))
          \cup UNION {Delta(v).nodes[n].kinds : n \in Upserts(Delta(v).nodes)})

(* An empty list of kinds admits every kind; FALSE proves there is none. *)
Admits(set, ks) == set # {} /\ (ks = {} \/ set \cap ks # {})
SelfLoopHazard(v, ks) ==
    Admits(BaseSelfLoopKinds(v.base), ks) \/ \E i \in DOMAIN v.segs : Admits(SegSelfLoopKinds(v.segs[i]), ks)
EdgeKindPresent(v, ks) ==
    ks = {} \/ ks \cap BaseEdgeKinds(v.base) # {} \/ \E i \in DOMAIN v.segs : ks \cap SegEdgeKinds(v.segs[i]) # {}

\* Broken on purpose: a row that lost an edge keeps its base slots.
DirtyButTombs(v, near, far) ==
    DOMAIN v.base.nodes \cap (Dead(v) \cup {Delta(v).edges[e][near] : e \in DeltaEdges(v)})

(* ensureDirtyAdjacency: base nodes whose row of slots is no longer right. *)
Dirty(v, near, far) ==
    DOMAIN v.base.nodes \cap
      (Dead(v) \cup {v.base.edges[e][near] : e \in {e \in DOMAIN v.base.edges : v.base.edges[e][far] \in Dead(v)}}
               \cup {v.base.edges[e][near] : e \in EdgeTomb(v)}
               \cup {Delta(v).edges[e][near] : e \in DeltaEdges(v)})
BaseSlots(v, n, near, far) ==
    {<<v.base.edges[e][far], v.base.edges[e].kind, e>> : e \in {e \in DOMAIN v.base.edges : v.base.edges[e][near] = n}}
Clean(v, n, near, far) == n \in DOMAIN v.base.nodes \ Dirty(v, near, far)
(* ensureMergedAdjacency walks once for every dirty or added node. *)
MergedRow(v, n, near, far) == WalkEdges(v, n, near, far)
(* OutSlices and InSlices. *)
Slices(v, n, near, far) == IF Clean(v, n, near, far) THEN BaseSlots(v, n, near, far) ELSE MergedRow(v, n, near, far)

(***************************************************************************)
(* Fold: the base and a stack as one base, and the delta edges that wait    *)
(* for an endpoint neither holds.                                          *)
(***************************************************************************)
FoldNodeFate(base, merged, n) ==
    CASE n \in DOMAIN merged.nodes /\ merged.nodes[n] = Tombstone -> "gone"
      [] n \in Upserts(merged.nodes) \cup (DOMAIN base.nodes \ DOMAIN merged.nodes) -> "live"
      [] OTHER -> "pending"
EdgeFates(base, merged, e) ==
    {FoldNodeFate(base, merged, merged.edges[e].start), FoldNodeFate(base, merged, merged.edges[e].end)}
FoldNodes(base, merged) ==
    [n \in (DOMAIN base.nodes \ DOMAIN merged.nodes) \cup Upserts(merged.nodes) |->
        IF n \in DOMAIN merged.nodes THEN merged.nodes[n] ELSE base.nodes[n]]
FoldedDelta(base, merged) == {e \in Upserts(merged.edges) : EdgeFates(base, merged, e) = {"live"}}
FoldEdges(base, merged) ==
    [e \in (DOMAIN base.edges \ DOMAIN merged.edges) \cup FoldedDelta(base, merged) |->
        IF e \in DOMAIN merged.edges THEN merged.edges[e] ELSE base.edges[e]]
PendingEdges(base, merged) ==
    Restrict(merged.edges,
             {e \in Upserts(merged.edges) : "gone" \notin EdgeFates(base, merged, e) /\ "pending" \in EdgeFates(base, merged, e)})
FoldWithPendingEdges(base, segs) ==
    LET merged == MergeSegments(segs)
    IN  [folded |-> BuildBase(FoldNodes(base, merged), FoldEdges(base, merged), base.kinds \cup merged.addedKinds),
         pending |-> NewSegment(Empty, PendingEdges(base, merged), {})]

(***************************************************************************)
(* What a reader can see of a view, by database id (CheckViewsEquivalent).  *)
(***************************************************************************)
AliveNodes(v) == {n \in Known(v) : Alive(v, n)}
VisibleNodes(v) == [n \in AliveNodes(v) |-> NodeRow(v, n)]
VisibleEdges(v) == UNION {{<<n, e[1], e[2], e[3]>> : e \in OutEdges(v, n)} : n \in AliveNodes(v)}
=============================================================================
