---------------------------- MODULE Compaction ----------------------------
(***************************************************************************)
(* The engine's delta stack under maintenance: writes commit in PostgreSQL *)
(* and are applied later, in any order, each as a segment holding the rows  *)
(* read back for its keys; a long stack is collapsed, a large one folded by *)
(* a background goroutine while more segments arrive; a rebuild replaces    *)
(* base and stack.  Read-back is one step here; module ReadBack takes it    *)
(* query by query.                                                         *)
(***************************************************************************)
EXTENDS PgGraph

CONSTANTS NodeRows,             \* node rows a write may leave
          Compactors,           \* goroutines of runCompaction that may overlap
          MaxSegments, CompactEntries,
          MaxRebuilds

VARIABLES pg,         \* PostgreSQL: [nodes, edges], each id Unborn, Tombstone or its row
          unapplied,  \* change sets committed and not yet applied: [write, nodes, edges]
          writes,     \* commits so far
          view,       \* e.snap: [base, segs]; base and segments carry ref, their address
          serving,    \* e.state = stateServing
          stopping,   \* e.bgCtx cancelled
          rebuilds,   \* rebuilds so far
          compacting, \* e.compacting
          job,        \* per goroutine: where it is and what it captured
          applied     \* history: the last row applied for each id, and kinds named

vars == <<pg, unapplied, writes, view, serving, stopping, rebuilds, compacting, job, applied>>

KindIds == (UNION {row.kinds : row \in NodeRows}) \cup (UNION {Base0.nodes[n].kinds : n \in DOMAIN Base0.nodes})
             \cup EdgeKinds \cup {Base0.edges[e].kind : e \in DOMAIN Base0.edges}

\* What the proofs take of the constants: goroutines are finitely many, a kind's
\* id is an int16, a write leaves a row and not a mark of its absence, and the
\* graph loaded at start has both ends of its edges.
CompactionConstants ==
    /\ IsFiniteSet(Compactors)
    /\ KindIds \subseteq Nat /\ \A k \in KindIds : k <= 32767
    /\ NodeRows \cap {Unborn, Tombstone} = {}
    /\ \A n \in DOMAIN Base0.nodes : Base0.nodes[n] \notin {Unborn, Tombstone}
    /\ \A e \in DOMAIN Base0.edges :
          {Base0.edges[e].start, Base0.edges[e].end} \subseteq NodeIds \cap DOMAIN Base0.nodes
ASSUME CompactionAssumption == CompactionConstants

At(ref, x) == [f \in DOMAIN x \cup {"ref"} |-> IF f = "ref" THEN ref ELSE x[f]]

(* Addresses: what the view or a goroutine still holds is not reused. *)
RefsOf(v) == {v.base.ref} \cup {v.segs[i].ref : i \in DOMAIN v.segs}
InUse == RefsOf(view) \cup UNION {RefsOf(job[c]) : c \in {c \in Compactors : job[c].pc \in {"fold", "folded"}}}
FirstFree == Min((0..Cardinality(InUse)) \ InUse)
SecondFree == Min((0..(Cardinality(InUse) + 1)) \ (InUse \cup {FirstFree}))

Idle == [pc |-> "idle"]

LoadedBase(db) ==
    BuildBase(Rows(db.nodes), Rows(db.edges),
              (UNION {Rows(db.nodes)[n].kinds : n \in DOMAIN Rows(db.nodes)})
                \cup {Rows(db.edges)[e].kind : e \in DOMAIN Rows(db.edges)})

Init == /\ pg = [nodes |-> [n \in NodeIds |-> IF n \in DOMAIN Base0.nodes THEN Base0.nodes[n] ELSE Unborn],
                 edges |-> [e \in EdgeIds |-> IF e \in DOMAIN Base0.edges THEN Base0.edges[e] ELSE Unborn]]
        /\ view = NewView(At(0, LoadedBase(pg)))
        /\ applied = LoadedBase(pg)
        /\ unapplied = {} /\ writes = 0 /\ rebuilds = 0
        /\ serving = TRUE /\ stopping = FALSE /\ compacting = FALSE
        /\ job = [c \in Compactors |-> Idle]

(***************************************************************************)
(* PostgreSQL commits.  Deleting a node deletes its edges (a trigger); the  *)
(* change set names the node alone.                                        *)
(***************************************************************************)
Committed(ns, es) ==
    /\ writes < MaxWrites
    /\ writes' = writes + 1
    /\ unapplied' = unapplied \cup {[write |-> writes, nodes |-> ns, edges |-> es]}
    /\ UNCHANGED <<view, serving, stopping, rebuilds, compacting, job, applied>>

UpsertNode == \E n \in NodeIds, row \in NodeRows :
    /\ pg.nodes[n] \notin {Tombstone, row}
    /\ pg' = [pg EXCEPT !.nodes[n] = row]
    /\ Committed({n}, {})

DeleteNode == \E n \in DOMAIN Rows(pg.nodes) :
    /\ pg' = [nodes |-> [pg.nodes EXCEPT ![n] = Tombstone],
              edges |-> [e \in EdgeIds |->
                  IF e \in DOMAIN Rows(pg.edges) /\ n \in {pg.edges[e].start, pg.edges[e].end}
                    THEN Tombstone ELSE pg.edges[e]]]
    /\ Committed({n}, {})

CreateEdge == \E e \in EdgeIds, s, t \in DOMAIN Rows(pg.nodes), k \in EdgeKinds :
    /\ pg.edges[e] = Unborn
    /\ [start |-> s, end |-> t, kind |-> k] \notin Range(Rows(pg.edges))
    /\ pg' = [pg EXCEPT !.edges[e] = [start |-> s, end |-> t, kind |-> k]]
    /\ Committed({}, {e})

DeleteEdge == \E e \in DOMAIN Rows(pg.edges) :
    /\ pg' = [pg EXCEPT !.edges[e] = Tombstone]
    /\ Committed({}, {e})

(***************************************************************************)
(* Apply: read back the keys, layer the segment, then maintainAfterPublish. *)
(***************************************************************************)
Present(table, ids) == {x \in ids : table[x] \notin {Unborn, Tombstone}}

(* tombstoneNodeWithCascade *)
Cascade(v, n) == IF n \in Known(v) THEN {e[3] : e \in OutEdges(v, n) \cup InEdges(v, n)} ELSE {}

\* Broken on purpose: a key that is gone leaves no tombstone.
ApplyUpserts(v, cs) ==
    LET ns == Restrict(pg.nodes, Present(pg.nodes, cs.nodes))
        es == Restrict(pg.edges, Present(pg.edges, cs.edges))
    IN  NewSegment(ns, es, ((UNION {ns[n].kinds : n \in DOMAIN ns}) \cup {es[e].kind : e \in DOMAIN es}) \ KindTable(v))

(* buildApplySegment: tombstones first, present rows over them. *)
ApplySegment(v, cs) ==
    LET absent == cs.nodes \ Present(pg.nodes, cs.nodes)
        present == Present(pg.edges, cs.edges)
        ns == [n \in cs.nodes |-> IF n \in absent THEN Tombstone ELSE pg.nodes[n]]
        es == [e \in cs.edges \cup UNION {Cascade(v, n) : n \in absent} |->
                  IF e \in present THEN pg.edges[e] ELSE Tombstone]
        kinds == (UNION {ns[n].kinds : n \in Upserts(ns)}) \cup {es[e].kind : e \in Upserts(es)}
    IN  NewSegment(ns, es, kinds \ KindTable(v))

(* collapseSegmentStackIfNeeded *)
Collapse(v, ref) ==
    IF Len(v.segs) <= MaxSegments THEN v
    ELSE WithSegment(NewView(v.base), At(ref, MergeSegments(v.segs)))

DeltaEntries(segs) == MapThenSumSet(LAMBDA i : SegmentEntries(segs[i]), DOMAIN segs)

(* maybeStartCompaction: a delta small in entries may be large in bytes. *)
MaybeStartCompaction(v) ==
    \/ /\ ~compacting /\ serving /\ v.segs # <<>>
       /\ \E c \in Compactors :
            /\ job[c] = Idle
            /\ job' = [job EXCEPT ![c] = [pc |-> "fold", base |-> v.base, segs |-> v.segs]]
       /\ compacting' = TRUE
    \/ /\ compacting \/ v.segs = <<>> \/ DeltaEntries(v.segs) <= CompactEntries
       /\ UNCHANGED <<compacting, job>>

Apply == \E cs \in unapplied :
    /\ serving
    /\ unapplied' = unapplied \ {cs}
    /\ LET seg == ApplySegment(view, cs)
           current == Collapse(WithSegment(view, At(FirstFree, seg)), SecondFree)
       IN  /\ view' = current
           /\ applied' = [nodes |-> Over(seg.nodes, applied.nodes), edges |-> Over(seg.edges, applied.edges),
                          kinds |-> seg.addedKinds \cup applied.kinds]
           /\ MaybeStartCompaction(current)
    /\ UNCHANGED <<pg, writes, serving, stopping, rebuilds>>

(* A write applied while not serving, or one that cannot be read back. *)
ApplyFallsBack == \E cs \in unapplied :
    /\ rebuilds < MaxRebuilds
    /\ unapplied' = unapplied \ {cs}
    /\ serving' = FALSE
    /\ UNCHANGED <<pg, writes, view, stopping, rebuilds, compacting, job, applied>>

(* The rebuild loop's load and adoption; module Rebuild has its races. *)
AdoptRebuilt ==
    /\ ~serving
    /\ rebuilds < MaxRebuilds
    /\ serving' = TRUE
    /\ rebuilds' = rebuilds + 1
    /\ view' = NewView(At(FirstFree, LoadedBase(pg)))
    /\ applied' = LoadedBase(pg)
    /\ UNCHANGED <<pg, unapplied, writes, stopping, compacting, job>>

(***************************************************************************)
(* runCompaction.                                                          *)
(***************************************************************************)
Released(c) == job' = [job EXCEPT ![c] = Idle] /\ compacting' = FALSE

(* FoldWithPendingEdges, off the lock, and the last look at bgCtx. *)
Fold(c) ==
    /\ job[c].pc = "fold"
    /\ ~stopping
    /\ job' = [job EXCEPT ![c] = [pc |-> "folded", base |-> @.base, segs |-> @.segs,
                                  result |-> FoldWithPendingEdges(@.base, @.segs)]]
    /\ UNCHANGED <<pg, unapplied, writes, view, serving, stopping, rebuilds, compacting, applied>>

\* Broken on purpose: a fold survives a collapse of the stack it captured.
LongEnough(current, captured) == Len(captured) <= Len(current)

(* segmentsAfter: the captured stack must be the beginning of the current one. *)
CapturedIsPrefix(current, captured) ==
    /\ Len(captured) <= Len(current)
    /\ \A i \in DOMAIN captured : captured[i].ref = current[i].ref

Adoptable(c) == serving /\ view.base.ref = job[c].base.ref /\ CapturedIsPrefix(view.segs, job[c].segs)

(* The new stack: edges the fold could not place, beneath what arrived since. *)
Carried(c) ==
    LET pending == job[c].result.pending
        tail == SubSeq(view.segs, Len(job[c].segs) + 1, Len(view.segs))
    IN  (IF pending.edges = Empty THEN <<>> ELSE <<pending>>) \o tail

(* adoptCompaction; compacting is cleared before the save that follows. *)
AdoptCompaction(c) ==
    /\ job[c].pc = "folded"
    /\ Adoptable(c)
    /\ view' = LET folded == NewView(At(FirstFree, job[c].result.folded))
               IN  IF Carried(c) = <<>> THEN folded
                   ELSE WithSegment(folded, At(SecondFree, MergeSegments(Carried(c))))
    /\ compacting' = FALSE
    /\ job' = [job EXCEPT ![c] = [pc |-> "save"]]
    /\ UNCHANGED <<pg, unapplied, writes, serving, stopping, rebuilds, applied>>

(* The engine is stopping, the fold failed, or the view moved on meanwhile. *)
DiscardCompaction(c) ==
    /\ \/ job[c].pc = "fold"
       \/ job[c].pc = "folded" /\ ~Adoptable(c)
    /\ Released(c)
    /\ UNCHANGED <<pg, unapplied, writes, view, serving, stopping, rebuilds, applied>>

(* A panic while folding or adopting: backgroundPanicked enters fallback. *)
CompactionPanics(c) ==
    /\ job[c].pc \in {"fold", "folded"}
    /\ rebuilds < MaxRebuilds
    /\ serving' = FALSE
    /\ Released(c)
    /\ UNCHANGED <<pg, unapplied, writes, view, stopping, rebuilds, applied>>

(* saveSnapshotAfterCompaction returns, however it ends; the deferred       *)
(* release finds released already set.                                     *)
SaveReturns(c) ==
    /\ job[c].pc = "save"
    /\ job' = [job EXCEPT ![c] = Idle]
    /\ UNCHANGED <<pg, unapplied, writes, view, serving, stopping, rebuilds, compacting, applied>>

(* Engine.Close cancels bgCtx. *)
Stop ==
    /\ ~stopping
    /\ stopping' = TRUE
    /\ UNCHANGED <<pg, unapplied, writes, view, serving, rebuilds, compacting, job, applied>>

Run(c) == Fold(c) \/ AdoptCompaction(c) \/ DiscardCompaction(c) \/ CompactionPanics(c) \/ SaveReturns(c)

Next == \/ UpsertNode \/ DeleteNode \/ CreateEdge \/ DeleteEdge
        \/ Apply \/ ApplyFallsBack \/ AdoptRebuilt \/ Stop
        \/ \E c \in Compactors : Run(c)

Spec == Init /\ [][Next]_vars /\ \A c \in Compactors : WF_vars(Run(c))

-----------------------------------------------------------------------------
(* What readers see never depends on maintenance: whatever was collapsed,   *)
(* folded, adopted or discarded, the view shows the last row applied for    *)
(* each id, an edge when both its endpoints show, and every kind named.  A  *)
(* lost tail segment, a fold adopted over a rebuilt base, a tombstone or a  *)
(* pending edge dropped by a fold shows here.                              *)
ShownEdges(rows) == {e \in Upserts(rows.edges) : {rows.edges[e].start, rows.edges[e].end} \subseteq Upserts(rows.nodes)}
MaintenanceInvisible ==
    /\ VisibleNodes(view) = Restrict(applied.nodes, Upserts(applied.nodes))
    /\ VisibleEdges(view) =
         {<<applied.edges[e].start, applied.edges[e].end, applied.edges[e].kind, e>> : e \in ShownEdges(applied)}
    /\ KindTable(view) = applied.kinds

(* Once every committed write has been applied, in whatever order, the view *)
(* shows PostgreSQL's rows: an edge applied before its endpoint appears     *)
(* when the endpoint does, also across folds.                              *)
AppliedMeansCurrent ==
    serving /\ unapplied = {} =>
      /\ VisibleNodes(view) = Rows(pg.nodes)
      /\ VisibleEdges(view) = {<<pg.edges[e].start, pg.edges[e].end, pg.edges[e].kind, e>> : e \in DOMAIN Rows(pg.edges)}

(* Every derived answer of a view is what a scan of it would say: rows of   *)
(* adjacency served from the base's slots or the merged rows, both          *)
(* directions, kinds, object ids and the kind ceiling; a denied edge kind   *)
(* or self-loop really is absent, and a delta said to hold only edges that  *)
(* do not resolve hides nothing of the base and adds nothing to it.        *)
AnswersMatchScan ==
    LET seen == VisibleEdges(view) IN
    /\ \A n \in AliveNodes(view) :
         /\ Slices(view, n, "start", "end") = {<<t[2], t[3], t[4]>> : t \in {t \in seen : t[1] = n}}
         /\ Slices(view, n, "end", "start") = {<<t[1], t[3], t[4]>> : t \in {t \in seen : t[2] = n}}
         /\ InEdges(view, n) = {<<t[1], t[3], t[4]>> : t \in {t \in seen : t[2] = n}}
         /\ KindIDsOf(view, n) \subseteq KindTable(view)
    /\ \A n \in Known(view) \ AliveNodes(view) :
         Slices(view, n, "start", "end") = {} /\ Slices(view, n, "end", "start") = {}
    /\ \A e \in EdgeIds : LET row == EdgeStateByID(view, e) IN
         IF row = Tombstone THEN \A t \in seen : t[4] # e ELSE <<row.start, row.end, row.kind, e>> \in seen
    /\ \A k \in KindTable(view) :
         /\ NodesOfKind(view, k) = {n \in AliveNodes(view) : k \in KindIDsOf(view, n)}
         /\ k <= MaxKindID(view) \/ \A n \in AliveNodes(view) : k \notin KindIDsOf(view, n)
         /\ ~EdgeKindPresent(view, {k}) => \A t \in seen : t[3] # k
         /\ ~SelfLoopHazard(view, {k}) => \A t \in seen : t[3] = k => t[1] # t[2]
    /\ \A t \in seen : t[3] \in KindTable(view) /\ t[3] <= MaxKindID(view)
    /\ DeltaHoldsOnlyUnresolvableEdges(view) => seen = VisibleEdges(NewView(view.base)) /\ AliveNodes(view) = DOMAIN view.base.nodes
    /\ \A n \in AliveNodes(view) : n \in NodesByObjectID(view, ObjectIDOf(view, n))
    /\ \A row \in NodeRows : \A n \in NodesByObjectID(view, row.oid) : Alive(view, n) /\ ObjectIDOf(view, n) = row.oid

(* A compaction that started ends, adopted or not, and lets the next start. *)
CompactionEnds == compacting ~> ~compacting

=============================================================================
