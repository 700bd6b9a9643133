-------------------------- MODULE CompactionProofs --------------------------
(***************************************************************************)
(* Collapsing, folding, adopting and discarding never change what a view   *)
(* shows, and a view with nothing left to apply shows PostgreSQL's graph,   *)
(* for any graph, any order of writes and applies, any thresholds and any   *)
(* number of compaction goroutines.                                        *)
(*                                                                         *)
(* StackShowsApplied is inductive: base and stack hold the last rows       *)
(* applied (Shows), a tombstone in the stack is of a node that never comes *)
(* back (StackInv, PgInv), and an address tells what a goroutine captured  *)
(* from what the view has (RefInv).  CurrentInv adds that the last row     *)
(* applied is PostgreSQL's unless a change set still names its id.         *)
(***************************************************************************)
EXTENDS Compaction, OperatorLemmas
-----------------------------------------------------------------------------
\* An address adds nothing to what a base or a segment holds.
LEMMA SegmentAt ==
    ASSUME NEW r, NEW ns, NEW es, NEW ks
    PROVE  LET x == At(r, NewSegment(ns, es, ks))
           IN  x.nodes = ns /\ x.edges = es /\ x.addedKinds = ks /\ x.ref = r
BY DEF At, NewSegment

\* The same for a base.
LEMMA BaseAt ==
    ASSUME NEW r, NEW ns, NEW es, NEW ks
    PROVE  LET x == At(r, BuildBase(ns, es, ks))
           IN  /\ x.nodes = ns /\ x.kinds = ks /\ x.ref = r
               /\ x.edges = Restrict(es, {e \in DOMAIN es : {es[e].start, es[e].end} \subseteq DOMAIN ns})
BY DEF At, BuildBase

\* Applied as deleted: PostgreSQL reuses no id, so the node never comes back.
Gone(a, n) == n \in DOMAIN a.nodes /\ a.nodes[n] = Tombstone

\* A base and the merged stack over it hold what was applied: the rows they name
\* are the last ones applied, and what they do not name is deleted, or is an edge
\* of a deleted node.
ShowsNodes(a, base, delta) ==
    /\ \A n \in DOMAIN delta.nodes : n \in DOMAIN a.nodes /\ a.nodes[n] = delta.nodes[n]
    /\ \A n \in DOMAIN base.nodes \ DOMAIN delta.nodes :
          n \in DOMAIN a.nodes /\ a.nodes[n] = base.nodes[n]
    /\ \A n \in DOMAIN a.nodes \ (DOMAIN base.nodes \cup DOMAIN delta.nodes) : Gone(a, n)
ShowsEdges(a, base, delta) ==
    /\ \A e \in DOMAIN delta.edges : e \in DOMAIN a.edges /\ a.edges[e] = delta.edges[e]
    /\ \A e \in DOMAIN base.edges \ DOMAIN delta.edges :
          e \in DOMAIN a.edges /\ a.edges[e] = base.edges[e]
    /\ \A e \in Upserts(a.edges) \ (DOMAIN base.edges \cup DOMAIN delta.edges) :
          Gone(a, a.edges[e].start) \/ Gone(a, a.edges[e].end)
Shows(a, base, delta) ==
    /\ ShowsNodes(a, base, delta) /\ ShowsEdges(a, base, delta)
    /\ base.kinds \cup delta.addedKinds = a.kinds

\* A view that holds what was applied shows what was applied.
LEMMA ShowsIsInvisible ==
    ASSUME ViewSound(view), Shows(applied, view.base, view.delta)
    PROVE  MaintenanceInvisible
<1> DEFINE base == view.base
           delta == view.delta
<1>0. /\ view.dead = DeltaDead(base, delta) /\ BaseSound(base)
      /\ ShowsNodes(applied, base, delta) /\ ShowsEdges(applied, base, delta)
      /\ base.kinds \cup delta.addedKinds = applied.kinds
  BY ViewFields DEF ViewSound, Shows
<1>1. AliveNodes(view) = Upserts(applied.nodes)
  BY <1>0 DEF AliveNodes, Alive, Known, Dead, DeltaDead, DeltaAdded, Upserts, ShowsNodes, BaseSound, Gone
<1>2. \A n \in AliveNodes(view) : NodeRow(view, n) = applied.nodes[n]
  BY <1>0 DEF AliveNodes, Alive, Known, Dead, DeltaDead, DeltaAdded, Upserts, ShowsNodes, NodeRow, Overridden,
     Delta
<1>3. VisibleNodes(view) = Restrict(applied.nodes, Upserts(applied.nodes))
  BY <1>1, <1>2 DEF VisibleNodes, Restrict
<1>4. \A n : Alive(view, n) <=> n \in Upserts(applied.nodes)
  BY <1>1 DEF AliveNodes, Alive
<1>5. \A e : e \in ShownEdges(applied) <=>
          /\ e \in DOMAIN applied.edges /\ applied.edges[e] # Tombstone
          /\ Alive(view, applied.edges[e].start) /\ Alive(view, applied.edges[e].end)
  BY <1>4 DEF ShownEdges, Upserts
<1> DEFINE Tuple(e) == <<applied.edges[e].start, applied.edges[e].end, applied.edges[e].kind, e>>
<1>6. ASSUME NEW t \in VisibleEdges(view)  PROVE \E e \in ShownEdges(applied) : t = Tuple(e)
  <2>1. PICK n \in AliveNodes(view) : \E x \in OutEdges(view, n) : t = <<n, x[1], x[2], x[3]>>
    BY <1>6 DEF VisibleEdges
  <2>2. PICK x \in OutEdges(view, n) : t = <<n, x[1], x[2], x[3]>>
    BY <2>1
  <2>3. Alive(view, n)
    BY DEF AliveNodes
  <2>4. CASE \E e \in DOMAIN base.edges \ EdgeTomb(view) :
               /\ base.edges[e].start = n /\ base.edges[e].end \notin Dead(view)
               /\ x = <<base.edges[e].end, base.edges[e].kind, e>>
    <3>1. PICK e \in DOMAIN base.edges \ EdgeTomb(view) :
               /\ base.edges[e].start = n /\ base.edges[e].end \notin Dead(view)
               /\ x = <<base.edges[e].end, base.edges[e].kind, e>>
      BY <2>4
    <3>2. e \in DOMAIN base.edges \ DOMAIN delta.edges
      BY DEF EdgeTomb, Delta
    <3>3. /\ e \in DOMAIN applied.edges /\ applied.edges[e] = base.edges[e]
          /\ base.edges[e] # Tombstone /\ base.edges[e].end \in DOMAIN base.nodes
      BY <1>0, <3>2 DEF ShowsEdges, BaseSound
    <3>4. Alive(view, base.edges[e].end)
      BY <3>1, <3>3 DEF Alive, Known
    <3>5. e \in ShownEdges(applied)
      BY <1>5, <2>3, <3>1, <3>3, <3>4
    <3> QED BY <2>2, <3>1, <3>3, <3>5
  <2>5. CASE \E e \in DeltaEdges(view) :
               delta.edges[e].start = n /\ x = <<delta.edges[e].end, delta.edges[e].kind, e>>
    <3>1. PICK e \in DeltaEdges(view) :
               delta.edges[e].start = n /\ x = <<delta.edges[e].end, delta.edges[e].kind, e>>
      BY <2>5
    <3>2. /\ e \in DOMAIN delta.edges /\ delta.edges[e] # Tombstone
          /\ Alive(view, delta.edges[e].start) /\ Alive(view, delta.edges[e].end)
      BY DEF DeltaEdges, Delta, Upserts
    <3>3. e \in DOMAIN applied.edges /\ applied.edges[e] = delta.edges[e]
      BY <1>0, <3>2 DEF ShowsEdges
    <3>4. e \in ShownEdges(applied)
      BY <1>5, <3>2, <3>3
    <3> QED BY <2>2, <3>1, <3>3, <3>4
  <2> QED BY <2>3, <2>4, <2>5 DEF OutEdges, WalkEdges, Delta
<1>7. ASSUME NEW e \in ShownEdges(applied)  PROVE Tuple(e) \in VisibleEdges(view)
  <2>1. /\ e \in DOMAIN applied.edges /\ applied.edges[e] # Tombstone
        /\ Alive(view, applied.edges[e].start) /\ Alive(view, applied.edges[e].end)
    BY <1>5
  <2>2. ~Gone(applied, applied.edges[e].start) /\ ~Gone(applied, applied.edges[e].end)
    BY <1>4, <2>1 DEF Gone, Upserts
  <2>3. e \in DOMAIN base.edges \cup DOMAIN delta.edges
    BY <1>0, <2>1, <2>2 DEF ShowsEdges, Upserts
  <2> DEFINE n == applied.edges[e].start
             x == <<applied.edges[e].end, applied.edges[e].kind, e>>
  <2>4. x \in OutEdges(view, n)
    <3>1. CASE e \in DOMAIN delta.edges
      <4>1. applied.edges[e] = delta.edges[e]
        BY <1>0, <3>1 DEF ShowsEdges
      <4>2. e \in DeltaEdges(view)
        BY <2>1, <3>1, <4>1 DEF DeltaEdges, Delta, Upserts
      <4> QED BY <2>1, <4>1, <4>2 DEF OutEdges, WalkEdges, Delta
    <3>2. CASE e \in DOMAIN base.edges \ DOMAIN delta.edges
      <4>1. applied.edges[e] = base.edges[e]
        BY <1>0, <3>2 DEF ShowsEdges
      <4>2. e \in DOMAIN base.edges \ EdgeTomb(view) /\ base.edges[e].end \notin Dead(view)
        BY <2>1, <3>2, <4>1 DEF EdgeTomb, Delta, Alive
      <4> QED BY <2>1, <4>1, <4>2 DEF OutEdges, WalkEdges, Delta
    <3> QED BY <2>3, <3>1, <3>2
  <2>5. n \in AliveNodes(view) /\ Tuple(e) = <<n, x[1], x[2], x[3]>>
    BY <2>1 DEF AliveNodes, Alive
  <2> HIDE DEF n, x
  <2> QED BY <2>4, <2>5 DEF VisibleEdges
<1>8. VisibleEdges(view) = {Tuple(e) : e \in ShownEdges(applied)}
  BY <1>6, <1>7
<1>9. KindTable(view) = applied.kinds
  BY <1>0 DEF KindTable, Delta
<1> QED BY <1>3, <1>8, <1>9 DEF MaintenanceInvisible
-----------------------------------------------------------------------------
(***************************************************************************)
(* The invariant.                                                          *)
(***************************************************************************)

\* PostgreSQL's nodes have their ids; one applied as deleted is deleted there,
\* and one a change set names was written.
PgInv ==
    /\ DOMAIN pg = {"nodes", "edges"} /\ DOMAIN pg.nodes = NodeIds
    /\ \A n : Gone(applied, n) => n \in NodeIds /\ pg.nodes[n] = Tombstone
    /\ \A cs \in unapplied : \A n \in cs.nodes : n \in NodeIds /\ pg.nodes[n] # Unborn

\* A segment's tombstone is a node applied as deleted: never one that came back.
StackInv(a, segs) ==
    \A i \in DOMAIN segs : \A n \in DOMAIN segs[i].nodes : segs[i].nodes[n] = Tombstone => Gone(a, n)

\* Goroutines that hold a base and a stack they captured.
Holding == {c \in Compactors : job[c].pc \in {"fold", "folded"}}

JobInv ==
    /\ DOMAIN job = Compactors
    /\ \A c \in Holding : IsSeq(job[c].segs)
    /\ \A c \in Compactors : job[c].pc = "folded" =>
          job[c].result = FoldWithPendingEdges(job[c].base, job[c].segs)

\* Among what the view and the goroutines hold, an address tells what is there.
SameBase(b1, b2) == b1.ref = b2.ref => b1 = b2
SameSegments(s1, s2) == \A i \in DOMAIN s1, j \in DOMAIN s2 : s1[i].ref = s2[j].ref => s1[i] = s2[j]
RefInv ==
    /\ SameSegments(view.segs, view.segs)
    /\ \A c \in Holding : SameBase(job[c].base, view.base) /\ SameSegments(job[c].segs, view.segs)

StackShowsApplied ==
    /\ ViewSound(view) /\ Shows(applied, view.base, view.delta) /\ StackInv(applied, view.segs)
    /\ PgInv /\ JobInv /\ RefInv
-----------------------------------------------------------------------------
(***************************************************************************)
(* New addresses are free.                                                 *)
(***************************************************************************)

\* The range of a function over a finite set is finite.
LEMMA FiniteRange ==
    ASSUME NEW S, IsFiniteSet(S), NEW f, DOMAIN f = S
    PROVE  IsFiniteSet({f[x] : x \in S})
<1> DEFINE T == {f[x] : x \in S}
           g == [x \in S |-> f[x]]
<1>1. g \in Surjection(S, T)
  BY DEF Surjection
<1> HIDE DEF T, g
<1>2. IsFiniteSet(T)
  BY <1>1, FS_Surjection
<1> QED BY <1>2 DEF T

\* A base and a stack occupy finitely many addresses.
LEMMA RefsFinite ==
    ASSUME NEW v, IsSeq(v.segs)
    PROVE  IsFiniteSet(RefsOf(v))
<1> DEFINE f == [i \in DOMAIN v.segs |-> v.segs[i].ref]
           R == {f[i] : i \in DOMAIN v.segs}
<1>1. Len(v.segs) \in Nat /\ DOMAIN v.segs = 1 .. Len(v.segs)
  BY SeqFacts
<1>2. IsFiniteSet(DOMAIN v.segs)
  BY <1>1, FS_Interval
<1>3. IsFiniteSet(R)
  <2>1. DOMAIN f = DOMAIN v.segs
    OBVIOUS
  <2> HIDE DEF f
  <2> QED BY <1>2, <2>1, FiniteRange
<1>4. RefsOf(v) = R \cup {v.base.ref}
  BY DEF RefsOf
<1> HIDE DEF R
<1> QED BY <1>3, <1>4, FS_AddElement

\* So do the view and the captures of finitely many goroutines.
LEMMA InUseFinite ==
    ASSUME CompactionConstants, ViewSound(view), JobInv
    PROVE  IsFiniteSet(InUse)
<1> DEFINE f == [c \in Holding |-> RefsOf(job[c])]
           R == {f[c] : c \in Holding}
<1>1. IsFiniteSet(Holding)
  <2>1. Holding \in SUBSET Compactors
    BY DEF Holding
  <2>2. IsFiniteSet(Compactors)
    BY DEF CompactionConstants
  <2> QED BY <2>1, <2>2, FS_Subset
<1>2. IsFiniteSet(R)
  <2>1. DOMAIN f = Holding
    OBVIOUS
  <2> HIDE DEF f
  <2> QED BY <1>1, <2>1, FiniteRange
<1>3. \A T \in R : IsFiniteSet(T)
  <2>1. \A c \in Holding : IsFiniteSet(RefsOf(job[c]))
    BY RefsFinite DEF JobInv
  <2> QED BY <2>1
<1>4. IsFiniteSet(RefsOf(view))
  BY RefsFinite DEF ViewSound
<1>5. InUse = RefsOf(view) \cup UNION R
  BY DEF InUse, Holding
<1> HIDE DEF R
<1> QED BY <1>2, <1>3, <1>4, <1>5, FS_UNION, FS_Union

\* Of one more address than a finite set holds, one is outside it.
LEMMA OneIsFree ==
    ASSUME NEW S, IsFiniteSet(S), NEW b \in Nat, Cardinality(S) <= b
    PROVE  Min((0 .. b) \ S) \notin S
<1> DEFINE T == (0 .. b) \ S
<1>1. T # {}
  <2> SUFFICES ASSUME T = {}  PROVE FALSE
    OBVIOUS
  <2>1. (0 .. b) \in SUBSET S
    OBVIOUS
  <2>2. Cardinality(0 .. b) <= Cardinality(S)
    BY <2>1, FS_Subset
  <2>3. Cardinality(0 .. b) = b + 1
    BY FS_Interval
  <2>4. Cardinality(S) \in Nat
    BY FS_CardinalityType
  <2> QED BY <2>2, <2>3, <2>4
<1>2. T \in SUBSET Nat
  OBVIOUS
<1>3. \A x \in T : x \notin S
  OBVIOUS
<1> HIDE DEF T
<1>4. Min(T) \in T
  BY <1>1, <1>2, LeastNatural
<1> QED BY <1>3, <1>4 DEF T

\* FirstFree and SecondFree are the address of nothing held.
LEMMA FreshRefs ==
    ASSUME CompactionConstants, ViewSound(view), JobInv
    PROVE  FirstFree \notin InUse /\ SecondFree \notin InUse
<1>1. IsFiniteSet(InUse) /\ Cardinality(InUse) \in Nat
  BY InUseFinite, FS_CardinalityType
<1>2. FirstFree \notin InUse
  BY <1>1, OneIsFree DEF FirstFree
<1> DEFINE S == InUse \cup {FirstFree}
<1>3. IsFiniteSet(S) /\ Cardinality(S) <= Cardinality(InUse) + 1
  BY <1>1, FS_AddElement
<1>4. SecondFree \notin S
  <2>1. SecondFree = Min((0 .. (Cardinality(InUse) + 1)) \ S)
    BY DEF SecondFree
  <2> HIDE DEF S
  <2> QED BY <1>1, <1>3, <2>1, OneIsFree
<1> QED BY <1>2, <1>4

\* What is held is in use.
LEMMA HeldIsInUse ==
    /\ view.base.ref \in InUse
    /\ \A i \in DOMAIN view.segs : view.segs[i].ref \in InUse
    /\ \A c \in Holding : job[c].base.ref \in InUse /\ \A i \in DOMAIN job[c].segs : job[c].segs[i].ref \in InUse
<1>1. \A v : v.base.ref \in RefsOf(v) /\ \A i \in DOMAIN v.segs : v.segs[i].ref \in RefsOf(v)
  BY DEF RefsOf
<1>2. RefsOf(view) \subseteq InUse /\ \A c \in Holding : RefsOf(job[c]) \subseteq InUse
  BY DEF InUse, Holding
<1> QED BY <1>1, <1>2
-----------------------------------------------------------------------------
(***************************************************************************)
(* Stacks.                                                                 *)
(***************************************************************************)
\* A stack replaced by its merge, at any address, merges to the same.
LEMMA MergeOfMerge ==
    ASSUME NEW s, NEW r
    PROVE  MergeSegments(<<At(r, MergeSegments(s))>>) = MergeSegments(s)
<1> DEFINE x == At(r, MergeSegments(s))
<1>1. /\ x.nodes = MergeField(s, "nodes") /\ x.edges = MergeField(s, "edges")
      /\ x.addedKinds = UNION {s[i].addedKinds : i \in DOMAIN s}
  BY SegmentAt DEF MergeSegments
<1> HIDE DEF x
<1>2. DOMAIN <<x>> = {1} /\ <<x>>[1] = x
  BY OneFacts
<1>3. MergeField(<<x>>, "nodes") = MergeField(s, "nodes")
  <2>1. /\ DOMAIN MergeField(<<x>>, "nodes") = DOMAIN MergeField(s, "nodes")
        /\ \A id \in DOMAIN MergeField(s, "nodes") : MergeField(<<x>>, "nodes")[id] = MergeField(s, "nodes")[id]
    BY <1>1, MergeOne
  <2> QED BY <2>1 DEF MergeField
<1>4. MergeField(<<x>>, "edges") = MergeField(s, "edges")
  <2>1. /\ DOMAIN MergeField(<<x>>, "edges") = DOMAIN MergeField(s, "edges")
        /\ \A id \in DOMAIN MergeField(s, "edges") : MergeField(<<x>>, "edges")[id] = MergeField(s, "edges")[id]
    BY <1>1, MergeOne
  <2> QED BY <2>1 DEF MergeField
<1>5. UNION {<<x>>[i].addedKinds : i \in DOMAIN <<x>>} = x.addedKinds
  BY <1>2
<1>6. MergeSegments(<<x>>) = MergeSegments(s)
  BY <1>1, <1>3, <1>4, <1>5 DEF MergeSegments
<1> QED BY <1>6 DEF x

-----------------------------------------------------------------------------
(***************************************************************************)
(* The steps.                                                              *)
(***************************************************************************)

\* Absent and deleted are told apart.
LEMMA UnbornIsNotTombstone == Unborn # Tombstone
<1>1. DOMAIN Unborn = {"unborn"} /\ DOMAIN Tombstone = {"tombstoned"}
  BY DEF Unborn, Tombstone
<1> QED BY <1>1

\* What a load of PostgreSQL holds: rows, and edges between them.
LEMMA LoadedShows ==
    ASSUME NEW db, NEW r
    PROVE  /\ BaseSound(At(r, LoadedBase(db)))
           /\ LoadedBase(db).nodes = At(r, LoadedBase(db)).nodes
           /\ LoadedBase(db).edges = At(r, LoadedBase(db)).edges
           /\ LoadedBase(db).kinds = At(r, LoadedBase(db)).kinds
           /\ \A n \in DOMAIN LoadedBase(db).nodes : LoadedBase(db).nodes[n] # Tombstone
<1> DEFINE ns == Rows(db.nodes)
           es == Rows(db.edges)
<1>1. PICK ks : LoadedBase(db) = BuildBase(ns, es, ks)
  BY DEF LoadedBase
<1>2. (\A n \in DOMAIN ns : ns[n] # Tombstone) /\ \A e \in DOMAIN es : es[e] # Tombstone
  BY DEF Rows, Restrict
<1> HIDE DEF ns, es
<1> DEFINE kept == {e \in DOMAIN es : {es[e].start, es[e].end} \subseteq DOMAIN ns}
<1>3. /\ LoadedBase(db).nodes = ns /\ LoadedBase(db).kinds = ks
      /\ LoadedBase(db).edges = Restrict(es, kept)
  BY <1>1 DEF BuildBase
<1>4. /\ At(r, LoadedBase(db)).nodes = ns /\ At(r, LoadedBase(db)).kinds = ks
      /\ At(r, LoadedBase(db)).edges = Restrict(es, kept)
  BY <1>1, BaseAt
<1>5. /\ DOMAIN Restrict(es, kept) = kept
      /\ \A e \in kept : Restrict(es, kept)[e] = es[e] /\ es[e].start \in DOMAIN ns /\ es[e].end \in DOMAIN ns
  BY DEF Restrict
<1> HIDE DEF kept
<1>6. kept \subseteq DOMAIN es
  BY DEF kept
<1> QED BY <1>2, <1>3, <1>4, <1>5, <1>6 DEF BaseSound

\* A view freshly loaded shows the load, in which nothing is deleted.
LEMMA LoadedView ==
    ASSUME NEW db, NEW r
    PROVE  LET a == LoadedBase(db)
               v == NewView(At(r, a))
           IN  /\ ViewSound(v) /\ Shows(a, v.base, v.delta) /\ StackInv(a, v.segs)
               /\ v.segs = <<>> /\ v.base.ref = r
               /\ \A n : ~Gone(a, n)
<1> DEFINE a == LoadedBase(db)
           b == At(r, a)
           v == NewView(b)
<1>1. /\ BaseSound(b) /\ a.nodes = b.nodes /\ a.edges = b.edges /\ a.kinds = b.kinds
      /\ \A n \in DOMAIN a.nodes : a.nodes[n] # Tombstone
  BY LoadedShows
<1>2. b.ref = r
  BY DEF At
<1> HIDE DEF a, b
<1>3. /\ ViewSound(v) /\ v.base = b /\ v.segs = <<>>
      /\ DOMAIN v.delta.nodes = {} /\ DOMAIN v.delta.edges = {} /\ v.delta.addedKinds = {}
  BY <1>1, BaseAlone
<1> HIDE DEF v
<1>4. Shows(a, b, v.delta)
  BY <1>1, <1>3 DEF Shows, ShowsNodes, ShowsEdges, Upserts
<1>5. StackInv(a, v.segs)
  BY <1>3, EmptyStack DEF StackInv
<1>6. \A n : ~Gone(a, n)
  BY <1>1 DEF Gone
<1> QED BY <1>2, <1>3, <1>4, <1>5, <1>6 DEF a, b, v

\* A segment applied over what was applied, and over the view that showed it.
LEMMA AppendShows ==
    ASSUME NEW base, NEW s, IsSeq(s), NEW a, Shows(a, base, MergeSegments(s)),
           NEW x, NEW a2, a2.nodes = Over(x.nodes, a.nodes), a2.edges = Over(x.edges, a.edges),
           a2.kinds = x.addedKinds \cup a.kinds,
           \A n : Gone(a, n) => Gone(a2, n)
    PROVE  Shows(a2, base, MergeSegments(Append(s, x)))
<1> DEFINE old == MergeSegments(s)
           new == MergeSegments(Append(s, x))
<1>1. /\ new.nodes = Over(x.nodes, old.nodes) /\ new.edges = Over(x.edges, old.edges)
      /\ new.addedKinds = old.addedKinds \cup x.addedKinds
  BY MergeAppend
<1>2. Shows(a, base, old)
  OBVIOUS
<1> HIDE DEF old, new
<1>3. /\ DOMAIN new.nodes = DOMAIN x.nodes \cup DOMAIN old.nodes
      /\ \A n \in DOMAIN new.nodes : new.nodes[n] = IF n \in DOMAIN x.nodes THEN x.nodes[n] ELSE old.nodes[n]
      /\ DOMAIN a2.nodes = DOMAIN x.nodes \cup DOMAIN a.nodes
      /\ \A n \in DOMAIN a2.nodes : a2.nodes[n] = IF n \in DOMAIN x.nodes THEN x.nodes[n] ELSE a.nodes[n]
  BY <1>1 DEF Over
<1>4. /\ DOMAIN new.edges = DOMAIN x.edges \cup DOMAIN old.edges
      /\ \A e \in DOMAIN new.edges : new.edges[e] = IF e \in DOMAIN x.edges THEN x.edges[e] ELSE old.edges[e]
      /\ DOMAIN a2.edges = DOMAIN x.edges \cup DOMAIN a.edges
      /\ \A e \in DOMAIN a2.edges : a2.edges[e] = IF e \in DOMAIN x.edges THEN x.edges[e] ELSE a.edges[e]
  BY <1>1 DEF Over
<1>5. ShowsNodes(a2, base, new)
  BY <1>2, <1>3 DEF Shows, ShowsNodes
<1>6. ShowsEdges(a2, base, new)
  <2>1. \A e \in Upserts(a2.edges) \ DOMAIN new.edges : e \in Upserts(a.edges) /\ a2.edges[e] = a.edges[e]
    BY <1>4 DEF Upserts
  <2>2. \A e \in Upserts(a2.edges) \ (DOMAIN base.edges \cup DOMAIN new.edges) :
           Gone(a2, a2.edges[e].start) \/ Gone(a2, a2.edges[e].end)
    BY <1>2, <1>4, <2>1 DEF Shows, ShowsEdges
  <2> QED BY <1>2, <1>4, <2>2 DEF Shows, ShowsEdges
<1>7. base.kinds \cup new.addedKinds = a2.kinds
  BY <1>1, <1>2 DEF Shows
<1> QED BY <1>5, <1>6, <1>7 DEF Shows, new

\* Merging a stack keeps StackInv.
LEMMA MergeKeepsStack ==
    ASSUME NEW a, NEW s, IsSeq(s), StackInv(a, s), NEW r
    PROVE  StackInv(a, <<At(r, MergeSegments(s))>>)
<1> DEFINE x == At(r, MergeSegments(s))
<1>1. x.nodes = MergeField(s, "nodes")
  BY SegmentAt DEF MergeSegments
<1> HIDE DEF x
<1>2. \A n \in DOMAIN x.nodes : x.nodes[n] = Tombstone => Gone(a, n)
  <2> SUFFICES ASSUME NEW n \in DOMAIN x.nodes, x.nodes[n] = Tombstone  PROVE Gone(a, n)
    OBVIOUS
  <2>1. PICK i \in DOMAIN s : n \in DOMAIN s[i].nodes /\ MergeField(s, "nodes")[n] = s[i].nodes[n]
    BY <1>1, MergedRowIsOurs
  <2> QED BY <1>1, <2>1 DEF StackInv
<1>3. DOMAIN <<x>> = {1} /\ <<x>>[1] = x
  BY OneFacts
<1>4. StackInv(a, <<x>>)
  BY <1>2, <1>3 DEF StackInv
<1> QED BY <1>4 DEF x

\* A segment on a base alone.
LEMMA OneSegment ==
    ASSUME NEW b, BaseSound(b), NEW x
    PROVE  WithSegment(NewView(b), x) = ViewOf(b, <<x>>)
<1>1. NewView(b).base = b /\ NewView(b).segs = <<>>
  BY BaseAlone
<1>2. Append(<<>>, x) = <<x>>
  OBVIOUS
<1> QED BY <1>1, <1>2 DEF WithSegment

\* collapseSegmentStackIfNeeded keeps the base and what the stack says.
LEMMA CollapseKeeps ==
    ASSUME NEW v, ViewSound(v), NEW a, StackInv(a, v.segs), NEW r
    PROVE  LET w == Collapse(v, r)
           IN  /\ ViewSound(w) /\ w.base = v.base /\ w.delta = v.delta /\ StackInv(a, w.segs)
               /\ w.segs = v.segs \/ \E x : w.segs = <<x>> /\ x.ref = r
<1> DEFINE w == Collapse(v, r)
           x == At(r, MergeSegments(v.segs))
<1>1. CASE Len(v.segs) <= MaxSegments
  <2>1. w = v
    BY <1>1 DEF Collapse
  <2> QED BY <2>1
<1>2. CASE ~(Len(v.segs) <= MaxSegments)
  <2>1. BaseSound(v.base) /\ IsSeq(v.segs) /\ v.delta = MergeSegments(v.segs)
    BY ViewFields DEF ViewSound
  <2>2. x.ref = r
    BY SegmentAt DEF MergeSegments
  <2>3. MergeSegments(<<x>>) = MergeSegments(v.segs)
    BY MergeOfMerge
  <2>4. StackInv(a, <<x>>)
    BY <2>1, MergeKeepsStack
  <2>5. w = WithSegment(NewView(v.base), x)
    BY <1>2 DEF Collapse
  <2> HIDE DEF w, x
  <2>6. w = ViewOf(v.base, <<x>>)
    BY <2>1, <2>5, OneSegment
  <2>7. IsSeq(<<x>>)
    BY OneFacts
  <2>8. ViewSound(w) /\ w.base = v.base /\ w.segs = <<x>> /\ w.delta = MergeSegments(<<x>>)
    BY <2>1, <2>6, <2>7, ViewOfFields
  <2> QED BY <2>1, <2>2, <2>3, <2>4, <2>8 DEF w
<1> QED BY <1>1, <1>2

(***************************************************************************)
(* What a fold keeps: the base b and the captured stack p become a base and *)
(* the pending edges, with the tail t of segments that arrived since on top. *)
(***************************************************************************)
Pending(b, p) == FoldWithPendingEdges(b, p).pending
Kept(b, p, t) == (IF Pending(b, p).edges = Empty THEN <<>> ELSE <<Pending(b, p)>>) \o t

\* FoldNodeFate, one case at a time.
LEMMA Fate ==
    ASSUME NEW b, NEW m, NEW n
    PROVE  /\ FoldNodeFate(b, m, n) = "gone" <=> n \in DOMAIN m.nodes /\ m.nodes[n] = Tombstone
           /\ FoldNodeFate(b, m, n) = "live" <=>
                IF n \in DOMAIN m.nodes THEN m.nodes[n] # Tombstone ELSE n \in DOMAIN b.nodes
           /\ FoldNodeFate(b, m, n) \in {"gone", "live", "pending"}
<1>1. CASE n \in DOMAIN m.nodes /\ m.nodes[n] = Tombstone
  <2>1. FoldNodeFate(b, m, n) = "gone"
    BY <1>1 DEF FoldNodeFate, Upserts
  <2> QED BY <1>1, <2>1
<1>2. CASE ~(n \in DOMAIN m.nodes /\ m.nodes[n] = Tombstone) /\ n \in DOMAIN m.nodes \cup DOMAIN b.nodes
  <2>1. FoldNodeFate(b, m, n) = "live"
    BY <1>2 DEF FoldNodeFate, Upserts
  <2> QED BY <1>2, <2>1
<1>3. CASE n \notin DOMAIN m.nodes \cup DOMAIN b.nodes
  <2>1. FoldNodeFate(b, m, n) = "pending"
    BY <1>3 DEF FoldNodeFate, Upserts
  <2> QED BY <1>3, <2>1
<1> QED BY <1>1, <1>2, <1>3

\* The base c holds the rows of b that the merged stack m leaves, m's rows over
\* them, and the edges of both whose ends it holds.
FoldsNodes(c, b, m) ==
    /\ \A n : n \in DOMAIN c.nodes <=>
          IF n \in DOMAIN m.nodes THEN m.nodes[n] # Tombstone ELSE n \in DOMAIN b.nodes
    /\ \A n \in DOMAIN c.nodes : c.nodes[n] = IF n \in DOMAIN m.nodes THEN m.nodes[n] ELSE b.nodes[n]
FoldsEdges(c, b, m) ==
    /\ \A e : e \in DOMAIN c.edges <=>
          IF e \in DOMAIN m.edges
            THEN /\ m.edges[e] # Tombstone
                 /\ m.edges[e].start \in DOMAIN c.nodes /\ m.edges[e].end \in DOMAIN c.nodes
            ELSE /\ e \in DOMAIN b.edges
                 /\ b.edges[e].start \in DOMAIN c.nodes /\ b.edges[e].end \in DOMAIN c.nodes
    /\ \A e \in DOMAIN c.edges : c.edges[e] = IF e \in DOMAIN m.edges THEN m.edges[e] ELSE b.edges[e]

\* The folded base, by id.
LEMMA FoldedBase ==
    ASSUME NEW b, BaseSound(b), NEW p, NEW r
    PROVE  LET m == MergeSegments(p)
               c == At(r, FoldWithPendingEdges(b, p).folded)
           IN  /\ BaseSound(c) /\ c.ref = r /\ c.kinds = b.kinds \cup m.addedKinds
               /\ FoldsNodes(c, b, m) /\ FoldsEdges(c, b, m)
<1> DEFINE m == MergeSegments(p)
           ns == FoldNodes(b, m)
           es == FoldEdges(b, m)
           c == At(r, FoldWithPendingEdges(b, p).folded)
           kept == {e \in DOMAIN es : {es[e].start, es[e].end} \subseteq DOMAIN ns}
<1>1. c = At(r, BuildBase(ns, es, b.kinds \cup m.addedKinds))
  BY DEF FoldWithPendingEdges
<1>2. /\ c.nodes = ns /\ c.kinds = b.kinds \cup m.addedKinds /\ c.ref = r
      /\ c.edges = Restrict(es, kept)
  BY <1>1, BaseAt
<1> HIDE DEF m, c
<1>3. /\ \A n : n \in DOMAIN ns <=>
            IF n \in DOMAIN m.nodes THEN m.nodes[n] # Tombstone ELSE n \in DOMAIN b.nodes
      /\ \A n \in DOMAIN ns : ns[n] = IF n \in DOMAIN m.nodes THEN m.nodes[n] ELSE b.nodes[n]
  BY DEF FoldNodes, Upserts
<1>4. \A n : n \in DOMAIN ns <=> FoldNodeFate(b, m, n) = "live"
  <2> HIDE DEF ns
  <2> QED BY <1>3, Fate
<1>5. \A e \in Upserts(m.edges) : e \in FoldedDelta(b, m) <=>
         m.edges[e].start \in DOMAIN ns /\ m.edges[e].end \in DOMAIN ns
  BY <1>4 DEF FoldedDelta, EdgeFates
<1>6. /\ \A e : e \in DOMAIN es <=> (e \in DOMAIN b.edges \ DOMAIN m.edges \/ e \in FoldedDelta(b, m))
      /\ \A e \in DOMAIN es : es[e] = IF e \in DOMAIN m.edges THEN m.edges[e] ELSE b.edges[e]
  BY DEF FoldEdges
<1>7. FoldedDelta(b, m) \subseteq Upserts(m.edges)
  BY DEF FoldedDelta
<1> HIDE DEF ns, es
<1>8. /\ DOMAIN c.edges = kept
      /\ \A e \in kept : c.edges[e] = es[e]
  BY <1>2 DEF Restrict
<1>9. \A e : e \in kept <=> /\ e \in DOMAIN es
                            /\ es[e].start \in DOMAIN ns /\ es[e].end \in DOMAIN ns
  OBVIOUS
<1> HIDE DEF kept
<1>10. \A e \in DOMAIN c.edges : c.edges[e] = IF e \in DOMAIN m.edges THEN m.edges[e] ELSE b.edges[e]
  BY <1>6, <1>8, <1>9
<1>11. ASSUME NEW e
       PROVE  e \in DOMAIN c.edges <=>
                 IF e \in DOMAIN m.edges
                   THEN /\ m.edges[e] # Tombstone
                        /\ m.edges[e].start \in DOMAIN ns /\ m.edges[e].end \in DOMAIN ns
                   ELSE /\ e \in DOMAIN b.edges
                        /\ b.edges[e].start \in DOMAIN ns /\ b.edges[e].end \in DOMAIN ns
  <2>1. CASE e \in DOMAIN m.edges
    BY <1>5, <1>6, <1>7, <1>8, <1>9, <2>1 DEF Upserts
  <2>2. CASE e \notin DOMAIN m.edges
    BY <1>6, <1>7, <1>8, <1>9, <2>2 DEF Upserts
  <2> QED BY <2>1, <2>2
<1>12. BaseSound(c)
  <2>1. \A n \in DOMAIN c.nodes : c.nodes[n] # Tombstone
    BY <1>2, <1>3 DEF BaseSound
  <2>2. \A e \in DOMAIN c.edges : /\ c.edges[e] # Tombstone
                                  /\ c.edges[e].start \in DOMAIN c.nodes
                                  /\ c.edges[e].end \in DOMAIN c.nodes
    BY <1>2, <1>10, <1>11 DEF BaseSound
  <2> QED BY <2>1, <2>2 DEF BaseSound
<1>13. FoldsNodes(c, b, m) /\ FoldsEdges(c, b, m)
  BY <1>2, <1>3, <1>10, <1>11 DEF FoldsNodes, FoldsEdges
<1> QED BY <1>2, <1>12, <1>13 DEF c, m

\* The stack a fold leaves: the tail, over the edges that wait for an endpoint.
LEMMA KeptStack ==
    ASSUME NEW b, NEW p, NEW t, IsSeq(t)
    PROVE  LET m == MergeSegments(p)
               k == MergeSegments(Kept(b, p, t))
               d == MergeSegments(t)
               waits == PendingEdges(b, m)
           IN  /\ IsSeq(Kept(b, p, t))
               /\ k.nodes = d.nodes /\ k.edges = Over(d.edges, waits) /\ k.addedKinds = d.addedKinds
               /\ \A a : StackInv(a, t) => StackInv(a, Kept(b, p, t))
<1> DEFINE m == MergeSegments(p)
           waits == PendingEdges(b, m)
           x == Pending(b, p)
           q == IF x.edges = Empty THEN <<>> ELSE <<x>>
           u == q \o t
<1>1. x.nodes = Empty /\ x.edges = waits /\ x.addedKinds = {} /\ DOMAIN x.nodes = {}
  BY DEF Pending, FoldWithPendingEdges, NewSegment, Empty
<1>2. waits = [e \in DOMAIN waits |-> waits[e]]
  BY DEF PendingEdges, Restrict
<1> HIDE DEF m, waits, x
<1>3. /\ IsSeq(q) /\ \A i \in DOMAIN q : q[i] = x
      /\ DOMAIN MergeField(q, "nodes") = {}
      /\ DOMAIN MergeField(q, "edges") = DOMAIN waits
      /\ \A e \in DOMAIN waits : MergeField(q, "edges")[e] = waits[e]
  <2>1. CASE x.edges = Empty
    <3>1. q = <<>> /\ DOMAIN waits = {}
      BY <1>1, <2>1 DEF Empty
    <3> HIDE DEF q
    <3> QED BY <3>1, EmptyStack, MergeNone
  <2>2. CASE x.edges # Empty
    <3>1. q = <<x>>
      BY <2>2
    <3> HIDE DEF q
    <3>2. IsSeq(<<x>>) /\ DOMAIN <<x>> = {1} /\ <<x>>[1] = x
      BY OneFacts
    <3>3. /\ DOMAIN MergeField(<<x>>, "nodes") = DOMAIN x["nodes"]
          /\ DOMAIN MergeField(<<x>>, "edges") = DOMAIN x["edges"]
          /\ \A e \in DOMAIN x["edges"] : MergeField(<<x>>, "edges")[e] = x["edges"][e]
      BY MergeOne
    <3> QED BY <1>1, <3>1, <3>2, <3>3
  <2> QED BY <2>1, <2>2
<1> HIDE DEF q
<1>4. OnTop(u, q, t)
  <2>1. IsSeq(q)
    BY <1>3
  <2> QED BY <2>1, CatIsOnTop
<1>5. /\ IsSeq(u) /\ DOMAIN u = 1 .. Len(q) + Len(t)
      /\ \A i \in DOMAIN q : u[i] = q[i]
      /\ \A i \in DOMAIN t : u[Len(q) + i] = t[i]
  BY <1>4 DEF OnTop
<1>6. /\ Len(q) \in Nat /\ DOMAIN q = 1 .. Len(q)
      /\ Len(t) \in Nat /\ DOMAIN t = 1 .. Len(t)
  BY <1>3, SeqFacts
<1> HIDE DEF u
<1>7. \A i \in DOMAIN u : u[i] = x \/ \E j \in DOMAIN t : u[i] = t[j]
  <2> TAKE i \in DOMAIN u
  <2>1. CASE i <= Len(q)
    BY <1>3, <1>5, <1>6, <2>1
  <2>2. CASE i > Len(q)
    <3>1. i - Len(q) \in DOMAIN t /\ Len(q) + (i - Len(q)) = i
      BY <1>5, <1>6, <2>2
    <3> QED BY <1>5, <3>1
  <2> QED BY <1>5, <1>6, <2>1, <2>2
<1>8. \A j \in DOMAIN t : Len(q) + j \in DOMAIN u /\ u[Len(q) + j] = t[j]
  BY <1>5, <1>6
<1>9. MergeField(u, "nodes") = MergeField(t, "nodes")
  <2>1. MergeField(u, "nodes") = Over(MergeField(t, "nodes"), MergeField(q, "nodes"))
    BY <1>4, MergeOnTop
  <2>2. MergeField(t, "nodes") = [id \in DOMAIN MergeField(t, "nodes") |-> MergeField(t, "nodes")[id]]
    BY DEF MergeField
  <2> QED BY <1>3, <2>1, <2>2 DEF Over
<1>10. MergeField(u, "edges") = Over(MergeField(t, "edges"), waits)
  <2>1. MergeField(u, "edges") = Over(MergeField(t, "edges"), MergeField(q, "edges"))
    BY <1>4, MergeOnTop
  <2> QED BY <1>3, <2>1 DEF Over
<1>11. UNION {u[i].addedKinds : i \in DOMAIN u} = UNION {t[j].addedKinds : j \in DOMAIN t}
  BY <1>1, <1>7, <1>8
<1>12. \A a : StackInv(a, t) => StackInv(a, u)
  BY <1>1, <1>7 DEF StackInv
<1>13. Kept(b, p, t) = u
  BY DEF Kept, u, q, x
<1>14. /\ MergeSegments(u).nodes = MergeSegments(t).nodes
       /\ MergeSegments(u).addedKinds = MergeSegments(t).addedKinds
  BY <1>9, <1>11, MergeFields
<1>15. MergeSegments(u).edges = Over(MergeSegments(t).edges, waits)
  BY <1>10, MergeFields
<1> QED BY <1>5, <1>12, <1>13, <1>14, <1>15 DEF waits, m

\* What a stack says, from its two parts.
LEMMA MergeStacks ==
    ASSUME NEW u, NEW p, NEW t, OnTop(u, p, t)
    PROVE  LET d == MergeSegments(u)
               m == MergeSegments(p)
               n == MergeSegments(t)
           IN  /\ d.nodes = Over(n.nodes, m.nodes) /\ d.edges = Over(n.edges, m.edges)
               /\ d.addedKinds = m.addedKinds \cup n.addedKinds
<1>1. /\ MergeField(u, "nodes") = Over(MergeField(t, "nodes"), MergeField(p, "nodes"))
      /\ MergeField(u, "edges") = Over(MergeField(t, "edges"), MergeField(p, "edges"))
  BY MergeOnTop
<1>2. /\ IsSeq(p) /\ IsSeq(t) /\ DOMAIN u = 1 .. Len(p) + Len(t)
      /\ \A i \in DOMAIN p : u[i] = p[i]
      /\ \A i \in DOMAIN t : u[Len(p) + i] = t[i]
  BY DEF OnTop
<1>3. /\ Len(p) \in Nat /\ DOMAIN p = 1 .. Len(p)
      /\ Len(t) \in Nat /\ DOMAIN t = 1 .. Len(t)
  BY <1>2, SeqFacts
<1>4. \A i \in DOMAIN p : i \in DOMAIN u
  BY <1>2, <1>3
<1>5. \A i \in DOMAIN t : Len(p) + i \in DOMAIN u
  BY <1>2, <1>3
<1>6. \A i \in DOMAIN u : i \in DOMAIN p \/ \E j \in DOMAIN t : i = Len(p) + j
  <2> TAKE i \in DOMAIN u
  <2>1. CASE i > Len(p)
    <3>1. i - Len(p) \in DOMAIN t /\ i = Len(p) + (i - Len(p))
      BY <1>2, <1>3, <2>1
    <3> QED BY <3>1
  <2> QED BY <1>2, <1>3, <2>1
<1>7. UNION {u[i].addedKinds : i \in DOMAIN u} =
        (UNION {p[i].addedKinds : i \in DOMAIN p}) \cup UNION {t[i].addedKinds : i \in DOMAIN t}
  BY <1>2, <1>4, <1>5, <1>6
<1> QED BY <1>1, <1>7, MergeFields

\* A node the captured stack tombstones was applied as deleted.
LEMMA TombstonesAreGone ==
    ASSUME NEW u, NEW p, NEW t, OnTop(u, p, t), NEW a, StackInv(a, u),
           NEW n \in DOMAIN MergeSegments(p).nodes, MergeSegments(p).nodes[n] = Tombstone
    PROVE  Gone(a, n)
<1>1. /\ IsSeq(p) /\ IsSeq(t) /\ DOMAIN u = 1 .. Len(p) + Len(t)
      /\ \A i \in DOMAIN p : u[i] = p[i]
  BY DEF OnTop
<1>2. /\ Len(p) \in Nat /\ DOMAIN p = 1 .. Len(p) /\ Len(t) \in Nat
  BY <1>1, SeqFacts
<1>3. PICK i \in DOMAIN p : n \in DOMAIN p[i].nodes /\ MergeField(p, "nodes")[n] = p[i].nodes[n]
  BY <1>1, MergeFields, MergedRowIsOurs
<1>4. i \in DOMAIN u /\ u[i] = p[i]
  BY <1>1, <1>2
<1> QED BY <1>3, <1>4, MergeFields DEF StackInv

\* The edges a fold leaves pending.
LEMMA Waiting ==
    ASSUME NEW b, NEW m
    PROVE  LET waits == PendingEdges(b, m)
               IsTomb(n) == n \in DOMAIN m.nodes /\ m.nodes[n] = Tombstone
               IsHere(n) == IF n \in DOMAIN m.nodes THEN m.nodes[n] # Tombstone ELSE n \in DOMAIN b.nodes
           IN  /\ \A e \in DOMAIN waits : e \in DOMAIN m.edges /\ waits[e] = m.edges[e]
               /\ \A e \in Upserts(m.edges) :
                     \/ IsTomb(m.edges[e].start) \/ IsTomb(m.edges[e].end)
                     \/ IsHere(m.edges[e].start) /\ IsHere(m.edges[e].end)
                     \/ e \in DOMAIN waits
<1> DEFINE waits == PendingEdges(b, m)
<1>1. /\ DOMAIN waits = {e \in Upserts(m.edges) :
                            "gone" \notin EdgeFates(b, m, e) /\ "pending" \in EdgeFates(b, m, e)}
      /\ \A e \in DOMAIN waits : waits[e] = m.edges[e]
  BY DEF PendingEdges, Restrict
<1>2. Upserts(m.edges) \subseteq DOMAIN m.edges
  BY DEF Upserts
<1>3. ASSUME NEW e \in Upserts(m.edges),
             FoldNodeFate(b, m, m.edges[e].start) # "gone", FoldNodeFate(b, m, m.edges[e].end) # "gone",
             FoldNodeFate(b, m, m.edges[e].start) # "live" \/ FoldNodeFate(b, m, m.edges[e].end) # "live"
      PROVE  e \in DOMAIN waits
  <2>1. "pending" \in EdgeFates(b, m, e) /\ "gone" \notin EdgeFates(b, m, e)
    BY <1>3, Fate DEF EdgeFates
  <2> QED BY <1>1, <2>1
<1> HIDE DEF waits
<1>4. \A e \in DOMAIN waits : e \in DOMAIN m.edges /\ waits[e] = m.edges[e]
  BY <1>1, <1>2
<1> QED BY <1>3, <1>4, Fate DEF waits

\* The fold's base under what it left pending and what arrived since shows what
\* the captured base showed under the whole stack.
LEMMA FoldShows ==
    ASSUME NEW b, BaseSound(b), NEW p, NEW t, NEW u, OnTop(u, p, t),
           NEW a, Shows(a, b, MergeSegments(u)), StackInv(a, u), NEW r
    PROVE  Shows(a, At(r, FoldWithPendingEdges(b, p).folded), MergeSegments(Kept(b, p, t)))
<1> DEFINE m == MergeSegments(p)
           d == MergeSegments(t)
           old == MergeSegments(u)
           new == MergeSegments(Kept(b, p, t))
           c == At(r, FoldWithPendingEdges(b, p).folded)
           waits == PendingEdges(b, m)
<1>1. /\ old.nodes = Over(d.nodes, m.nodes) /\ old.edges = Over(d.edges, m.edges)
      /\ old.addedKinds = m.addedKinds \cup d.addedKinds
  BY MergeStacks
<1>2. new.nodes = d.nodes /\ new.edges = Over(d.edges, waits) /\ new.addedKinds = d.addedKinds
  BY KeptStack DEF OnTop
<1>3. c.kinds = b.kinds \cup m.addedKinds /\ FoldsNodes(c, b, m) /\ FoldsEdges(c, b, m)
  BY FoldedBase
<1>4. \A n \in DOMAIN m.nodes : m.nodes[n] = Tombstone => Gone(a, n)
  BY TombstonesAreGone
<1>5. /\ \A e \in DOMAIN waits : e \in DOMAIN m.edges /\ waits[e] = m.edges[e]
      /\ \A e \in Upserts(m.edges) :
            \/ m.edges[e].start \in DOMAIN m.nodes /\ m.nodes[m.edges[e].start] = Tombstone
            \/ m.edges[e].end \in DOMAIN m.nodes /\ m.nodes[m.edges[e].end] = Tombstone
            \/ m.edges[e].start \in DOMAIN c.nodes /\ m.edges[e].end \in DOMAIN c.nodes
            \/ e \in DOMAIN waits
  <2> HIDE DEF m, c
  <2> QED BY <1>3, Waiting DEF FoldsNodes
<1>6. Shows(a, b, old)
  OBVIOUS
<1> HIDE DEF m, d, old, new, c, waits
<1>7. /\ DOMAIN old.nodes = DOMAIN d.nodes \cup DOMAIN m.nodes
      /\ \A n \in DOMAIN old.nodes : old.nodes[n] = IF n \in DOMAIN d.nodes THEN d.nodes[n] ELSE m.nodes[n]
      /\ DOMAIN old.edges = DOMAIN d.edges \cup DOMAIN m.edges
      /\ \A e \in DOMAIN old.edges : old.edges[e] = IF e \in DOMAIN d.edges THEN d.edges[e] ELSE m.edges[e]
      /\ DOMAIN new.edges = DOMAIN d.edges \cup DOMAIN waits
      /\ \A e \in DOMAIN new.edges : new.edges[e] = IF e \in DOMAIN d.edges THEN d.edges[e] ELSE waits[e]
  BY <1>1, <1>2 DEF Over
<1>8. ShowsNodes(a, c, new)
  <2>1. ShowsNodes(a, b, old)
    BY <1>6 DEF Shows
  <2>2. \A n \in DOMAIN new.nodes : n \in DOMAIN a.nodes /\ a.nodes[n] = new.nodes[n]
    BY <1>2, <1>7, <2>1 DEF ShowsNodes
  <2>3. \A n \in DOMAIN c.nodes \ DOMAIN new.nodes : n \in DOMAIN a.nodes /\ a.nodes[n] = c.nodes[n]
    BY <1>2, <1>3, <1>7, <2>1 DEF ShowsNodes, FoldsNodes
  <2>4. \A n \in DOMAIN a.nodes \ (DOMAIN c.nodes \cup DOMAIN new.nodes) : Gone(a, n)
    BY <1>2, <1>3, <1>4, <1>7, <2>1 DEF ShowsNodes, FoldsNodes
  <2> QED BY <2>2, <2>3, <2>4 DEF ShowsNodes
<1>9. ShowsEdges(a, c, new)
  <2>1. ShowsEdges(a, b, old)
    BY <1>6 DEF Shows
  <2>2. \A e \in DOMAIN new.edges : e \in DOMAIN a.edges /\ a.edges[e] = new.edges[e]
    BY <1>5, <1>7, <2>1 DEF ShowsEdges
  <2>3. \A e \in DOMAIN c.edges \ DOMAIN new.edges : e \in DOMAIN a.edges /\ a.edges[e] = c.edges[e]
    BY <1>3, <1>7, <2>1 DEF ShowsEdges, FoldsEdges
  <2>4. ASSUME NEW e \in Upserts(a.edges) \ (DOMAIN c.edges \cup DOMAIN new.edges)
        PROVE  Gone(a, a.edges[e].start) \/ Gone(a, a.edges[e].end)
    <3>1. CASE e \in DOMAIN m.edges
      <4>1. a.edges[e] = m.edges[e] /\ e \in Upserts(m.edges)
        BY <1>7, <2>1, <2>4, <3>1 DEF ShowsEdges, Upserts
      <4>2. \/ m.edges[e].start \in DOMAIN m.nodes /\ m.nodes[m.edges[e].start] = Tombstone
            \/ m.edges[e].end \in DOMAIN m.nodes /\ m.nodes[m.edges[e].end] = Tombstone
        BY <1>3, <1>5, <1>7, <2>4, <3>1, <4>1 DEF Upserts, FoldsEdges
      <4> QED BY <1>4, <4>1, <4>2
    <3>2. CASE e \notin DOMAIN m.edges /\ e \in DOMAIN b.edges
      <4>1. a.edges[e] = b.edges[e]
        BY <1>7, <2>1, <2>4, <3>2 DEF ShowsEdges
      <4>2. b.edges[e].start \in DOMAIN b.nodes /\ b.edges[e].end \in DOMAIN b.nodes
        BY <3>2 DEF BaseSound
      <4>3. b.edges[e].start \notin DOMAIN c.nodes \/ b.edges[e].end \notin DOMAIN c.nodes
        BY <1>3, <2>4, <3>2 DEF FoldsEdges
      <4> QED BY <1>3, <1>4, <4>1, <4>2, <4>3 DEF FoldsNodes
    <3>3. CASE e \notin DOMAIN m.edges /\ e \notin DOMAIN b.edges
      BY <1>7, <2>1, <2>4, <3>3 DEF ShowsEdges
    <3> QED BY <3>1, <3>2, <3>3
  <2> QED BY <2>2, <2>3, <2>4 DEF ShowsEdges
<1>10. c.kinds \cup new.addedKinds = a.kinds
  BY <1>1, <1>2, <1>3, <1>6 DEF Shows
<1> QED BY <1>8, <1>9, <1>10 DEF Shows, c, new
-----------------------------------------------------------------------------
\* The parts of the invariant that speak of the view and of what was applied.
Shown == ViewSound(view) /\ Shows(applied, view.base, view.delta) /\ StackInv(applied, view.segs)

\* The load at start.
LEMMA InitShows == ASSUME Init PROVE StackShowsApplied
<1>1. view = NewView(At(0, LoadedBase(pg))) /\ applied = LoadedBase(pg)
  BY DEF Init
<1>2. Shown /\ view.segs = <<>> /\ \A n : ~Gone(applied, n)
  BY <1>1, LoadedView DEF Shown
<1>3. PgInv
  <2>1. DOMAIN pg = {"nodes", "edges"} /\ DOMAIN pg.nodes = NodeIds /\ unapplied = {}
    BY DEF Init
  <2> QED BY <1>2, <2>1 DEF PgInv
<1>4. DOMAIN job = Compactors /\ \A c \in Compactors : job[c].pc = "idle"
  BY DEF Init, Idle
<1>5. JobInv /\ Holding = {}
  BY <1>4 DEF JobInv, Holding
<1>6. RefInv
  BY <1>2, <1>5, EmptyStack DEF RefInv, SameSegments
<1> QED BY <1>2, <1>3, <1>5, <1>6 DEF StackShowsApplied, Shown

\* A commit in PostgreSQL: the view and the goroutines are as they were.
LEMMA CommitKeeps ==
    ASSUME CompactionConstants, StackShowsApplied, UpsertNode \/ DeleteNode \/ CreateEdge \/ DeleteEdge
    PROVE  StackShowsApplied'
<1>1. UNCHANGED <<view, job, applied>>
  BY DEF UpsertNode, DeleteNode, CreateEdge, DeleteEdge, Committed
<1>2. Shown' /\ JobInv' /\ RefInv'
  BY <1>1 DEF StackShowsApplied, Shown, JobInv, RefInv, Holding
<1>3. PgInv'
  <2> SUFFICES /\ DOMAIN pg' = {"nodes", "edges"} /\ DOMAIN pg'.nodes = NodeIds
               /\ \A n \in NodeIds : pg.nodes[n] = Tombstone => pg'.nodes[n] = Tombstone
               /\ \A n \in NodeIds : pg.nodes[n] # Unborn => pg'.nodes[n] # Unborn
               /\ \A cs \in unapplied' :
                     cs \in unapplied \/ \A n \in cs.nodes : n \in NodeIds /\ pg'.nodes[n] # Unborn
    BY <1>1 DEF StackShowsApplied, PgInv, Gone
  <2>0. DOMAIN pg = {"nodes", "edges"} /\ DOMAIN pg.nodes = NodeIds
    BY DEF StackShowsApplied, PgInv
  <2>1. CASE UpsertNode
    <3>1. PICK n \in NodeIds, row \in NodeRows :
             /\ pg.nodes[n] \notin {Tombstone, row}
             /\ pg' = [pg EXCEPT !.nodes[n] = row]
             /\ unapplied' = unapplied \cup {[write |-> writes, nodes |-> {n}, edges |-> {}]}
      BY <2>1 DEF UpsertNode, Committed
    <3>2. row # Unborn
      BY DEF CompactionConstants
    <3> QED BY <2>0, <3>1, <3>2
  <2>2. CASE DeleteNode
    <3>1. PICK n \in DOMAIN Rows(pg.nodes) :
             /\ DOMAIN pg' = {"nodes", "edges"} /\ pg'.nodes = [pg.nodes EXCEPT ![n] = Tombstone]
             /\ unapplied' = unapplied \cup {[write |-> writes, nodes |-> {n}, edges |-> {}]}
      <4>1. PICK n \in DOMAIN Rows(pg.nodes) :
               /\ pg' = [nodes |-> [pg.nodes EXCEPT ![n] = Tombstone],
                         edges |-> [e \in EdgeIds |->
                           IF e \in DOMAIN Rows(pg.edges) /\ n \in {pg.edges[e].start, pg.edges[e].end}
                             THEN Tombstone ELSE pg.edges[e]]]
               /\ Committed({n}, {})
        BY <2>2 DEF DeleteNode
      <4>2. DOMAIN pg' = {"nodes", "edges"} /\ pg'.nodes = [pg.nodes EXCEPT ![n] = Tombstone]
        BY <4>1
      <4> QED BY <4>1, <4>2 DEF Committed
    <3>2. n \in NodeIds
      BY <2>0 DEF Rows, Restrict
    <3> QED BY <2>0, <3>1, <3>2, UnbornIsNotTombstone
  <2>3. CASE CreateEdge \/ DeleteEdge
    <3>1. /\ DOMAIN pg' = {"nodes", "edges"} /\ pg'.nodes = pg.nodes
          /\ \E e : unapplied' = unapplied \cup {[write |-> writes, nodes |-> {}, edges |-> {e}]}
      BY <2>0, <2>3 DEF CreateEdge, DeleteEdge, Committed
    <3> QED BY <2>0, <3>1
  <2> QED BY <2>1, <2>2, <2>3
<1> QED BY <1>2, <1>3 DEF StackShowsApplied, Shown

\* Falling back forgets a change set; stopping touches none of this.
LEMMA FallBackKeeps ==
    ASSUME StackShowsApplied, ApplyFallsBack \/ Stop
    PROVE  StackShowsApplied'
<1>1. UNCHANGED <<view, job, applied, pg>> /\ unapplied' \subseteq unapplied
  BY DEF ApplyFallsBack, Stop
<1> QED BY <1>1 DEF StackShowsApplied, Shown, PgInv, JobInv, RefInv, Holding

\* The goroutine's steps that leave the view alone.
LEMMA RunKeeps ==
    ASSUME StackShowsApplied, NEW c \in Compactors,
           Fold(c) \/ DiscardCompaction(c) \/ CompactionPanics(c) \/ SaveReturns(c)
    PROVE  StackShowsApplied'
<1>1. UNCHANGED <<view, applied, pg, unapplied>>
  BY DEF Fold, DiscardCompaction, CompactionPanics, SaveReturns
<1>2. Shown' /\ PgInv'
  BY <1>1 DEF StackShowsApplied, Shown, PgInv
<1>3. JobInv /\ RefInv
  BY DEF StackShowsApplied
<1>4. CASE Fold(c)
  <2> DEFINE new == [pc |-> "folded", base |-> job[c].base, segs |-> job[c].segs,
                     result |-> FoldWithPendingEdges(job[c].base, job[c].segs)]
  <2>1. job' = [job EXCEPT ![c] = new] /\ job[c].pc = "fold"
    BY <1>4 DEF Fold
  <2>2. /\ new.pc = "folded" /\ new.base = job[c].base /\ new.segs = job[c].segs
        /\ new.result = FoldWithPendingEdges(job[c].base, job[c].segs)
    OBVIOUS
  <2> HIDE DEF new
  <2>3. /\ DOMAIN job' = Compactors /\ job'[c] = new
        /\ \A d \in Compactors \ {c} : job'[d] = job[d]
    BY <1>3, <2>1 DEF JobInv
  <2>4. c \in Holding /\ Holding' = Holding
    BY <2>1, <2>2, <2>3 DEF Holding
  <2>5. \A d \in Holding : job'[d].base = job[d].base /\ job'[d].segs = job[d].segs
    BY <2>2, <2>3 DEF Holding
  <2>6. JobInv'
    BY <1>3, <2>2, <2>3, <2>4, <2>5 DEF JobInv
  <2>7. RefInv'
    BY <1>1, <1>3, <2>4, <2>5 DEF RefInv
  <2> QED BY <1>2, <2>6, <2>7 DEF StackShowsApplied, Shown
<1>5. CASE DiscardCompaction(c) \/ CompactionPanics(c) \/ SaveReturns(c)
  <2>1. job' = [job EXCEPT ![c] = Idle]
    BY <1>5 DEF DiscardCompaction, CompactionPanics, SaveReturns, Released
  <2>2. /\ DOMAIN job' = Compactors /\ job'[c].pc = "idle"
        /\ \A d \in Compactors \ {c} : job'[d] = job[d]
    BY <1>3, <2>1 DEF JobInv, Idle
  <2>3. Holding' \subseteq Holding /\ c \notin Holding'
    BY <2>2 DEF Holding
  <2>4. \A d \in Holding' : d \in Compactors
    BY DEF Holding
  <2>5. JobInv'
    BY <1>3, <2>2, <2>3, <2>4 DEF JobInv
  <2>6. RefInv'
    BY <1>1, <1>3, <2>2, <2>3, <2>4 DEF RefInv
  <2> QED BY <1>2, <2>5, <2>6 DEF StackShowsApplied, Shown
<1> QED BY <1>4, <1>5

\* A view at addresses that were free stands apart from every capture.
LEMMA FreshView ==
    ASSUME StackShowsApplied, CompactionConstants,
           view'.base.ref \in {FirstFree, SecondFree},
           \A i \in DOMAIN view'.segs : view'.segs[i].ref \in {FirstFree, SecondFree},
           \A i, j \in DOMAIN view'.segs : i = j,
           \A c \in Holding' : c \in Holding /\ job'[c] = job[c]
    PROVE  RefInv'
<1>1. FirstFree \notin InUse /\ SecondFree \notin InUse
  BY FreshRefs DEF StackShowsApplied
<1>2. \A c \in Holding : job[c].base.ref \in InUse /\ \A i \in DOMAIN job[c].segs : job[c].segs[i].ref \in InUse
  BY HeldIsInUse
<1>3. SameSegments(view.segs, view.segs)'
  BY DEF SameSegments
<1>4. ASSUME NEW c \in Holding'
      PROVE  SameBase(job'[c].base, view'.base) /\ SameSegments(job'[c].segs, view'.segs)
  <2>1. job'[c].base.ref \in InUse /\ \A i \in DOMAIN job'[c].segs : job'[c].segs[i].ref \in InUse
    BY <1>2, <1>4
  <2> QED BY <1>1, <2>1 DEF SameBase, SameSegments
<1> QED BY <1>3, <1>4 DEF RefInv

\* A rebuild replaces base and stack.
LEMMA RebuildKeeps ==
    ASSUME CompactionConstants, StackShowsApplied, AdoptRebuilt
    PROVE  StackShowsApplied'
<1>1. /\ view' = NewView(At(FirstFree, LoadedBase(pg))) /\ applied' = LoadedBase(pg)
      /\ UNCHANGED <<pg, unapplied, job>>
  BY DEF AdoptRebuilt
<1>2. /\ ViewSound(view') /\ Shows(applied', view'.base, view'.delta) /\ StackInv(applied', view'.segs)
      /\ view'.segs = <<>> /\ view'.base.ref = FirstFree
      /\ \A n : ~Gone(applied', n)
  BY <1>1, LoadedView
<1>3. PgInv'
  BY <1>1, <1>2 DEF StackShowsApplied, PgInv
<1>4. JobInv' /\ \A c \in Holding' : c \in Holding /\ job'[c] = job[c]
  BY <1>1 DEF StackShowsApplied, JobInv, Holding
<1>5. RefInv'
  <2>1. DOMAIN view'.segs = {}
    BY <1>2, EmptyStack
  <2> QED BY <1>2, <1>4, <2>1, FreshView
<1> QED BY <1>2, <1>3, <1>4, <1>5 DEF StackShowsApplied

\* The segment an apply builds: rows read back, a tombstone for what is not there.
LEMMA ApplySegmentNodes ==
    ASSUME NEW v, NEW cs
    PROVE  LET seg == ApplySegment(v, cs)
           IN  /\ DOMAIN seg.nodes = cs.nodes
               /\ \A n \in cs.nodes :
                     seg.nodes[n] = IF pg.nodes[n] \in {Unborn, Tombstone} THEN Tombstone ELSE pg.nodes[n]
               /\ \A r : /\ At(r, seg).nodes = seg.nodes /\ At(r, seg).edges = seg.edges
                         /\ At(r, seg).addedKinds = seg.addedKinds /\ At(r, seg).ref = r
<1> DEFINE ns == [n \in cs.nodes |->
                     IF n \in cs.nodes \ Present(pg.nodes, cs.nodes) THEN Tombstone ELSE pg.nodes[n]]
           seg == ApplySegment(v, cs)
<1>1. \E es, ks : seg = NewSegment(ns, es, ks)
  BY DEF ApplySegment
<1>2. PICK es, ks : seg = NewSegment(ns, es, ks)
  BY <1>1
<1>3. /\ DOMAIN ns = cs.nodes
      /\ \A n \in cs.nodes : ns[n] = IF pg.nodes[n] \in {Unborn, Tombstone} THEN Tombstone ELSE pg.nodes[n]
  BY DEF Present
<1> HIDE DEF ns, seg
<1>4. seg.nodes = ns /\ seg.edges = es /\ seg.addedKinds = ks
  BY <1>2 DEF NewSegment
<1>5. ASSUME NEW r
      PROVE  /\ At(r, seg).nodes = seg.nodes /\ At(r, seg).edges = seg.edges
             /\ At(r, seg).addedKinds = seg.addedKinds /\ At(r, seg).ref = r
  BY <1>2, <1>4, SegmentAt
<1> QED BY <1>3, <1>4, <1>5 DEF seg

\* An apply layers its segment, collapses the stack when it is long, and may start
\* a goroutine on the result.
LEMMA ApplyKeeps ==
    ASSUME CompactionConstants, StackShowsApplied, Apply
    PROVE  StackShowsApplied'
<1>1. PICK cs \in unapplied :
        /\ unapplied' = unapplied \ {cs}
        /\ view' = Collapse(WithSegment(view, At(FirstFree, ApplySegment(view, cs))), SecondFree)
        /\ applied' = [nodes |-> Over(ApplySegment(view, cs).nodes, applied.nodes),
                       edges |-> Over(ApplySegment(view, cs).edges, applied.edges),
                       kinds |-> ApplySegment(view, cs).addedKinds \cup applied.kinds]
        /\ MaybeStartCompaction(view')
        /\ pg' = pg
  BY DEF Apply
<1> DEFINE seg == ApplySegment(view, cs)
           x == At(FirstFree, seg)
           u == Append(view.segs, x)
           w == ViewOf(view.base, u)
<1>2. /\ DOMAIN seg.nodes = cs.nodes
      /\ \A n \in cs.nodes : seg.nodes[n] = IF pg.nodes[n] \in {Unborn, Tombstone} THEN Tombstone ELSE pg.nodes[n]
      /\ x.nodes = seg.nodes /\ x.edges = seg.edges /\ x.addedKinds = seg.addedKinds /\ x.ref = FirstFree
  BY ApplySegmentNodes
<1>3. view' = Collapse(w, SecondFree)
  BY <1>1 DEF WithSegment
<1>4. /\ applied'.nodes = Over(x.nodes, applied.nodes) /\ applied'.edges = Over(x.edges, applied.edges)
      /\ applied'.kinds = x.addedKinds \cup applied.kinds
  BY <1>1, <1>2
<1> HIDE DEF seg, x
<1>5. /\ \A n : Gone(applied, n) => n \in NodeIds /\ pg.nodes[n] = Tombstone
      /\ \A n \in cs.nodes : n \in NodeIds /\ pg.nodes[n] # Unborn
  BY DEF StackShowsApplied, PgInv
<1>6. /\ DOMAIN applied'.nodes = DOMAIN x.nodes \cup DOMAIN applied.nodes
      /\ \A n \in DOMAIN applied'.nodes :
            applied'.nodes[n] = IF n \in DOMAIN x.nodes THEN x.nodes[n] ELSE applied.nodes[n]
  BY <1>4 DEF Over
<1>7. /\ \A n : Gone(applied, n) => Gone(applied', n)
      /\ \A n \in DOMAIN x.nodes : x.nodes[n] = Tombstone => Gone(applied', n) /\ pg.nodes[n] = Tombstone
      /\ \A n : Gone(applied', n) => n \in NodeIds /\ pg.nodes[n] = Tombstone
  BY <1>2, <1>5, <1>6 DEF Gone
<1>8. PgInv'
  BY <1>1, <1>7 DEF StackShowsApplied, PgInv
<1>9. /\ ViewSound(view) /\ BaseSound(view.base) /\ IsSeq(view.segs) /\ view.delta = MergeSegments(view.segs)
      /\ Shows(applied, view.base, MergeSegments(view.segs)) /\ StackInv(applied, view.segs)
  BY ViewFields DEF StackShowsApplied, ViewSound
<1>10. /\ IsSeq(u) /\ (\A i \in DOMAIN view.segs : u[i] = view.segs[i])
       /\ \A i \in DOMAIN u : (i \in DOMAIN view.segs /\ u[i] = view.segs[i]) \/ u[i] = x
  <2>1. /\ IsSeq(u) /\ DOMAIN u = 1 .. Len(view.segs) + 1
        /\ \A i \in DOMAIN view.segs : u[i] = view.segs[i]
        /\ u[Len(view.segs) + 1] = x
    BY <1>9, AppendFacts
  <2>2. Len(view.segs) \in Nat /\ DOMAIN view.segs = 1 .. Len(view.segs)
    BY <1>9, SeqFacts
  <2> HIDE DEF u
  <2> QED BY <2>1, <2>2
<1>11. Shows(applied', view.base, MergeSegments(u))
  BY <1>4, <1>7, <1>9, AppendShows
<1> HIDE DEF u
<1>12. StackInv(applied', u)
  BY <1>7, <1>9, <1>10 DEF StackInv
<1>13. ViewSound(w) /\ w.base = view.base /\ w.segs = u /\ w.delta = MergeSegments(u)
  BY <1>9, <1>10, ViewOfFields
<1> HIDE DEF w
<1>14. /\ ViewSound(view') /\ view'.base = view.base /\ view'.delta = MergeSegments(u)
       /\ StackInv(applied', view'.segs)
       /\ view'.segs = u \/ \E y : view'.segs = <<y>> /\ y.ref = SecondFree
  BY <1>3, <1>12, <1>13, CollapseKeeps
<1>15. Shows(applied', view'.base, view'.delta)
  BY <1>11, <1>14
<1>16. /\ FirstFree \notin InUse /\ SecondFree \notin InUse
       /\ \A i \in DOMAIN view.segs : view.segs[i].ref \in InUse
       /\ \A c \in Holding : \A i \in DOMAIN job[c].segs : job[c].segs[i].ref \in InUse
  BY FreshRefs, HeldIsInUse DEF StackShowsApplied
<1>17. \A i \in DOMAIN view'.segs :
          \/ \E j \in DOMAIN view.segs : view'.segs[i] = view.segs[j]
          \/ view'.segs[i].ref \notin InUse
  <2>1. CASE view'.segs = u
    BY <1>2, <1>10, <1>16, <2>1
  <2>2. CASE \E y : view'.segs = <<y>> /\ y.ref = SecondFree
    <3>1. PICK y : view'.segs = <<y>> /\ y.ref = SecondFree
      BY <2>2
    <3>2. DOMAIN <<y>> = {1} /\ <<y>>[1] = y
      BY OneFacts
    <3> QED BY <1>16, <3>1, <3>2
  <2> QED BY <1>14, <2>1, <2>2
<1>18. SameSegments(view'.segs, view'.segs)
  <2>1. CASE view'.segs = u
    BY <1>2, <1>10, <1>16, <2>1 DEF SameSegments, StackShowsApplied, RefInv
  <2>2. CASE \E y : view'.segs = <<y>> /\ y.ref = SecondFree
    <3>1. PICK y : view'.segs = <<y>>
      BY <2>2
    <3>2. DOMAIN <<y>> = {1} /\ <<y>>[1] = y
      BY OneFacts
    <3> QED BY <3>1, <3>2 DEF SameSegments
  <2> QED BY <1>14, <2>1, <2>2
<1>19. \A c \in Holding : SameBase(job[c].base, view'.base) /\ SameSegments(job[c].segs, view'.segs)
  <2> TAKE c \in Holding
  <2>1. SameBase(job[c].base, view.base) /\ SameSegments(job[c].segs, view.segs)
    BY DEF StackShowsApplied, RefInv
  <2>2. SameBase(job[c].base, view'.base)
    BY <1>14, <2>1
  <2>3. SameSegments(job[c].segs, view'.segs)
    BY <1>16, <1>17, <2>1 DEF SameSegments
  <2> QED BY <2>2, <2>3
<1>20. JobInv
  BY DEF StackShowsApplied
<1>21. JobInv' /\ RefInv'
  <2>1. CASE UNCHANGED job
    BY <1>18, <1>19, <1>20, <2>1 DEF JobInv, RefInv, Holding
  <2>2. CASE \E c \in Compactors :
               job' = [job EXCEPT ![c] = [pc |-> "fold", base |-> view'.base, segs |-> view'.segs]]
    <3>1. PICK c \in Compactors :
               job' = [job EXCEPT ![c] = [pc |-> "fold", base |-> view'.base, segs |-> view'.segs]]
      BY <2>2
    <3>2. /\ DOMAIN job' = Compactors
          /\ job'[c].pc = "fold" /\ job'[c].base = view'.base /\ job'[c].segs = view'.segs
          /\ \A d \in Compactors \ {c} : job'[d] = job[d]
      BY <1>20, <3>1 DEF JobInv
    <3>3. \A d \in Holding' : d = c \/ (d # c /\ d \in Holding /\ job'[d] = job[d])
      BY <3>2 DEF Holding
    <3>4. IsSeq(view'.segs)
      BY <1>14 DEF ViewSound
    <3>5. JobInv'
      BY <1>20, <3>2, <3>3, <3>4 DEF JobInv
    <3>6. RefInv'
      BY <1>18, <1>19, <3>2, <3>3 DEF RefInv, SameBase
    <3> QED BY <3>5, <3>6
  <2> QED BY <1>1, <2>1, <2>2 DEF MaybeStartCompaction
<1> QED BY <1>8, <1>14, <1>15, <1>21 DEF StackShowsApplied

\* An adopted fold: the goroutine's captures are what the view still has, by their
\* addresses, so the stack is the captured one with a tail on top.
LEMMA AdoptedView ==
    ASSUME StackShowsApplied, NEW c \in Compactors, AdoptCompaction(c)
    PROVE  LET b == view.base
               p == job[c].segs
               u == view.segs
               t == SubSeq(u, Len(p) + 1, Len(u))
               f == At(FirstFree, FoldWithPendingEdges(b, p).folded)
           IN  /\ BaseSound(b) /\ OnTop(u, p, t)
               /\ view' = IF Kept(b, p, t) = <<>> THEN NewView(f)
                          ELSE WithSegment(NewView(f), At(SecondFree, MergeSegments(Kept(b, p, t))))
<1> DEFINE b == view.base
           p == job[c].segs
           u == view.segs
           t == SubSeq(u, Len(p) + 1, Len(u))
           k == Kept(b, p, t)
           f == At(FirstFree, FoldWithPendingEdges(b, p).folded)
           x == At(SecondFree, MergeSegments(k))
<1>1. job[c].pc = "folded" /\ Adoptable(c)
  BY DEF AdoptCompaction
<1>2. JobInv /\ RefInv /\ c \in Holding
  BY <1>1 DEF StackShowsApplied, Holding
<1>3. BaseSound(b) /\ IsSeq(u) /\ IsSeq(p)
  BY <1>2 DEF StackShowsApplied, ViewSound, JobInv
<1>4. job[c].base = b /\ Len(p) <= Len(u) /\ \A i \in DOMAIN p : i \in DOMAIN u /\ p[i] = u[i]
  <2>1. job[c].base = b
    BY <1>1, <1>2 DEF Adoptable, RefInv, SameBase
  <2>2. Len(p) <= Len(u) /\ \A i \in DOMAIN p : p[i].ref = u[i].ref
    BY <1>1 DEF Adoptable, CapturedIsPrefix
  <2>3. /\ Len(p) \in Nat /\ DOMAIN p = 1 .. Len(p)
        /\ Len(u) \in Nat /\ DOMAIN u = 1 .. Len(u)
    BY <1>3, SeqFacts
  <2>4. \A i \in DOMAIN p : i \in DOMAIN u
    BY <2>2, <2>3
  <2> QED BY <1>2, <2>1, <2>2, <2>4 DEF RefInv, SameSegments
<1>5. OnTop(u, p, t)
  <2>1. /\ Len(p) \in Nat /\ Len(u) \in Nat /\ Len(p) \in 0 .. Len(u) /\ DOMAIN u = 1 .. Len(u)
    BY <1>3, <1>4, SeqFacts
  <2>2. /\ IsSeq(t) /\ DOMAIN t = 1 .. Len(u) - Len(p)
        /\ \A i \in 1 .. Len(u) - Len(p) : t[i] = u[Len(p) + i]
    BY <1>3, <2>1, TailFacts
  <2> HIDE DEF t
  <2>3. Len(t) \in Nat /\ DOMAIN t = 1 .. Len(t)
    BY <2>2, SeqFacts
  <2>4. Len(t) = Len(u) - Len(p)
    <3>1. Len(u) - Len(p) \in Nat
      BY <2>1
    <3>2. 1 .. Len(t) = 1 .. Len(u) - Len(p)
      BY <2>2, <2>3, Zenon
    <3> QED BY <2>3, <3>1, <3>2, SameLength
  <2>5. Len(u) = Len(p) + Len(t)
    BY <2>1, <2>3, <2>4
  <2> QED BY <1>3, <1>4, <2>1, <2>2, <2>5 DEF OnTop
<1>6. Carried(c) = k
  BY <1>1, <1>2, <1>4 DEF Carried, Kept, Pending, JobInv
<1>7. view' = IF k = <<>> THEN NewView(f) ELSE WithSegment(NewView(f), x)
  <2>1. job[c].result = FoldWithPendingEdges(b, p)
    BY <1>1, <1>2, <1>4 DEF JobInv
  <2> QED BY <1>6, <2>1 DEF AdoptCompaction
<1> QED BY <1>3, <1>5, <1>7

\* The adopted view holds what was applied.
LEMMA AdoptionKeeps ==
    ASSUME CompactionConstants, StackShowsApplied, NEW c \in Compactors, AdoptCompaction(c)
    PROVE  StackShowsApplied'
<1> DEFINE b == view.base
           p == job[c].segs
           u == view.segs
           t == SubSeq(u, Len(p) + 1, Len(u))
           k == Kept(b, p, t)
           f == At(FirstFree, FoldWithPendingEdges(b, p).folded)
           x == At(SecondFree, MergeSegments(k))
<1>1. job' = [job EXCEPT ![c] = [pc |-> "save"]] /\ UNCHANGED <<pg, unapplied, applied>>
  BY DEF AdoptCompaction
<1>2. JobInv /\ RefInv /\ PgInv
  BY DEF StackShowsApplied
<1>3. /\ BaseSound(b) /\ IsSeq(u) /\ IsSeq(p)
      /\ Shows(applied, b, MergeSegments(u)) /\ StackInv(applied, u)
  BY AdoptedView, ViewFields DEF StackShowsApplied, OnTop
<1>5. OnTop(u, p, t)
  BY AdoptedView
<1>6. IsSeq(t) /\ StackInv(applied, t)
  <2>1. /\ IsSeq(t) /\ DOMAIN u = 1 .. Len(p) + Len(t)
        /\ \A i \in DOMAIN t : u[Len(p) + i] = t[i]
    BY <1>5 DEF OnTop
  <2> HIDE DEF t
  <2>2. Len(p) \in Nat /\ Len(t) \in Nat /\ DOMAIN t = 1 .. Len(t)
    BY <1>3, <2>1, SeqFacts
  <2>3. \A i \in DOMAIN t : Len(p) + i \in DOMAIN u
    BY <2>1, <2>2
  <2> QED BY <1>3, <2>1, <2>3 DEF StackInv
<1>8. view' = IF k = <<>> THEN NewView(f) ELSE WithSegment(NewView(f), x)
  BY AdoptedView
<1> HIDE DEF t
<1>9. BaseSound(f) /\ f.ref = FirstFree
  <2>1. BaseSound(f)
    <3> HIDE DEF b, p
    <3> QED BY <1>3, FoldedBase
  <2>2. f.ref = FirstFree
    BY DEF At
  <2> QED BY <2>1, <2>2
<1>10. IsSeq(k) /\ StackInv(applied, k)
  BY <1>6, KeptStack
<1>11. Shows(applied, f, MergeSegments(k))
  BY <1>3, <1>5, FoldShows
<1>12. x.ref = SecondFree
  BY DEF At
<1>13. MergeSegments(<<x>>) = MergeSegments(k) /\ StackInv(applied, <<x>>)
  <2> HIDE DEF k
  <2> QED BY <1>10, MergeOfMerge, MergeKeepsStack
<1> HIDE DEF b, p, u, k, f, x
<1>14. /\ ViewSound(view') /\ view'.base = f /\ view'.delta = MergeSegments(k)
       /\ view'.segs = <<>> \/ view'.segs = <<x>>
       /\ StackInv(applied, view'.segs)
  <2>1. CASE k = <<>>
    <3>1. view' = NewView(f)
      BY <1>8, <2>1
    <3> QED BY <1>9, <1>10, <2>1, <3>1, BaseAlone
  <2>2. CASE k # <<>>
    <3>1. view' = ViewOf(f, <<x>>)
      BY <1>8, <1>9, <2>2, OneSegment
    <3>2. IsSeq(<<x>>)
      BY OneFacts
    <3>3. /\ ViewSound(view') /\ view'.base = f /\ view'.segs = <<x>>
          /\ view'.delta = MergeSegments(<<x>>)
      BY <1>9, <3>1, <3>2, ViewOfFields
    <3> QED BY <1>13, <3>3
  <2> QED BY <2>1, <2>2
<1>15. /\ ViewSound(view') /\ Shows(applied', view'.base, view'.delta) /\ StackInv(applied', view'.segs)
  BY <1>1, <1>11, <1>14
<1>16. PgInv'
  BY <1>1, <1>2 DEF PgInv
<1>17. /\ DOMAIN job' = Compactors /\ job'[c].pc = "save"
       /\ \A d \in Compactors \ {c} : job'[d] = job[d]
  BY <1>1, <1>2 DEF JobInv
<1>18. \A d \in Holding' : d \in Compactors /\ d # c /\ d \in Holding /\ job'[d] = job[d]
  BY <1>17 DEF Holding
<1>19. JobInv'
  BY <1>2, <1>17, <1>18 DEF JobInv
<1>20. RefInv'
  <2>1. DOMAIN <<>> = {} /\ DOMAIN <<x>> = {1} /\ <<x>>[1] = x
    BY EmptyStack, OneFacts
  <2>2. /\ \A i \in DOMAIN view'.segs : view'.segs[i].ref \in {FirstFree, SecondFree}
        /\ \A i, j \in DOMAIN view'.segs : i = j
        /\ view'.base.ref \in {FirstFree, SecondFree}
    BY <1>9, <1>12, <1>14, <2>1
  <2> QED BY <1>18, <2>2, FreshView
<1> QED BY <1>15, <1>16, <1>19, <1>20 DEF StackShowsApplied
-----------------------------------------------------------------------------
\* The invariant is kept by every step.
LEMMA StepShows ==
    ASSUME CompactionConstants, StackShowsApplied, [Next]_vars
    PROVE  StackShowsApplied'
<1>1. CASE UpsertNode \/ DeleteNode \/ CreateEdge \/ DeleteEdge
  BY <1>1, CommitKeeps
<1>2. CASE Apply
  BY <1>2, ApplyKeeps
<1>3. CASE ApplyFallsBack \/ Stop
  BY <1>3, FallBackKeeps
<1>4. CASE AdoptRebuilt
  BY <1>4, RebuildKeeps
<1>5. CASE \E c \in Compactors : Run(c)
  BY <1>5, RunKeeps, AdoptionKeeps DEF Run
<1>6. CASE UNCHANGED vars
  BY <1>6 DEF vars, StackShowsApplied, PgInv, JobInv, RefInv, Holding
<1> QED BY <1>1, <1>2, <1>3, <1>4, <1>5, <1>6 DEF Next

\* compact.go, segmentsAfter, Fold: the stack over the base always holds what was
\* applied, in every state of every behaviour of appliers, rebuilds and goroutines.
THEOREM StackInvariant ==
    Spec => []StackShowsApplied
<1>1. Init => StackShowsApplied
  BY InitShows, CompactionAssumption
<1>2. StackShowsApplied /\ [Next]_vars => StackShowsApplied'
  BY StepShows, CompactionAssumption
<1> QED BY <1>1, <1>2, PTL DEF Spec

\* Readers never see maintenance: whatever was collapsed, folded, adopted or
\* discarded, the view shows the last row applied for each id, the edges between
\* nodes that show, and every kind named.
THEOREM MaintenanceStaysInvisible ==
    Spec => []MaintenanceInvisible
<1>1. StackShowsApplied => MaintenanceInvisible
  BY ShowsIsInvisible DEF StackShowsApplied
<1> QED BY <1>1, StackInvariant, PTL
-----------------------------------------------------------------------------
(***************************************************************************)
(* Once everything committed is applied, the view is PostgreSQL's graph.    *)
(***************************************************************************)

Absent(row) == row \in {Unborn, Tombstone}
Deleted(n) == n \in NodeIds /\ pg.nodes[n] = Tombstone
NamedNodes == UNION {cs.nodes : cs \in unapplied}
NamedEdges == UNION {cs.edges : cs \in unapplied}

\* A foreign key and its trigger: an edge that is there has both its ends.
ClosedInv ==
    /\ DOMAIN pg = {"nodes", "edges"} /\ DOMAIN pg.nodes = NodeIds /\ DOMAIN pg.edges = EdgeIds
    /\ \A e \in EdgeIds : ~Absent(pg.edges[e]) =>
          /\ pg.edges[e].start \in NodeIds /\ ~Absent(pg.nodes[pg.edges[e].start])
          /\ pg.edges[e].end \in NodeIds /\ ~Absent(pg.nodes[pg.edges[e].end])

\* Only ids are applied and named.
IdsInv ==
    /\ DOMAIN applied.nodes \subseteq NodeIds /\ DOMAIN applied.edges \subseteq EdgeIds
    /\ NamedNodes \subseteq NodeIds /\ NamedEdges \subseteq EdgeIds

\* What no change set is still to bring is as PostgreSQL has it, except that an
\* edge its node's deletion took is out of sight with the node.
NodesCurrent ==
    \A n \in NodeIds \ NamedNodes :
        IF Absent(pg.nodes[n]) THEN n \notin Upserts(applied.nodes)
        ELSE n \in DOMAIN applied.nodes /\ applied.nodes[n] = pg.nodes[n]
EdgesCurrent ==
    \A e \in EdgeIds \ NamedEdges :
        IF Absent(pg.edges[e])
          THEN e \in Upserts(applied.edges) => Deleted(applied.edges[e].start) \/ Deleted(applied.edges[e].end)
          ELSE e \in DOMAIN applied.edges /\ applied.edges[e] = pg.edges[e]
CurrentInv == ClosedInv /\ IdsInv /\ (serving => NodesCurrent /\ EdgesCurrent)

\* What a load of PostgreSQL is: its rows.
LEMMA LoadIsCurrent ==
    ASSUME ClosedInv
    PROVE  LET a == LoadedBase(pg)
           IN  /\ DOMAIN a.nodes = {n \in NodeIds : ~Absent(pg.nodes[n])}
               /\ \A n \in DOMAIN a.nodes : a.nodes[n] = pg.nodes[n]
               /\ DOMAIN a.edges = {e \in EdgeIds : ~Absent(pg.edges[e])}
               /\ \A e \in DOMAIN a.edges : a.edges[e] = pg.edges[e]
<1> DEFINE a == LoadedBase(pg)
           ns == Rows(pg.nodes)
           es == Rows(pg.edges)
           kept == {e \in DOMAIN es : {es[e].start, es[e].end} \subseteq DOMAIN ns}
<1>1. /\ DOMAIN ns = {n \in NodeIds : ~Absent(pg.nodes[n])} /\ (\A n \in DOMAIN ns : ns[n] = pg.nodes[n])
      /\ DOMAIN es = {e \in EdgeIds : ~Absent(pg.edges[e])} /\ (\A e \in DOMAIN es : es[e] = pg.edges[e])
  BY DEF ClosedInv, Rows, Restrict, Absent
<1>2. a.nodes = ns /\ a.edges = Restrict(es, kept)
  BY DEF LoadedBase, BuildBase
<1> HIDE DEF a, ns, es
<1>3. kept = DOMAIN es
  BY <1>1 DEF ClosedInv
<1>4. DOMAIN a.edges = kept /\ \A e \in kept : a.edges[e] = es[e]
  BY <1>2 DEF Restrict
<1> HIDE DEF kept
<1> QED BY <1>1, <1>2, <1>3, <1>4 DEF a

\* An edge a tombstone cascades to has the node for an end.
LEMMA CascadeTouches ==
    ASSUME ViewSound(view), Shows(applied, view.base, view.delta), NEW n, NEW e \in Cascade(view, n)
    PROVE  e \in DOMAIN applied.edges /\ n \in {applied.edges[e].start, applied.edges[e].end}
<1>1. ShowsEdges(applied, view.base, view.delta)
  BY DEF Shows
<1>2. ASSUME NEW near, NEW far, NEW x \in WalkEdges(view, n, near, far)
      PROVE  x[3] \in DOMAIN applied.edges /\ applied.edges[x[3]][near] = n
  <2>1. CASE \E d \in DOMAIN view.base.edges \ EdgeTomb(view) :
               /\ view.base.edges[d][near] = n
               /\ x = <<view.base.edges[d][far], view.base.edges[d].kind, d>>
    <3>1. PICK d \in DOMAIN view.base.edges \ EdgeTomb(view) :
               /\ view.base.edges[d][near] = n
               /\ x = <<view.base.edges[d][far], view.base.edges[d].kind, d>>
      BY <2>1
    <3>2. x[3] = d /\ d \in DOMAIN view.base.edges \ DOMAIN view.delta.edges
      BY <3>1 DEF EdgeTomb, Delta
    <3> QED BY <1>1, <3>1, <3>2 DEF ShowsEdges
  <2>2. CASE \E d \in DeltaEdges(view) :
               /\ view.delta.edges[d][near] = n
               /\ x = <<view.delta.edges[d][far], view.delta.edges[d].kind, d>>
    <3>1. PICK d \in DeltaEdges(view) :
               /\ view.delta.edges[d][near] = n
               /\ x = <<view.delta.edges[d][far], view.delta.edges[d].kind, d>>
      BY <2>2
    <3>2. x[3] = d /\ d \in DOMAIN view.delta.edges
      BY <3>1 DEF DeltaEdges, Delta, Upserts
    <3> QED BY <1>1, <3>1, <3>2 DEF ShowsEdges
  <2> QED BY <1>2, <2>1, <2>2 DEF WalkEdges, Delta
<1>3. PICK x \in OutEdges(view, n) \cup InEdges(view, n) : e = x[3]
  BY DEF Cascade
<1> QED BY <1>2, <1>3 DEF OutEdges, InEdges

\* The segment of an apply, edges included.
LEMMA ApplySegmentEdges ==
    ASSUME NEW v, NEW cs
    PROVE  LET seg == ApplySegment(v, cs)
           IN  /\ \A e \in cs.edges : /\ e \in DOMAIN seg.edges
                                      /\ seg.edges[e] = IF Absent(pg.edges[e]) THEN Tombstone ELSE pg.edges[e]
               /\ \A e \in DOMAIN seg.edges \ cs.edges :
                     seg.edges[e] = Tombstone /\ \E n \in cs.nodes : Absent(pg.nodes[n]) /\ e \in Cascade(v, n)
<1> DEFINE absent == cs.nodes \ Present(pg.nodes, cs.nodes)
           es == [e \in cs.edges \cup UNION {Cascade(v, n) : n \in absent} |->
                     IF e \in Present(pg.edges, cs.edges) THEN pg.edges[e] ELSE Tombstone]
           seg == ApplySegment(v, cs)
<1>1. \E ns, ks : seg = NewSegment(ns, es, ks)
  BY DEF ApplySegment
<1>2. seg.edges = es
  <2> HIDE DEF es, seg
  <2> QED BY <1>1 DEF NewSegment
<1>3. \A n \in absent : n \in cs.nodes /\ Absent(pg.nodes[n])
  BY DEF Present, Absent
<1>4. \A e : e \in Present(pg.edges, cs.edges) <=> e \in cs.edges /\ ~Absent(pg.edges[e])
  BY DEF Present, Absent
<1> HIDE DEF seg, absent
<1> QED BY <1>2, <1>3, <1>4 DEF seg

\* The load at start.
LEMMA InitCurrent == ASSUME CompactionConstants, Init PROVE CurrentInv
<1>1. /\ DOMAIN pg = {"nodes", "edges"} /\ DOMAIN pg.nodes = NodeIds /\ DOMAIN pg.edges = EdgeIds
      /\ \A n \in NodeIds : pg.nodes[n] = IF n \in DOMAIN Base0.nodes THEN Base0.nodes[n] ELSE Unborn
      /\ \A e \in EdgeIds : pg.edges[e] = IF e \in DOMAIN Base0.edges THEN Base0.edges[e] ELSE Unborn
      /\ applied = LoadedBase(pg) /\ unapplied = {}
  BY DEF Init
<1>2. ClosedInv
  <2>1. /\ \A n \in DOMAIN Base0.nodes : ~Absent(Base0.nodes[n])
        /\ \A e \in DOMAIN Base0.edges :
              {Base0.edges[e].start, Base0.edges[e].end} \subseteq NodeIds \cap DOMAIN Base0.nodes
    BY DEF CompactionConstants, Absent
  <2> QED BY <1>1, <2>1 DEF ClosedInv, Absent
<1>3. /\ DOMAIN applied.nodes = {n \in NodeIds : ~Absent(pg.nodes[n])}
      /\ \A n \in DOMAIN applied.nodes : applied.nodes[n] = pg.nodes[n]
      /\ DOMAIN applied.edges = {e \in EdgeIds : ~Absent(pg.edges[e])}
      /\ \A e \in DOMAIN applied.edges : applied.edges[e] = pg.edges[e]
  BY <1>1, <1>2, LoadIsCurrent
<1>4. NamedNodes = {} /\ NamedEdges = {}
  BY <1>1 DEF NamedNodes, NamedEdges
<1>5. IdsInv
  BY <1>3, <1>4 DEF IdsInv
<1>6. NodesCurrent /\ EdgesCurrent
  BY <1>3 DEF NodesCurrent, EdgesCurrent, Upserts
<1> QED BY <1>2, <1>5, <1>6 DEF CurrentInv

\* A commit names what it leaves different.
LEMMA CommitNames ==
    ASSUME NEW ns, NEW es, Committed(ns, es)
    PROVE  NamedNodes' = NamedNodes \cup ns /\ NamedEdges' = NamedEdges \cup es
<1>1. unapplied' = unapplied \cup {[write |-> writes, nodes |-> ns, edges |-> es]}
  BY DEF Committed
<1> DEFINE new == [write |-> writes, nodes |-> ns, edges |-> es]
<1>2. new.nodes = ns /\ new.edges = es
  OBVIOUS
<1>3. unapplied' = unapplied \cup {new}
  BY <1>1
<1> HIDE DEF new
<1>4. NamedNodes' = NamedNodes \cup ns
  BY <1>2, <1>3 DEF NamedNodes
<1>5. NamedEdges' = NamedEdges \cup es
  BY <1>2, <1>3 DEF NamedEdges
<1> QED BY <1>4, <1>5

\* A commit in PostgreSQL.
LEMMA CommitStaysCurrent ==
    ASSUME CompactionConstants, CurrentInv, UpsertNode \/ DeleteNode \/ CreateEdge \/ DeleteEdge
    PROVE  CurrentInv'
<1>0. /\ DOMAIN pg = {"nodes", "edges"} /\ DOMAIN pg.nodes = NodeIds /\ DOMAIN pg.edges = EdgeIds
      /\ ClosedInv /\ IdsInv
  BY DEF CurrentInv, ClosedInv
<1>1. UNCHANGED <<applied, serving>>
  BY DEF UpsertNode, DeleteNode, CreateEdge, DeleteEdge, Committed
<1>2. CASE UpsertNode
  <2>1. PICK n \in NodeIds, row \in NodeRows :
           pg.nodes[n] # Tombstone /\ pg' = [pg EXCEPT !.nodes[n] = row] /\ Committed({n}, {})
    BY <1>2 DEF UpsertNode
  <2>2. NamedNodes' = NamedNodes \cup {n} /\ NamedEdges' = NamedEdges
    BY <2>1, CommitNames
  <2>3. /\ DOMAIN pg' = {"nodes", "edges"} /\ DOMAIN pg'.nodes = NodeIds /\ pg'.edges = pg.edges
        /\ pg'.nodes[n] = row /\ \A m \in NodeIds \ {n} : pg'.nodes[m] = pg.nodes[m]
    BY <1>0, <2>1
  <2>4. ~Absent(row)
    BY DEF Absent, CompactionConstants
  <2>5. \A m \in NodeIds : ~Absent(pg.nodes[m]) => ~Absent(pg'.nodes[m])
    BY <2>3, <2>4
  <2>6. \A m : Deleted(m) => Deleted(m)'
    BY <2>1, <2>3 DEF Deleted
  <2>7. ClosedInv'
    BY <1>0, <2>3, <2>5 DEF ClosedInv
  <2>8. IdsInv'
    BY <1>0, <1>1, <2>2 DEF IdsInv
  <2>9. NodesCurrent => NodesCurrent'
    BY <1>1, <2>2, <2>3 DEF NodesCurrent
  <2>10. EdgesCurrent => EdgesCurrent'
    BY <1>1, <2>2, <2>3, <2>6 DEF EdgesCurrent
  <2> QED BY <1>1, <2>7, <2>8, <2>9, <2>10 DEF CurrentInv
<1>3. CASE DeleteNode
  <2>1. PICK n \in DOMAIN Rows(pg.nodes) :
           /\ pg' = [nodes |-> [pg.nodes EXCEPT ![n] = Tombstone],
                     edges |-> [e \in EdgeIds |->
                        IF e \in DOMAIN Rows(pg.edges) /\ n \in {pg.edges[e].start, pg.edges[e].end}
                          THEN Tombstone ELSE pg.edges[e]]]
           /\ Committed({n}, {})
    BY <1>3 DEF DeleteNode
  <2>2. NamedNodes' = NamedNodes \cup {n} /\ NamedEdges' = NamedEdges
    <3>1. Committed({n}, {})
      BY <2>1
    <3> QED BY <3>1, CommitNames
  <2>3. /\ n \in NodeIds
        /\ \A e : e \in DOMAIN Rows(pg.edges) <=> e \in EdgeIds /\ ~Absent(pg.edges[e])
    BY <1>0 DEF Rows, Restrict, Absent
  <2>4. /\ DOMAIN pg' = {"nodes", "edges"} /\ DOMAIN pg'.nodes = NodeIds /\ DOMAIN pg'.edges = EdgeIds
        /\ pg'.nodes[n] = Tombstone /\ \A m \in NodeIds \ {n} : pg'.nodes[m] = pg.nodes[m]
        /\ \A e \in EdgeIds :
              pg'.edges[e] = IF ~Absent(pg.edges[e]) /\ n \in {pg.edges[e].start, pg.edges[e].end}
                               THEN Tombstone ELSE pg.edges[e]
    BY <1>0, <2>1, <2>3
  <2>5. Absent(Tombstone)
    BY DEF Absent
  <2>6. \A m : (Deleted(m) => Deleted(m)') /\ Deleted(n)'
    BY <2>3, <2>4 DEF Deleted
  <2>7. ClosedInv'
    BY <1>0, <2>4, <2>5 DEF ClosedInv
  <2>8. IdsInv'
    BY <1>0, <1>1, <2>2, <2>3 DEF IdsInv
  <2>9. NodesCurrent => NodesCurrent'
    BY <1>1, <2>2, <2>4 DEF NodesCurrent
  <2>10. EdgesCurrent => EdgesCurrent'
    <3> SUFFICES ASSUME EdgesCurrent, NEW e \in EdgeIds \ NamedEdges
                 PROVE  IF Absent(pg'.edges[e])
                          THEN e \in Upserts(applied.edges) =>
                                 Deleted(applied.edges[e].start)' \/ Deleted(applied.edges[e].end)'
                          ELSE e \in DOMAIN applied.edges /\ applied.edges[e] = pg'.edges[e]
      BY <1>1, <2>2 DEF EdgesCurrent
    <3>1. CASE Absent(pg.edges[e])
      BY <1>1, <2>4, <2>6, <3>1 DEF EdgesCurrent
    <3>2. CASE ~Absent(pg.edges[e])
      <4>1. e \in DOMAIN applied.edges /\ applied.edges[e] = pg.edges[e]
        BY <3>2 DEF EdgesCurrent
      <4>2. CASE n \in {pg.edges[e].start, pg.edges[e].end}
        <5>1. Absent(pg'.edges[e])
          BY <2>4, <2>5, <3>2, <4>2
        <5>2. Deleted(applied.edges[e].start)' \/ Deleted(applied.edges[e].end)'
          BY <1>1, <4>1, <2>3, <2>4, <4>2 DEF Deleted
        <5> QED BY <5>1, <5>2
      <4>3. CASE n \notin {pg.edges[e].start, pg.edges[e].end}
        BY <2>4, <3>2, <4>1, <4>3
      <4> QED BY <4>2, <4>3
    <3> QED BY <3>1, <3>2
  <2> QED BY <1>1, <2>7, <2>8, <2>9, <2>10 DEF CurrentInv
<1>4. CASE CreateEdge \/ DeleteEdge
  <2>1. PICK e, row :
           /\ e \in EdgeIds /\ pg' = [pg EXCEPT !.edges[e] = row] /\ Committed({}, {e})
           /\ \/ Absent(row)
              \/ /\ row.start \in NodeIds /\ ~Absent(pg.nodes[row.start])
                 /\ row.end \in NodeIds /\ ~Absent(pg.nodes[row.end])
    <3>1. \A n \in DOMAIN Rows(pg.nodes) : n \in NodeIds /\ ~Absent(pg.nodes[n])
      BY <1>0 DEF Rows, Restrict, Absent
    <3>2. \A e \in DOMAIN Rows(pg.edges) : e \in EdgeIds
      BY <1>0 DEF Rows, Restrict
    <3>3. CASE CreateEdge
      <4>1. PICK e \in EdgeIds, s \in DOMAIN Rows(pg.nodes), t \in DOMAIN Rows(pg.nodes), k \in EdgeKinds :
               pg' = [pg EXCEPT !.edges[e] = [start |-> s, end |-> t, kind |-> k]] /\ Committed({}, {e})
        BY <3>3 DEF CreateEdge
      <4>2. LET row == [start |-> s, end |-> t, kind |-> k] IN row.start = s /\ row.end = t
        OBVIOUS
      <4> QED BY <3>1, <4>1, <4>2
    <3>4. CASE DeleteEdge
      BY <3>2, <3>4 DEF DeleteEdge, Absent
    <3> QED BY <1>4, <3>3, <3>4
  <2>2. NamedNodes' = NamedNodes /\ NamedEdges' = NamedEdges \cup {e}
    BY <2>1, CommitNames
  <2>3. /\ DOMAIN pg' = {"nodes", "edges"} /\ pg'.nodes = pg.nodes /\ DOMAIN pg'.edges = EdgeIds
        /\ pg'.edges[e] = row /\ (\A d \in EdgeIds \ {e} : pg'.edges[d] = pg.edges[d]) /\ e \in EdgeIds
    BY <1>0, <2>1
  <2>4. \A m : Deleted(m)' <=> Deleted(m)
    BY <2>3 DEF Deleted
  <2>5. ClosedInv'
    BY <1>0, <2>1, <2>3 DEF ClosedInv
  <2>6. IdsInv'
    BY <1>0, <1>1, <2>2, <2>3 DEF IdsInv
  <2>7. NodesCurrent => NodesCurrent'
    BY <1>1, <2>2, <2>3 DEF NodesCurrent
  <2>8. EdgesCurrent => EdgesCurrent'
    BY <1>1, <2>2, <2>3, <2>4 DEF EdgesCurrent
  <2> QED BY <1>1, <2>5, <2>6, <2>7, <2>8 DEF CurrentInv
<1> QED BY <1>2, <1>3, <1>4

\* An apply brings what its change set names; what it cascades to had its end
\* deleted, and an edge that is there has both its ends.
LEMMA ApplyStaysCurrent ==
    ASSUME StackShowsApplied, CurrentInv, Apply
    PROVE  CurrentInv'
<1>1. PICK cs \in unapplied :
        /\ serving
        /\ unapplied' = unapplied \ {cs}
        /\ applied' = [nodes |-> Over(ApplySegment(view, cs).nodes, applied.nodes),
                       edges |-> Over(ApplySegment(view, cs).edges, applied.edges),
                       kinds |-> ApplySegment(view, cs).addedKinds \cup applied.kinds]
        /\ pg' = pg /\ serving' = serving
  BY DEF Apply
<1> DEFINE seg == ApplySegment(view, cs)
<1>2. /\ DOMAIN seg.nodes = cs.nodes
      /\ \A n \in cs.nodes : seg.nodes[n] = IF Absent(pg.nodes[n]) THEN Tombstone ELSE pg.nodes[n]
  BY ApplySegmentNodes DEF Absent
<1>3. /\ \A e \in cs.edges : /\ e \in DOMAIN seg.edges
                             /\ seg.edges[e] = IF Absent(pg.edges[e]) THEN Tombstone ELSE pg.edges[e]
      /\ \A e \in DOMAIN seg.edges \ cs.edges :
            seg.edges[e] = Tombstone /\ \E n \in cs.nodes : Absent(pg.nodes[n]) /\ e \in Cascade(view, n)
  BY ApplySegmentEdges
<1>4. applied'.nodes = Over(seg.nodes, applied.nodes) /\ applied'.edges = Over(seg.edges, applied.edges)
  BY <1>1
<1> HIDE DEF seg
<1>5. /\ DOMAIN applied'.nodes = cs.nodes \cup DOMAIN applied.nodes
      /\ \A n \in DOMAIN applied'.nodes :
            applied'.nodes[n] = IF n \in cs.nodes THEN seg.nodes[n] ELSE applied.nodes[n]
      /\ DOMAIN applied'.edges = DOMAIN seg.edges \cup DOMAIN applied.edges
      /\ \A e \in DOMAIN applied'.edges :
            applied'.edges[e] = IF e \in DOMAIN seg.edges THEN seg.edges[e] ELSE applied.edges[e]
  BY <1>2, <1>4 DEF Over
<1>6. /\ ClosedInv /\ IdsInv /\ NodesCurrent /\ EdgesCurrent
      /\ ViewSound(view) /\ Shows(applied, view.base, view.delta)
  BY <1>1 DEF CurrentInv, StackShowsApplied
<1>7. /\ cs.nodes \subseteq NamedNodes /\ cs.edges \subseteq NamedEdges
      /\ NamedNodes' \subseteq NamedNodes /\ NamedEdges' \subseteq NamedEdges
      /\ NamedNodes \subseteq NamedNodes' \cup cs.nodes /\ NamedEdges \subseteq NamedEdges' \cup cs.edges
  BY <1>1 DEF NamedNodes, NamedEdges
<1>8. \A e \in DOMAIN seg.edges \ cs.edges :
         /\ e \in DOMAIN applied.edges
         /\ \E n \in cs.nodes : Absent(pg.nodes[n]) /\ n \in {applied.edges[e].start, applied.edges[e].end}
  BY <1>3, <1>6, CascadeTouches
<1>9. ClosedInv'
  BY <1>1, <1>6 DEF ClosedInv
<1>10. IdsInv'
  BY <1>5, <1>6, <1>7, <1>8 DEF IdsInv
<1>11. NodesCurrent'
  <2> SUFFICES ASSUME NEW n \in NodeIds \ NamedNodes'
               PROVE  IF Absent(pg.nodes[n]) THEN n \notin Upserts(applied'.nodes)
                      ELSE n \in DOMAIN applied'.nodes /\ applied'.nodes[n] = pg.nodes[n]
    BY <1>1 DEF NodesCurrent
  <2>1. CASE n \in cs.nodes
    BY <1>2, <1>5, <2>1 DEF Upserts
  <2>2. CASE n \notin cs.nodes
    BY <1>5, <1>6, <1>7, <2>2 DEF NodesCurrent, Upserts
  <2> QED BY <2>1, <2>2
<1>12. EdgesCurrent'
  <2> SUFFICES ASSUME NEW e \in EdgeIds \ NamedEdges'
               PROVE  IF Absent(pg.edges[e])
                        THEN e \in Upserts(applied'.edges) =>
                               Deleted(applied'.edges[e].start) \/ Deleted(applied'.edges[e].end)
                        ELSE e \in DOMAIN applied'.edges /\ applied'.edges[e] = pg.edges[e]
    BY <1>1 DEF EdgesCurrent, Deleted
  <2>1. CASE e \in cs.edges
    BY <1>3, <1>5, <2>1 DEF Upserts
  <2>2. CASE e \notin cs.edges /\ e \in DOMAIN seg.edges
    <3>1. applied'.edges[e] = Tombstone
      BY <1>3, <1>5, <2>2
    <3>2. PICK n \in cs.nodes : Absent(pg.nodes[n]) /\ n \in {applied.edges[e].start, applied.edges[e].end}
      BY <1>8, <2>2
    <3>3. Absent(pg.edges[e])
      <4> SUFFICES ASSUME ~Absent(pg.edges[e])  PROVE FALSE
        OBVIOUS
      <4>1. applied.edges[e] = pg.edges[e]
        BY <1>6, <1>7, <2>2 DEF EdgesCurrent
      <4> QED BY <1>6, <3>2, <4>1 DEF ClosedInv
    <3> QED BY <3>1, <3>3 DEF Upserts
  <2>3. CASE e \notin cs.edges /\ e \notin DOMAIN seg.edges
    <3>1. e \notin NamedEdges
      BY <1>7, <2>3
    <3>2. e \in DOMAIN applied'.edges <=> e \in DOMAIN applied.edges
      BY <1>5, <2>3
    <3>3. e \in DOMAIN applied.edges => applied'.edges[e] = applied.edges[e]
      BY <1>5, <2>3
    <3> QED BY <1>6, <3>1, <3>2, <3>3 DEF EdgesCurrent, Upserts
  <2> QED BY <2>1, <2>2, <2>3
<1> QED BY <1>9, <1>10, <1>11, <1>12 DEF CurrentInv

\* A rebuild loads PostgreSQL's rows.
LEMMA RebuildIsCurrent ==
    ASSUME CurrentInv, AdoptRebuilt
    PROVE  CurrentInv'
<1>1. applied' = LoadedBase(pg) /\ UNCHANGED <<pg, unapplied>>
  BY DEF AdoptRebuilt
<1>2. ClosedInv /\ IdsInv
  BY DEF CurrentInv
<1>3. /\ DOMAIN applied'.nodes = {n \in NodeIds : ~Absent(pg.nodes[n])}
      /\ \A n \in DOMAIN applied'.nodes : applied'.nodes[n] = pg.nodes[n]
      /\ DOMAIN applied'.edges = {e \in EdgeIds : ~Absent(pg.edges[e])}
      /\ \A e \in DOMAIN applied'.edges : applied'.edges[e] = pg.edges[e]
  BY <1>1, <1>2, LoadIsCurrent
<1>4. ClosedInv'
  BY <1>1, <1>2 DEF ClosedInv
<1>5. IdsInv'
  BY <1>1, <1>2, <1>3 DEF IdsInv, NamedNodes, NamedEdges
<1>6. NodesCurrent' /\ EdgesCurrent'
  BY <1>1, <1>3 DEF NodesCurrent, EdgesCurrent, Upserts
<1> QED BY <1>4, <1>5, <1>6 DEF CurrentInv

\* Falling back loses a change set and stops serving; the rest reads none of this.
LEMMA OthersStayCurrent ==
    ASSUME CurrentInv, \/ ApplyFallsBack \/ Stop \/ UNCHANGED vars
                       \/ \E c \in Compactors : Run(c)
    PROVE  CurrentInv'
<1>1. /\ UNCHANGED <<pg, applied>>
      /\ serving' = FALSE \/ UNCHANGED <<serving, unapplied>>
      /\ unapplied' \subseteq unapplied
  BY DEF ApplyFallsBack, Stop, vars, Run, Fold, AdoptCompaction, DiscardCompaction, CompactionPanics, SaveReturns
<1>2. NamedNodes' \subseteq NamedNodes /\ NamedEdges' \subseteq NamedEdges
  BY <1>1 DEF NamedNodes, NamedEdges
<1>3. ClosedInv' /\ IdsInv'
  BY <1>1, <1>2 DEF CurrentInv, ClosedInv, IdsInv
<1>4. CASE serving' = FALSE
  BY <1>3, <1>4 DEF CurrentInv
<1>5. CASE UNCHANGED <<serving, unapplied>>
  <2>1. (NodesCurrent => NodesCurrent') /\ (EdgesCurrent => EdgesCurrent')
    BY <1>1, <1>5 DEF NodesCurrent, EdgesCurrent, NamedNodes, NamedEdges, Deleted
  <2> QED BY <1>3, <1>5, <2>1 DEF CurrentInv
<1> QED BY <1>1, <1>4, <1>5

\* With nothing left to apply, the view is PostgreSQL's graph.
LEMMA CurrentIsShown ==
    ASSUME CurrentInv, MaintenanceInvisible
    PROVE  AppliedMeansCurrent
<1> SUFFICES ASSUME serving, unapplied = {}
             PROVE  /\ VisibleNodes(view) = Rows(pg.nodes)
                    /\ VisibleEdges(view) = {<<pg.edges[e].start, pg.edges[e].end, pg.edges[e].kind, e>> :
                                               e \in DOMAIN Rows(pg.edges)}
  BY DEF AppliedMeansCurrent
<1>1. ClosedInv /\ IdsInv /\ NodesCurrent /\ EdgesCurrent /\ NamedNodes = {} /\ NamedEdges = {}
  BY DEF CurrentInv, NamedNodes, NamedEdges
<1>2. /\ DOMAIN Rows(pg.nodes) = {n \in NodeIds : ~Absent(pg.nodes[n])}
      /\ DOMAIN Rows(pg.edges) = {e \in EdgeIds : ~Absent(pg.edges[e])}
      /\ Rows(pg.nodes) = [n \in DOMAIN Rows(pg.nodes) |-> pg.nodes[n]]
  BY <1>1 DEF Rows, Restrict, ClosedInv, Absent
<1>3. /\ \A n : n \in Upserts(applied.nodes) <=> n \in NodeIds /\ ~Absent(pg.nodes[n])
      /\ \A n \in Upserts(applied.nodes) : applied.nodes[n] = pg.nodes[n]
  <2>1. \A n \in Upserts(applied.nodes) : n \in NodeIds
    BY <1>1 DEF IdsInv, Upserts
  <2>2. \A n \in NodeIds : ~Absent(pg.nodes[n]) => n \in Upserts(applied.nodes) /\ applied.nodes[n] = pg.nodes[n]
    BY <1>1 DEF NodesCurrent, Upserts, Absent
  <2>3. \A n \in NodeIds : Absent(pg.nodes[n]) => n \notin Upserts(applied.nodes)
    BY <1>1 DEF NodesCurrent
  <2> QED BY <2>1, <2>2, <2>3
<1>4. VisibleNodes(view) = Rows(pg.nodes)
  <2>1. VisibleNodes(view) = Restrict(applied.nodes, Upserts(applied.nodes))
    BY DEF MaintenanceInvisible
  <2>2. Upserts(applied.nodes) = DOMAIN Rows(pg.nodes)
    BY <1>2, <1>3
  <2> QED BY <1>2, <1>3, <2>1, <2>2 DEF Restrict
<1>5. /\ \A e : e \in ShownEdges(applied) <=> e \in DOMAIN Rows(pg.edges)
      /\ \A e \in ShownEdges(applied) : applied.edges[e] = pg.edges[e]
  <2>1. ASSUME NEW e \in ShownEdges(applied)
        PROVE  e \in DOMAIN Rows(pg.edges) /\ applied.edges[e] = pg.edges[e]
    <3>1. /\ e \in Upserts(applied.edges) /\ e \in DOMAIN applied.edges
          /\ applied.edges[e].start \in Upserts(applied.nodes) /\ applied.edges[e].end \in Upserts(applied.nodes)
      BY DEF ShownEdges, Upserts
    <3>2. e \in EdgeIds
      BY <1>1, <3>1 DEF IdsInv
    <3>3. ~Deleted(applied.edges[e].start) /\ ~Deleted(applied.edges[e].end)
      BY <1>3, <3>1 DEF Deleted, Absent
    <3> QED BY <1>1, <1>2, <3>1, <3>2, <3>3 DEF EdgesCurrent
  <2>2. ASSUME NEW e \in DOMAIN Rows(pg.edges)  PROVE e \in ShownEdges(applied)
    <3>1. e \in EdgeIds /\ ~Absent(pg.edges[e])
      BY <1>2
    <3>2. e \in DOMAIN applied.edges /\ applied.edges[e] = pg.edges[e]
      BY <1>1, <3>1 DEF EdgesCurrent
    <3>3. pg.edges[e].start \in Upserts(applied.nodes) /\ pg.edges[e].end \in Upserts(applied.nodes)
      BY <1>1, <1>3, <3>1 DEF ClosedInv
    <3>4. applied.edges[e] # Tombstone
      BY <3>1, <3>2 DEF Absent
    <3> QED BY <3>2, <3>3, <3>4 DEF ShownEdges, Upserts
  <2> QED BY <2>1, <2>2
<1>6. VisibleEdges(view) = {<<pg.edges[e].start, pg.edges[e].end, pg.edges[e].kind, e>> :
                              e \in DOMAIN Rows(pg.edges)}
  <2>1. VisibleEdges(view) =
          {<<applied.edges[e].start, applied.edges[e].end, applied.edges[e].kind, e>> : e \in ShownEdges(applied)}
    BY DEF MaintenanceInvisible
  <2> QED BY <1>5, <2>1
<1> QED BY <1>4, <1>6

\* Apply, adoptCompaction, the rebuild: while the engine serves and every committed
\* write has been applied, in whatever order and across any folds and rebuilds, the
\* view shows exactly PostgreSQL's nodes and edges.
THEOREM AppliedStaysCurrent ==
    Spec => []AppliedMeansCurrent
<1>1. Init => CurrentInv
  BY InitCurrent, CompactionAssumption
<1>2. StackShowsApplied /\ CurrentInv /\ [Next]_vars => CurrentInv'
  BY CompactionAssumption, CommitStaysCurrent, ApplyStaysCurrent, RebuildIsCurrent, OthersStayCurrent DEF Next
<1>3. CurrentInv /\ MaintenanceInvisible => AppliedMeansCurrent
  BY CurrentIsShown
<1> QED BY <1>1, <1>2, <1>3, StackInvariant, MaintenanceStaysInvisible, PTL DEF Spec
-----------------------------------------------------------------------------
(***************************************************************************)
(* The view's answers are what a scan of it would say.                     *)
(***************************************************************************)
\* A row of base slots is served as it is only when the walk would say the same.
LEMMA SlicesWalk ==
    ASSUME NEW v, ViewSound(v), NEW n, NEW near, NEW far, <<near, far>> \in Directions
    PROVE  Slices(v, n, near, far) = WalkEdges(v, n, near, far)
<1>1. CASE Clean(v, n, near, far)
  <2>1. n \in DOMAIN v.base.nodes /\ n \notin Dirty(v, near, far)
    BY <1>1 DEF Clean
  <2>2. /\ n \notin v.dead
        /\ \A e \in DOMAIN v.base.edges : v.base.edges[e][near] = n =>
              v.base.edges[e][far] \notin v.dead /\ e \notin DOMAIN v.delta.edges
        /\ \A e \in DeltaEdges(v) : v.delta.edges[e][near] # n
    BY <2>1 DEF Dirty, Dead, EdgeTomb, Delta
  <2>3. Alive(v, n)
    BY <2>1, <2>2, AliveMeans
  <2>4. {e \in DOMAIN v.base.edges \ EdgeTomb(v) : v.base.edges[e][near] = n /\ v.base.edges[e][far] \notin Dead(v)}
          = {e \in DOMAIN v.base.edges : v.base.edges[e][near] = n}
    BY <2>2 DEF EdgeTomb, Delta, Dead
  <2>5. {e \in DeltaEdges(v) : Delta(v).edges[e][near] = n} = {}
    BY <2>2 DEF Delta
  <2> QED BY <1>1, <2>3, <2>4, <2>5 DEF Slices, BaseSlots, WalkEdges
<1>2. CASE ~Clean(v, n, near, far)
  BY <1>2 DEF Slices, MergedRow
<1> QED BY <1>1, <1>2

\* The rows of adjacency of a live node, and of one deleted.
LEMMA RowsAreSeen ==
    ASSUME NEW v, ViewSound(v)
    PROVE  LET seen == VisibleEdges(v)
           IN  /\ \A n \in AliveNodes(v) :
                    /\ Slices(v, n, "start", "end") = {<<t[2], t[3], t[4]>> : t \in {t \in seen : t[1] = n}}
                    /\ Slices(v, n, "end", "start") = {<<t[1], t[3], t[4]>> : t \in {t \in seen : t[2] = n}}
                    /\ InEdges(v, n) = {<<t[1], t[3], t[4]>> : t \in {t \in seen : t[2] = n}}
               /\ \A n \in Known(v) \ AliveNodes(v) :
                    Slices(v, n, "start", "end") = {} /\ Slices(v, n, "end", "start") = {}
<1> DEFINE seen == VisibleEdges(v)
<1>0. <<"start", "end">> \in Directions /\ <<"end", "start">> \in Directions
  BY DEF Directions
<1>1. ASSUME NEW n, Alive(v, n)
      PROVE  WalkEdges(v, n, "start", "end") = {<<t[2], t[3], t[4]>> : t \in {t \in seen : t[1] = n}}
  <2> DEFINE R == {<<t[2], t[3], t[4]>> : t \in {t \in seen : t[1] = n}}
  <2>1. ASSUME NEW x \in WalkEdges(v, n, "start", "end")  PROVE x \in R
    <3>1. PICK e : LET row == EdgeStateByID(v, e)
                   IN  row # Tombstone /\ row.start = n /\ x = <<row.end, row.kind, e>>
      BY <1>0, <1>1, WalkMeets
    <3> DEFINE row == EdgeStateByID(v, e)
               t == <<row.start, row.end, row.kind, e>>
    <3>2. t \in seen
      BY <3>1, SeenEdges
    <3>3. t[1] = n /\ x = <<t[2], t[3], t[4]>>
      BY <3>1
    <3> HIDE DEF t, seen
    <3> QED BY <3>2, <3>3
  <2>2. ASSUME NEW x \in R  PROVE x \in WalkEdges(v, n, "start", "end")
    <3>1. PICK t \in seen : t[1] = n /\ x = <<t[2], t[3], t[4]>>
      BY <2>2
    <3>2. PICK e : LET row == EdgeStateByID(v, e)
                   IN  row # Tombstone /\ t = <<row.start, row.end, row.kind, e>>
      BY <3>1, SeenEdges
    <3>3. LET row == EdgeStateByID(v, e)
          IN  row # Tombstone /\ row.start = n /\ x = <<row.end, row.kind, e>>
      BY <3>1, <3>2
    <3> QED BY <1>0, <1>1, <3>3, WalkMeets
  <2> HIDE DEF R
  <2>3. WalkEdges(v, n, "start", "end") = R
    BY <2>1, <2>2
  <2> QED BY <2>3 DEF R
<1>2. ASSUME NEW n, Alive(v, n)
      PROVE  WalkEdges(v, n, "end", "start") = {<<t[1], t[3], t[4]>> : t \in {t \in seen : t[2] = n}}
  <2> DEFINE R == {<<t[1], t[3], t[4]>> : t \in {t \in seen : t[2] = n}}
  <2>1. ASSUME NEW x \in WalkEdges(v, n, "end", "start")  PROVE x \in R
    <3>1. PICK e : LET row == EdgeStateByID(v, e)
                   IN  row # Tombstone /\ row.end = n /\ x = <<row.start, row.kind, e>>
      BY <1>0, <1>2, WalkMeets
    <3> DEFINE row == EdgeStateByID(v, e)
               t == <<row.start, row.end, row.kind, e>>
    <3>2. t \in seen
      BY <3>1, SeenEdges
    <3>3. t[2] = n /\ x = <<t[1], t[3], t[4]>>
      BY <3>1
    <3> HIDE DEF t, seen
    <3> QED BY <3>2, <3>3
  <2>2. ASSUME NEW x \in R  PROVE x \in WalkEdges(v, n, "end", "start")
    <3>1. PICK t \in seen : t[2] = n /\ x = <<t[1], t[3], t[4]>>
      BY <2>2
    <3>2. PICK e : LET row == EdgeStateByID(v, e)
                   IN  row # Tombstone /\ t = <<row.start, row.end, row.kind, e>>
      BY <3>1, SeenEdges
    <3>3. LET row == EdgeStateByID(v, e)
          IN  row # Tombstone /\ row.end = n /\ x = <<row.start, row.kind, e>>
      BY <3>1, <3>2
    <3> QED BY <1>0, <1>2, <3>3, WalkMeets
  <2> HIDE DEF R
  <2>3. WalkEdges(v, n, "end", "start") = R
    BY <2>1, <2>2
  <2> QED BY <2>3 DEF R
<1>3. \A n \in AliveNodes(v) : Alive(v, n)
  BY DEF AliveNodes
<1>4. \A n \in Known(v) \ AliveNodes(v) : ~Alive(v, n)
  BY DEF AliveNodes
<1>5. ASSUME NEW n, ~Alive(v, n), NEW near, NEW far  PROVE WalkEdges(v, n, near, far) = {}
  BY <1>5 DEF WalkEdges
<1> HIDE DEF seen
<1>6. ASSUME NEW n \in AliveNodes(v)
      PROVE  /\ Slices(v, n, "start", "end") = {<<t[2], t[3], t[4]>> : t \in {t \in seen : t[1] = n}}
             /\ Slices(v, n, "end", "start") = {<<t[1], t[3], t[4]>> : t \in {t \in seen : t[2] = n}}
             /\ InEdges(v, n) = {<<t[1], t[3], t[4]>> : t \in {t \in seen : t[2] = n}}
  BY <1>0, <1>1, <1>2, <1>3, SlicesWalk DEF InEdges
<1>7. ASSUME NEW n \in Known(v) \ AliveNodes(v)
      PROVE  Slices(v, n, "start", "end") = {} /\ Slices(v, n, "end", "start") = {}
  BY <1>0, <1>4, <1>5, SlicesWalk
<1> QED BY <1>6, <1>7 DEF seen

\* The indexes by kind and by object id.
LEMMA IndexesAreSeen ==
    ASSUME NEW v, ViewSound(v)
    PROVE  /\ \A k : NodesOfKind(v, k) = {n \in AliveNodes(v) : k \in KindIDsOf(v, n)}
           /\ \A n \in AliveNodes(v) : n \in NodesByObjectID(v, ObjectIDOf(v, n))
           /\ \A oid : \A n \in NodesByObjectID(v, oid) : Alive(v, n) /\ ObjectIDOf(v, n) = oid
<1>1. \A n : n \in AliveNodes(v) <=>
         IF n \in DOMAIN v.delta.nodes THEN v.delta.nodes[n] # Tombstone ELSE n \in DOMAIN v.base.nodes
  BY AliveMeans
<1>2. \A n : Alive(v, n) <=> n \in AliveNodes(v)
  BY AliveMeans
<1>3. \A n \in AliveNodes(v) :
         /\ NodeRow(v, n) = IF n \in DOMAIN v.delta.nodes THEN v.delta.nodes[n] ELSE v.base.nodes[n]
         /\ NodeRow(v, n) # Tombstone
         /\ KindIDsOf(v, n) = NodeRow(v, n).kinds /\ ObjectIDOf(v, n) = NodeRow(v, n).oid
  <2>1. \A n \in DOMAIN v.base.nodes : v.base.nodes[n] # Tombstone
    BY DEF ViewSound, BaseSound
  <2> QED BY <1>1, <2>1 DEF NodeRow, KindIDsOf, ObjectIDOf, Overridden, Delta
<1>4. ASSUME NEW k  PROVE NodesOfKind(v, k) = {n \in AliveNodes(v) : k \in KindIDsOf(v, n)}
  <2>1. \A n : n \in NodesOfKind(v, k) <=>
           \/ n \in DOMAIN v.base.nodes /\ k \in v.base.nodes[n].kinds /\ n \notin DOMAIN v.delta.nodes
           \/ n \in DOMAIN v.delta.nodes /\ v.delta.nodes[n] # Tombstone /\ k \in v.delta.nodes[n].kinds
    BY DEF NodesOfKind, BaseNodesOfKind, Overridden, Upserts, Delta
  <2>2. \A n : n \in NodesOfKind(v, k) <=> n \in AliveNodes(v) /\ k \in KindIDsOf(v, n)
    BY <1>1, <1>3, <2>1
  <2> QED BY <2>2
<1>5. ASSUME NEW oid, NEW n
      PROVE  n \in NodesByObjectID(v, oid) <=>
               \/ n \in DOMAIN v.base.nodes /\ v.base.nodes[n].oid = oid /\ n \notin DOMAIN v.delta.nodes
               \/ n \in DOMAIN v.delta.nodes /\ v.delta.nodes[n] # Tombstone /\ v.delta.nodes[n].oid = oid
  BY DEF NodesByObjectID, SegObjectIndex, BaseObjectIndex, Overridden, Upserts, Delta
<1>6. \A n \in AliveNodes(v) : n \in NodesByObjectID(v, ObjectIDOf(v, n))
  BY <1>1, <1>3, <1>5
<1>7. \A oid : \A n \in NodesByObjectID(v, oid) : Alive(v, n) /\ ObjectIDOf(v, n) = oid
  BY <1>1, <1>2, <1>3, <1>5
<1> QED BY <1>4, <1>6, <1>7

\* A row for an id is somewhere in the view, in its base or in a segment.
Holds(v, f, id, row) ==
    /\ row # Tombstone
    /\ \/ id \in DOMAIN v.base[f] /\ row = v.base[f][id]
       \/ \E i \in DOMAIN v.segs : id \in DOMAIN v.segs[i][f] /\ row = v.segs[i][f][id]

\* The merged stack has only such rows.
LEMMA DeltaIsHeld ==
    ASSUME NEW v, ViewSound(v), NEW f \in {"nodes", "edges"}, NEW id \in DOMAIN v.delta[f],
           v.delta[f][id] # Tombstone
    PROVE  Holds(v, f, id, v.delta[f][id])
<1>1. v.delta[f] = MergeField(v.segs, f) /\ IsSeq(v.segs)
  BY ViewFields DEF ViewSound
<1>2. PICK i \in DOMAIN v.segs : id \in DOMAIN v.segs[i][f] /\ MergeField(v.segs, f)[id] = v.segs[i][f][id]
  BY <1>1, MergedRowIsOurs
<1> QED BY <1>1, <1>2 DEF Holds

\* What is seen is held.
LEMMA SeenIsHeld ==
    ASSUME NEW v, ViewSound(v)
    PROVE  /\ \A e : EdgeStateByID(v, e) # Tombstone => Holds(v, "edges", e, EdgeStateByID(v, e))
           /\ \A n \in AliveNodes(v) : NodeRow(v, n) # Tombstone /\ Holds(v, "nodes", n, NodeRow(v, n))
<1>1. ASSUME NEW e, EdgeStateByID(v, e) # Tombstone
      PROVE  Holds(v, "edges", e, EdgeStateByID(v, e))
  <2>1. CASE e \in DOMAIN v.delta.edges
    <3>1. EdgeStateByID(v, e) = v.delta.edges[e]
      BY <1>1, <2>1, EdgeState
    <3>2. v.delta["edges"] = v.delta.edges
      OBVIOUS
    <3> QED BY <1>1, <2>1, <3>1, <3>2, DeltaIsHeld
  <2>2. CASE e \notin DOMAIN v.delta.edges
    <3>1. e \in DOMAIN v.base.edges /\ EdgeStateByID(v, e) = v.base.edges[e]
      BY <1>1, <2>2, EdgeState
    <3> QED BY <1>1, <3>1 DEF Holds
  <2> QED BY <2>1, <2>2
<1>2. ASSUME NEW n \in AliveNodes(v)
      PROVE  NodeRow(v, n) # Tombstone /\ Holds(v, "nodes", n, NodeRow(v, n))
  <2>1. IF n \in DOMAIN v.delta.nodes THEN v.delta.nodes[n] # Tombstone ELSE n \in DOMAIN v.base.nodes
    BY AliveMeans
  <2>2. CASE n \in DOMAIN v.delta.nodes
    <3>1. NodeRow(v, n) = v.delta.nodes[n] /\ v.delta["nodes"] = v.delta.nodes
      BY <2>2 DEF NodeRow, Overridden, Delta
    <3> QED BY <2>1, <2>2, <3>1, DeltaIsHeld
  <2>3. CASE n \notin DOMAIN v.delta.nodes
    <3>1. NodeRow(v, n) = v.base.nodes[n] /\ n \in DOMAIN v.base.nodes /\ v.base.nodes[n] # Tombstone
      BY <2>1, <2>3 DEF NodeRow, Overridden, Delta, ViewSound, BaseSound
    <3> QED BY <3>1 DEF Holds
  <2> QED BY <2>2, <2>3
<1> QED BY <1>1, <1>2

\* A kind of edge, or of self-loop, that the view denies is not there.
LEMMA DenialsHold ==
    ASSUME NEW v, ViewSound(v), NEW k
    PROVE  /\ ~EdgeKindPresent(v, {k}) => \A t \in VisibleEdges(v) : t[3] # k
           /\ ~SelfLoopHazard(v, {k}) => \A t \in VisibleEdges(v) : t[3] = k => t[1] # t[2]
<1> SUFFICES ASSUME NEW t \in VisibleEdges(v), t[3] = k
             PROVE  EdgeKindPresent(v, {k}) /\ (t[1] = t[2] => SelfLoopHazard(v, {k}))
  OBVIOUS
<1>1. PICK e : LET row == EdgeStateByID(v, e)
               IN  row # Tombstone /\ t = <<row.start, row.end, row.kind, e>>
  BY SeenEdges
<1> DEFINE row == EdgeStateByID(v, e)
<1>2. row.kind = k /\ (t[1] = t[2] => row.start = row.end) /\ Holds(v, "edges", e, row)
  BY <1>1, SeenIsHeld
<1> HIDE DEF row
<1>3. CASE e \in DOMAIN v.base.edges /\ row = v.base.edges[e]
  <2>1. k \in BaseEdgeKinds(v.base) /\ (t[1] = t[2] => k \in BaseSelfLoopKinds(v.base))
    BY <1>2, <1>3 DEF BaseEdgeKinds, BaseSelfLoopKinds
  <2> QED BY <2>1 DEF EdgeKindPresent, SelfLoopHazard, Admits
<1>4. CASE \E i \in DOMAIN v.segs : e \in DOMAIN v.segs[i].edges /\ row = v.segs[i].edges[e]
  <2>1. PICK i \in DOMAIN v.segs : e \in DOMAIN v.segs[i].edges /\ row = v.segs[i].edges[e]
    BY <1>4
  <2>2. e \in Upserts(v.segs[i].edges)
    BY <1>2, <2>1 DEF Upserts, Holds
  <2>3. k \in SegEdgeKinds(v.segs[i]) /\ (t[1] = t[2] => k \in SegSelfLoopKinds(v.segs[i]))
    BY <1>2, <2>1, <2>2 DEF SegEdgeKinds, SegSelfLoopKinds
  <2> QED BY <2>3 DEF EdgeKindPresent, SelfLoopHazard, Admits
<1> QED BY <1>2, <1>3, <1>4 DEF Holds

\* Every kind in the view is one of the ids there are.
KindsKnown(v) ==
    /\ \A n, row : Holds(v, "nodes", n, row) => row.kinds \subseteq KindIds
    /\ \A e, row : Holds(v, "edges", e, row) => row.kind \in KindIds
    /\ KindTable(v) \subseteq KindIds

\* MaxKindID bounds the kinds of what a reader sees.
LEMMA CeilingHolds ==
    ASSUME CompactionConstants, NEW v, ViewSound(v), KindsKnown(v)
    PROVE  /\ \A n \in AliveNodes(v) : \A k \in KindIDsOf(v, n) : k <= MaxKindID(v)
           /\ \A t \in VisibleEdges(v) : t[3] <= MaxKindID(v)
<1> DEFINE b == 32767
<1>0. b \in Nat /\ KindIds \in SUBSET Nat /\ \A k \in KindIds : k <= b
  <2>1. KindIds \in SUBSET Nat /\ \A k \in KindIds : k <= b
    BY DEF CompactionConstants
  <2>2. b \in Nat
    OBVIOUS
  <2> QED BY <2>1, <2>2
<1> HIDE DEF b
<1> DEFINE T == {0} \cup BaseEdgeKinds(v.base) \cup UNION {v.base.nodes[n].kinds : n \in DOMAIN v.base.nodes}
           S == {BaseMaxKindID(v.base)} \cup Delta(v).addedKinds \cup SegEdgeKinds(Delta(v))
                  \cup UNION {Delta(v).nodes[n].kinds : n \in Upserts(Delta(v).nodes)}
<1>1. /\ BaseMaxKindID(v.base) \in Nat /\ BaseMaxKindID(v.base) <= b
      /\ T \in SUBSET Nat /\ \A k \in T : k <= BaseMaxKindID(v.base)
  <2>1. \A n \in DOMAIN v.base.nodes : v.base.nodes[n].kinds \subseteq KindIds
    BY DEF ViewSound, BaseSound, Holds, KindsKnown
  <2>2. \A e \in DOMAIN v.base.edges : v.base.edges[e].kind \in KindIds
    BY DEF ViewSound, BaseSound, Holds, KindsKnown
  <2>3. T \subseteq {0} \cup KindIds
    BY <2>1, <2>2 DEF BaseEdgeKinds
  <2>4. T \in SUBSET Nat /\ T # {} /\ \A k \in T : k <= b
    <3>1. T # {}
      OBVIOUS
    <3> HIDE DEF T
    <3> QED BY <1>0, <2>3, <3>1
  <2>5. BaseMaxKindID(v.base) = Max(T)
    BY DEF BaseMaxKindID
  <2> HIDE DEF T
  <2>6. Max(T) \in T /\ \A k \in T : k <= Max(T)
    BY <1>0, <2>4, GreatestNatural
  <2> QED BY <2>4, <2>5, <2>6
<1>2. MaxKindID(v) \in Nat /\ \A k \in S : k <= MaxKindID(v)
  <2>1. \A n \in Upserts(v.delta.nodes) : v.delta.nodes[n].kinds \subseteq KindIds
    <3> SUFFICES ASSUME NEW n \in Upserts(v.delta.nodes) PROVE v.delta.nodes[n].kinds \subseteq KindIds
      OBVIOUS
    <3>1. v.delta["nodes"] = v.delta.nodes /\ n \in DOMAIN v.delta.nodes /\ v.delta.nodes[n] # Tombstone
      BY DEF Upserts
    <3> QED BY <3>1, DeltaIsHeld DEF KindsKnown
  <2>2. \A e \in Upserts(v.delta.edges) : v.delta.edges[e].kind \in KindIds
    <3> SUFFICES ASSUME NEW e \in Upserts(v.delta.edges) PROVE v.delta.edges[e].kind \in KindIds
      OBVIOUS
    <3>1. v.delta["edges"] = v.delta.edges /\ e \in DOMAIN v.delta.edges /\ v.delta.edges[e] # Tombstone
      BY DEF Upserts
    <3> QED BY <3>1, DeltaIsHeld DEF KindsKnown
  <2>3. S \subseteq {BaseMaxKindID(v.base)} \cup KindIds
    BY <2>1, <2>2 DEF SegEdgeKinds, Delta, KindsKnown, KindTable
  <2>4. S \in SUBSET Nat /\ S # {} /\ \A k \in S : k <= b
    <3>1. S # {}
      OBVIOUS
    <3> HIDE DEF S
    <3> QED BY <1>0, <1>1, <2>3, <3>1
  <2>5. MaxKindID(v) = Max(S)
    BY DEF MaxKindID
  <2> HIDE DEF S
  <2>6. Max(S) \in S /\ \A k \in S : k <= Max(S)
    BY <1>0, <2>4, GreatestNatural
  <2> QED BY <2>4, <2>5, <2>6
<1>3. ASSUME NEW k \in T  PROVE k <= MaxKindID(v)
  <2>1. BaseMaxKindID(v.base) <= MaxKindID(v)
    <3>1. BaseMaxKindID(v.base) \in S
      OBVIOUS
    <3> HIDE DEF S
    <3> QED BY <1>2, <3>1
  <2>2. k \in Nat /\ k <= BaseMaxKindID(v.base)
    BY <1>1, <1>3
  <2> QED BY <1>1, <1>2, <2>1, <2>2
<1>4. ASSUME NEW n \in AliveNodes(v), NEW k \in KindIDsOf(v, n)  PROVE k <= MaxKindID(v)
  <2>1. IF n \in DOMAIN v.delta.nodes THEN v.delta.nodes[n] # Tombstone ELSE n \in DOMAIN v.base.nodes
    BY AliveMeans
  <2>2. CASE n \in DOMAIN v.delta.nodes
    <3>1. k \in v.delta.nodes[n].kinds /\ n \in Upserts(v.delta.nodes)
      BY <1>4, <2>1, <2>2 DEF KindIDsOf, NodeRow, Overridden, Delta, Upserts
    <3>2. k \in S
      BY <3>1 DEF Delta
    <3> QED BY <1>2, <3>2
  <2>3. CASE n \notin DOMAIN v.delta.nodes
    <3>1. k \in v.base.nodes[n].kinds /\ n \in DOMAIN v.base.nodes
      BY <1>4, <2>1, <2>3 DEF KindIDsOf, NodeRow, Overridden, Delta
    <3>2. k \in T
      BY <3>1
    <3> QED BY <1>3, <3>2
  <2> QED BY <2>2, <2>3
<1>5. ASSUME NEW t \in VisibleEdges(v)  PROVE t[3] <= MaxKindID(v)
  <2>1. PICK e : LET row == EdgeStateByID(v, e)
                 IN  row # Tombstone /\ t = <<row.start, row.end, row.kind, e>>
    BY SeenEdges
  <2>2. CASE e \in DOMAIN v.delta.edges
    <3>1. e \in Upserts(v.delta.edges) /\ t[3] = v.delta.edges[e].kind
      BY <2>1, <2>2, EdgeState DEF Upserts
    <3>2. t[3] \in S
      BY <3>1 DEF SegEdgeKinds, Delta
    <3> QED BY <1>2, <3>2
  <2>3. CASE e \notin DOMAIN v.delta.edges
    <3>1. e \in DOMAIN v.base.edges /\ t[3] = v.base.edges[e].kind
      BY <2>1, <2>3, EdgeState
    <3>2. t[3] \in T
      BY <3>1 DEF BaseEdgeKinds
    <3> QED BY <1>3, <3>2
  <2> QED BY <2>2, <2>3
<1> QED BY <1>4, <1>5

\* What maintenance leaves in the view was there: a stack merged into one segment,
LEMMA MergeHolds ==
    ASSUME NEW s, IsSeq(s), NEW r, NEW f \in {"nodes", "edges"}, NEW id, NEW row,
           NEW i \in DOMAIN <<At(r, MergeSegments(s))>>,
           id \in DOMAIN <<At(r, MergeSegments(s))>>[i][f], row = <<At(r, MergeSegments(s))>>[i][f][id]
    PROVE  \E j \in DOMAIN s : id \in DOMAIN s[j][f] /\ row = s[j][f][id]
<1> DEFINE x == At(r, MergeSegments(s))
<1>1. x[f] = MergeField(s, f)
  <2>1. x.nodes = MergeField(s, "nodes") /\ x.edges = MergeField(s, "edges")
    BY SegmentAt DEF MergeSegments
  <2> QED BY <2>1
<1>2. DOMAIN <<x>> = {1} /\ <<x>>[1] = x
  BY OneFacts
<1> HIDE DEF x
<1>3. id \in DOMAIN MergeField(s, f) /\ row = MergeField(s, f)[id]
  <2>1. id \in DOMAIN <<x>>[i][f] /\ row = <<x>>[i][f][id] /\ i \in DOMAIN <<x>>
    BY DEF x
  <2> QED BY <1>1, <1>2, <2>1
<1> QED BY <1>3, MergedRowIsOurs

\* a stack collapsed,
LEMMA CollapseHolds ==
    ASSUME NEW v, ViewSound(v), NEW r, NEW f \in {"nodes", "edges"}, NEW id, NEW row,
           Holds(Collapse(v, r), f, id, row)
    PROVE  Holds(v, f, id, row)
<1>1. CASE Len(v.segs) <= MaxSegments
  BY <1>1 DEF Collapse
<1>2. CASE ~(Len(v.segs) <= MaxSegments)
  <2> DEFINE w == Collapse(v, r)
             x == At(r, MergeSegments(v.segs))
  <2>1. BaseSound(v.base) /\ IsSeq(v.segs) /\ IsSeq(<<x>>)
    BY OneFacts DEF ViewSound
  <2>2. w = WithSegment(NewView(v.base), x)
    BY <1>2 DEF Collapse
  <2> HIDE DEF x
  <2>3. w = ViewOf(v.base, <<x>>)
    BY <2>1, <2>2, OneSegment
  <2>4. w.base = v.base /\ w.segs = <<x>>
    BY <2>1, <2>3, ViewOfFields
  <2> HIDE DEF w
  <2>5. Holds(w, f, id, row)
    BY DEF w
  <2>6. CASE id \in DOMAIN w.base[f] /\ row = w.base[f][id]
    BY <2>4, <2>5, <2>6 DEF Holds
  <2>7. CASE \E i \in DOMAIN w.segs : id \in DOMAIN w.segs[i][f] /\ row = w.segs[i][f][id]
    <3>1. PICK i \in DOMAIN <<x>> : id \in DOMAIN <<x>>[i][f] /\ row = <<x>>[i][f][id]
      BY <2>4, <2>7
    <3>2. \E j \in DOMAIN v.segs : id \in DOMAIN v.segs[j][f] /\ row = v.segs[j][f][id]
      BY <2>1, <3>1, MergeHolds DEF x
    <3> QED BY <2>5, <3>2 DEF Holds
  <2> QED BY <2>5, <2>6, <2>7 DEF Holds
<1> QED BY <1>1, <1>2

\* and a fold adopted.
LEMMA AdoptionHolds ==
    ASSUME StackShowsApplied, NEW c \in Compactors, AdoptCompaction(c),
           NEW f \in {"nodes", "edges"}, NEW id, NEW row, Holds(view', f, id, row)
    PROVE  Holds(view, f, id, row)
<1> DEFINE b == view.base
           p == job[c].segs
           u == view.segs
           t == SubSeq(u, Len(p) + 1, Len(u))
           k == Kept(b, p, t)
           m == MergeSegments(p)
           g == At(FirstFree, FoldWithPendingEdges(b, p).folded)
           x == At(SecondFree, MergeSegments(k))
<1>1. /\ BaseSound(b) /\ OnTop(u, p, t)
      /\ view' = IF k = <<>> THEN NewView(g) ELSE WithSegment(NewView(g), x)
  BY AdoptedView
<1> HIDE DEF b, u, p, t
<1>2. BaseSound(g) /\ FoldsNodes(g, b, m) /\ FoldsEdges(g, b, m)
  BY <1>1, FoldedBase
<1>3. IsSeq(p) /\ IsSeq(t) /\ IsSeq(u)
  BY <1>1 DEF OnTop
<1>4. ASSUME NEW i \in DOMAIN p  PROVE i \in DOMAIN u /\ p[i] = u[i]
  <2>1. DOMAIN u = 1 .. Len(p) + Len(t) /\ u[i] = p[i]
    BY <1>1 DEF OnTop
  <2>2. Len(p) \in Nat /\ Len(t) \in Nat /\ DOMAIN p = 1 .. Len(p)
    BY <1>3, SeqFacts
  <2> QED BY <2>1, <2>2
<1>5. ASSUME NEW i \in DOMAIN t  PROVE \E j \in DOMAIN u : u[j] = t[i]
  <2>1. DOMAIN u = 1 .. Len(p) + Len(t) /\ u[Len(p) + i] = t[i]
    BY <1>1 DEF OnTop
  <2>2. Len(p) \in Nat /\ Len(t) \in Nat /\ DOMAIN t = 1 .. Len(t)
    BY <1>3, SeqFacts
  <2>3. Len(p) + i \in DOMAIN u
    BY <2>1, <2>2
  <2> QED BY <2>1, <2>3
<1>6. ASSUME NEW y, id \in DOMAIN MergeField(p, f), y = MergeField(p, f)[id]
      PROVE  \E j \in DOMAIN u : id \in DOMAIN u[j][f] /\ y = u[j][f][id]
  BY <1>3, <1>4, <1>6, MergedRowIsOurs
<1>7. ASSUME NEW y, id \in DOMAIN MergeField(t, f), y = MergeField(t, f)[id]
      PROVE  \E j \in DOMAIN u : id \in DOMAIN u[j][f] /\ y = u[j][f][id]
  <2>1. PICK i \in DOMAIN t : id \in DOMAIN t[i][f] /\ MergeField(t, f)[id] = t[i][f][id]
    BY <1>3, <1>7, MergedRowIsOurs
  <2> QED BY <1>5, <1>7, <2>1
<1>8. m[f] = MergeField(p, f)
  <2>1. m.nodes = MergeField(p, "nodes") /\ m.edges = MergeField(p, "edges")
    BY MergeFields
  <2> QED BY <2>1
<1>9. ASSUME NEW y, id \in DOMAIN m[f], y = m[f][id]
      PROVE  \E j \in DOMAIN u : id \in DOMAIN u[j][f] /\ y = u[j][f][id]
  BY <1>6, <1>8, <1>9
<1> HIDE DEF m, g
<1>10. ASSUME id \in DOMAIN g[f]
       PROVE  \/ id \in DOMAIN b[f] /\ g[f][id] = b[f][id]
              \/ \E j \in DOMAIN u : id \in DOMAIN u[j][f] /\ g[f][id] = u[j][f][id]
  <2>1. \/ id \in DOMAIN b[f] /\ g[f][id] = b[f][id]
        \/ id \in DOMAIN m[f] /\ g[f][id] = m[f][id]
    BY <1>2, <1>10 DEF FoldsNodes, FoldsEdges
  <2> QED BY <1>9, <2>1
<1>11. ASSUME id \in DOMAIN x[f]
       PROVE  \E j \in DOMAIN u : id \in DOMAIN u[j][f] /\ x[f][id] = u[j][f][id]
  <2>1. x.nodes = MergeSegments(k).nodes /\ x.edges = MergeSegments(k).edges
    <3> HIDE DEF k
    <3>1. x.nodes = MergeField(k, "nodes") /\ x.edges = MergeField(k, "edges")
      BY SegmentAt DEF MergeSegments
    <3> QED BY <3>1, MergeFields
  <2>2. /\ MergeSegments(k).nodes = MergeSegments(t).nodes
        /\ MergeSegments(k).edges = Over(MergeSegments(t).edges, PendingEdges(b, m))
    BY <1>3, KeptStack DEF m
  <2>3. MergeSegments(t).nodes = MergeField(t, "nodes") /\ MergeSegments(t).edges = MergeField(t, "edges")
    BY MergeFields
  <2>4. x.nodes = MergeField(t, "nodes") /\ x.edges = Over(MergeField(t, "edges"), PendingEdges(b, m))
    BY <2>1, <2>2, <2>3
  <2>5. /\ DOMAIN PendingEdges(b, m) \subseteq DOMAIN m.edges
        /\ \A e \in DOMAIN PendingEdges(b, m) : PendingEdges(b, m)[e] = m.edges[e]
    BY DEF PendingEdges, Restrict, Upserts
  <2> HIDE DEF x
  <2>6. \/ id \in DOMAIN MergeField(t, f) /\ x[f][id] = MergeField(t, f)[id]
        \/ id \in DOMAIN m[f] /\ x[f][id] = m[f][id]
    <3>1. CASE f = "nodes"
      BY <1>11, <2>4, <3>1
    <3>2. CASE f = "edges"
      BY <1>11, <2>4, <2>5, <3>2 DEF Over
    <3> QED BY <3>1, <3>2
  <2> QED BY <1>7, <1>9, <2>6
<1> HIDE DEF k, x
<1>12. /\ view'.base = g
       /\ \A i \in DOMAIN view'.segs : view'.segs[i] = x
  <2>1. CASE k = <<>>
    <3>1. view' = NewView(g)
      BY <1>1, <2>1
    <3> QED BY <1>2, <3>1, BaseAlone, EmptyStack
  <2>2. CASE k # <<>>
    <3>1. view' = ViewOf(g, <<x>>)
      BY <1>1, <1>2, <2>2, OneSegment
    <3>2. view'.base = g /\ view'.segs = <<x>>
      BY <3>1 DEF ViewOf
    <3>3. DOMAIN <<x>> = {1} /\ <<x>>[1] = x
      BY OneFacts
    <3> QED BY <3>2, <3>3
  <2> QED BY <2>1, <2>2
<1>13. row # Tombstone /\ (\/ id \in DOMAIN g[f] /\ row = g[f][id]
                           \/ id \in DOMAIN x[f] /\ row = x[f][id])
  BY <1>12 DEF Holds
<1> QED BY <1>10, <1>11, <1>13 DEF Holds, b, u

\* A load holds PostgreSQL's rows.
LEMMA LoadHolds ==
    ASSUME ClosedInv, NEW r, NEW f \in {"nodes", "edges"}, NEW id, NEW row,
           Holds(NewView(At(r, LoadedBase(pg))), f, id, row)
    PROVE  id \in DOMAIN pg[f] /\ ~Absent(row) /\ row = pg[f][id]
<1> DEFINE a == LoadedBase(pg)
           b == At(r, a)
<1>1. BaseSound(b) /\ a.nodes = b.nodes /\ a.edges = b.edges
  BY LoadedShows
<1>2. /\ DOMAIN a.nodes = {n \in NodeIds : ~Absent(pg.nodes[n])}
      /\ \A n \in DOMAIN a.nodes : a.nodes[n] = pg.nodes[n]
      /\ DOMAIN a.edges = {e \in EdgeIds : ~Absent(pg.edges[e])}
      /\ \A e \in DOMAIN a.edges : a.edges[e] = pg.edges[e]
  BY LoadIsCurrent
<1> HIDE DEF a, b
<1>3. NewView(b).base = b /\ DOMAIN NewView(b).segs = {}
  BY <1>1, BaseAlone, EmptyStack
<1>4. id \in DOMAIN b[f] /\ row = b[f][id]
  <2>1. Holds(NewView(b), f, id, row)
    BY DEF a, b
  <2> QED BY <1>3, <2>1 DEF Holds
<1>5. DOMAIN pg.nodes = NodeIds /\ DOMAIN pg.edges = EdgeIds
  BY DEF ClosedInv
<1>6. CASE f = "nodes"
  BY <1>1, <1>2, <1>4, <1>5, <1>6
<1>7. CASE f = "edges"
  BY <1>1, <1>2, <1>4, <1>5, <1>7
<1> QED BY <1>6, <1>7

\* An apply adds rows it read back.
LEMMA ApplyHolds ==
    ASSUME StackShowsApplied, ClosedInv, IdsInv, Apply,
           NEW f \in {"nodes", "edges"}, NEW id, NEW row, Holds(view', f, id, row)
    PROVE  Holds(view, f, id, row) \/ (id \in DOMAIN pg[f] /\ ~Absent(row) /\ row = pg[f][id])
<1>1. PICK cs \in unapplied :
        view' = Collapse(WithSegment(view, At(FirstFree, ApplySegment(view, cs))), SecondFree)
  BY DEF Apply
<1> DEFINE seg == ApplySegment(view, cs)
           x == At(FirstFree, seg)
           u == Append(view.segs, x)
           w == ViewOf(view.base, u)
<1>2. x.nodes = seg.nodes /\ x.edges = seg.edges
  BY ApplySegmentNodes
<1>3. ASSUME id \in DOMAIN seg[f], seg[f][id] # Tombstone
      PROVE  id \in DOMAIN pg[f] /\ ~Absent(seg[f][id]) /\ seg[f][id] = pg[f][id]
  <2>1. /\ cs.nodes \subseteq NodeIds /\ cs.edges \subseteq EdgeIds
        /\ DOMAIN pg.nodes = NodeIds /\ DOMAIN pg.edges = EdgeIds
    BY DEF IdsInv, NamedNodes, NamedEdges, ClosedInv
  <2>2. CASE f = "nodes"
    <3>1. /\ DOMAIN seg.nodes = cs.nodes
          /\ \A n \in cs.nodes : seg.nodes[n] = IF Absent(pg.nodes[n]) THEN Tombstone ELSE pg.nodes[n]
      BY ApplySegmentNodes DEF Absent
    <3> HIDE DEF seg
    <3> QED BY <1>3, <2>1, <2>2, <3>1
  <2>3. CASE f = "edges"
    <3>1. /\ \A e \in cs.edges : seg.edges[e] = IF Absent(pg.edges[e]) THEN Tombstone ELSE pg.edges[e]
          /\ \A e \in DOMAIN seg.edges \ cs.edges : seg.edges[e] = Tombstone
      BY ApplySegmentEdges
    <3> HIDE DEF seg
    <3> QED BY <1>3, <2>1, <2>3, <3>1
  <2> QED BY <2>2, <2>3
<1>4. BaseSound(view.base) /\ IsSeq(view.segs)
  BY DEF StackShowsApplied, ViewSound
<1> HIDE DEF x, seg
<1>5. IsSeq(u) /\ \A i \in DOMAIN u : (i \in DOMAIN view.segs /\ u[i] = view.segs[i]) \/ u[i] = x
  <2>1. /\ IsSeq(u) /\ DOMAIN u = 1 .. Len(view.segs) + 1
        /\ \A i \in DOMAIN view.segs : u[i] = view.segs[i]
        /\ u[Len(view.segs) + 1] = x
    BY <1>4, AppendFacts
  <2>2. Len(view.segs) \in Nat /\ DOMAIN view.segs = 1 .. Len(view.segs)
    BY <1>4, SeqFacts
  <2> HIDE DEF u
  <2> QED BY <2>1, <2>2
<1>6. view' = Collapse(w, SecondFree)
  BY <1>1 DEF WithSegment, x, seg
<1> HIDE DEF u
<1>7. ViewSound(w) /\ w.base = view.base /\ w.segs = u
  BY <1>4, <1>5, ViewOfFields
<1> HIDE DEF w
<1>8. Holds(w, f, id, row)
  BY <1>6, <1>7, CollapseHolds
<1>9. row # Tombstone /\ (\/ id \in DOMAIN view.base[f] /\ row = view.base[f][id]
                          \/ \E i \in DOMAIN view.segs : id \in DOMAIN view.segs[i][f] /\ row = view.segs[i][f][id]
                          \/ id \in DOMAIN x[f] /\ row = x[f][id])
  BY <1>5, <1>7, <1>8 DEF Holds
<1>10. x[f] = seg[f]
  BY <1>2
<1> QED BY <1>3, <1>9, <1>10 DEF Holds

\* Whatever the step, a row the view holds was there or is PostgreSQL's.
LEMMA StepHolds ==
    ASSUME StackShowsApplied, CurrentInv, [Next]_vars,
           NEW f \in {"nodes", "edges"}, NEW id, NEW row, Holds(view', f, id, row)
    PROVE  \/ Holds(view, f, id, row)
           \/ pg' = pg /\ id \in DOMAIN pg[f] /\ ~Absent(row) /\ row = pg[f][id]
<1>0. ClosedInv /\ IdsInv
  BY DEF CurrentInv
<1>1. CASE UNCHANGED view
  BY <1>1
<1>2. CASE Apply
  <2>1. pg' = pg
    BY <1>2 DEF Apply
  <2> QED BY <1>0, <1>2, <2>1, ApplyHolds
<1>3. CASE AdoptRebuilt
  <2>1. pg' = pg /\ view' = NewView(At(FirstFree, LoadedBase(pg)))
    BY <1>3 DEF AdoptRebuilt
  <2> QED BY <1>0, <2>1, LoadHolds
<1>4. CASE \E c \in Compactors : AdoptCompaction(c)
  BY <1>4, AdoptionHolds
<1>5. UpsertNode \/ DeleteNode \/ CreateEdge \/ DeleteEdge => UNCHANGED view
  BY DEF UpsertNode, DeleteNode, CreateEdge, DeleteEdge, Committed
<1>6. ApplyFallsBack \/ Stop \/ UNCHANGED vars => UNCHANGED view
  BY DEF ApplyFallsBack, Stop, vars
<1>7. \A c \in Compactors : Run(c) => UNCHANGED view \/ AdoptCompaction(c)
  BY DEF Run, Fold, DiscardCompaction, CompactionPanics, SaveReturns
<1> QED BY <1>1, <1>2, <1>3, <1>4, <1>5, <1>6, <1>7 DEF Next

\* An edge of PostgreSQL keeps its row until it is deleted, and its id is not used
\* again: all the rows held for an id are the same one.
OneRowInv ==
    /\ \A e, row : Holds(view, "edges", e, row) =>
          e \in EdgeIds /\ pg.edges[e] # Unborn /\ (pg.edges[e] # Tombstone => row = pg.edges[e])
    /\ \A e, row, other : Holds(view, "edges", e, row) /\ Holds(view, "edges", e, other) => row = other

\* Kinds in PostgreSQL and in the view are ids of kinds, and those of what was
\* applied have been named.
PgKindsInv ==
    /\ \A n \in NodeIds : ~Absent(pg.nodes[n]) => pg.nodes[n].kinds \subseteq KindIds
    /\ \A e \in EdgeIds : ~Absent(pg.edges[e]) => pg.edges[e].kind \in KindIds
HeldKindsInv ==
    /\ \A n, row : Holds(view, "nodes", n, row) => row.kinds \subseteq KindIds
    /\ \A e, row : Holds(view, "edges", e, row) => row.kind \in KindIds
NamedKindsInv ==
    /\ applied.kinds \subseteq KindIds
    /\ \A n \in Upserts(applied.nodes) : applied.nodes[n].kinds \subseteq applied.kinds
    /\ \A e \in Upserts(applied.edges) : applied.edges[e].kind \in applied.kinds
RowsInv == OneRowInv /\ PgKindsInv /\ HeldKindsInv /\ NamedKindsInv

\* The kinds a load names.
LEMMA LoadNames ==
    ASSUME ClosedInv, PgKindsInv
    PROVE  LET a == LoadedBase(pg)
           IN  /\ a.kinds \subseteq KindIds
               /\ \A n \in Upserts(a.nodes) : a.nodes[n].kinds \subseteq a.kinds
               /\ \A e \in Upserts(a.edges) : a.edges[e].kind \in a.kinds
<1> DEFINE a == LoadedBase(pg)
           ns == Rows(pg.nodes)
           es == Rows(pg.edges)
           ks == (UNION {ns[n].kinds : n \in DOMAIN ns}) \cup {es[e].kind : e \in DOMAIN es}
<1>1. /\ DOMAIN ns = {n \in NodeIds : ~Absent(pg.nodes[n])} /\ (\A n \in DOMAIN ns : ns[n] = pg.nodes[n])
      /\ DOMAIN es = {e \in EdgeIds : ~Absent(pg.edges[e])} /\ (\A e \in DOMAIN es : es[e] = pg.edges[e])
  BY DEF ClosedInv, Rows, Restrict, Absent
<1>2. a.kinds = ks
  BY DEF LoadedBase, BuildBase
<1>3. /\ DOMAIN a.nodes = DOMAIN ns /\ (\A n \in DOMAIN ns : a.nodes[n] = ns[n])
      /\ DOMAIN a.edges = DOMAIN es /\ (\A e \in DOMAIN es : a.edges[e] = es[e])
  <2> HIDE DEF ns, es, a
  <2> QED BY <1>1, LoadIsCurrent DEF a
<1> HIDE DEF ns, es, a
<1>4. a.kinds \subseteq KindIds
  BY <1>1, <1>2 DEF PgKindsInv
<1>5. /\ \A n \in Upserts(a.nodes) : a.nodes[n].kinds \subseteq a.kinds
      /\ \A e \in Upserts(a.edges) : a.edges[e].kind \in a.kinds
  BY <1>2, <1>3 DEF Upserts
<1> QED BY <1>4, <1>5 DEF a

\* The kinds an apply names.
LEMMA ApplyNames ==
    ASSUME StackShowsApplied, CurrentInv, NamedKindsInv, PgKindsInv, Apply
    PROVE  NamedKindsInv'
<1>1. PICK cs \in unapplied :
        applied' = [nodes |-> Over(ApplySegment(view, cs).nodes, applied.nodes),
                    edges |-> Over(ApplySegment(view, cs).edges, applied.edges),
                    kinds |-> ApplySegment(view, cs).addedKinds \cup applied.kinds]
  BY DEF Apply
<1> DEFINE seg == ApplySegment(view, cs)
           ks == (UNION {seg.nodes[n].kinds : n \in Upserts(seg.nodes)})
                   \cup {seg.edges[e].kind : e \in Upserts(seg.edges)}
<1>2. seg.addedKinds = ks \ KindTable(view)
  BY DEF ApplySegment, NewSegment
<1>3. KindTable(view) = applied.kinds
  BY DEF StackShowsApplied, Shows, KindTable, Delta
<1>4. /\ cs.nodes \subseteq NodeIds /\ cs.edges \subseteq EdgeIds
  BY DEF CurrentInv, IdsInv, NamedNodes, NamedEdges
<1>5. /\ \A n \in Upserts(seg.nodes) : n \in NodeIds /\ ~Absent(pg.nodes[n]) /\ seg.nodes[n] = pg.nodes[n]
      /\ \A e \in Upserts(seg.edges) : e \in EdgeIds /\ ~Absent(pg.edges[e]) /\ seg.edges[e] = pg.edges[e]
  <2>1. /\ DOMAIN seg.nodes = cs.nodes
        /\ \A n \in cs.nodes : seg.nodes[n] = IF Absent(pg.nodes[n]) THEN Tombstone ELSE pg.nodes[n]
    BY ApplySegmentNodes DEF Absent
  <2>2. /\ \A e \in cs.edges : seg.edges[e] = IF Absent(pg.edges[e]) THEN Tombstone ELSE pg.edges[e]
        /\ \A e \in DOMAIN seg.edges \ cs.edges : seg.edges[e] = Tombstone
    BY ApplySegmentEdges
  <2> HIDE DEF seg
  <2> QED BY <1>4, <2>1, <2>2 DEF Upserts
<1> HIDE DEF seg
<1>6. /\ applied'.nodes = Over(seg.nodes, applied.nodes) /\ applied'.edges = Over(seg.edges, applied.edges)
      /\ applied'.kinds = ks \cup applied.kinds
  <2>1. applied'.kinds = seg.addedKinds \cup applied.kinds
    BY <1>1 DEF seg
  <2>2. applied'.nodes = Over(seg.nodes, applied.nodes) /\ applied'.edges = Over(seg.edges, applied.edges)
    BY <1>1 DEF seg
  <2> HIDE DEF ks
  <2> QED BY <1>2, <1>3, <2>1, <2>2
<1>7. ks \subseteq KindIds
  BY <1>5 DEF PgKindsInv
<1>8. /\ \A n \in Upserts(seg.nodes) : seg.nodes[n].kinds \subseteq ks
      /\ \A e \in Upserts(seg.edges) : seg.edges[e].kind \in ks
  OBVIOUS
<1> HIDE DEF ks
<1>9. ASSUME NEW n \in Upserts(applied'.nodes)  PROVE applied'.nodes[n].kinds \subseteq applied'.kinds
  <2>1. \/ n \in Upserts(seg.nodes) /\ applied'.nodes[n] = seg.nodes[n]
        \/ n \in Upserts(applied.nodes) /\ applied'.nodes[n] = applied.nodes[n]
    BY <1>6 DEF Over, Upserts
  <2> QED BY <1>6, <1>8, <2>1 DEF NamedKindsInv
<1>10. ASSUME NEW e \in Upserts(applied'.edges)  PROVE applied'.edges[e].kind \in applied'.kinds
  <2>1. \/ e \in Upserts(seg.edges) /\ applied'.edges[e] = seg.edges[e]
        \/ e \in Upserts(applied.edges) /\ applied'.edges[e] = applied.edges[e]
    BY <1>6 DEF Over, Upserts
  <2> QED BY <1>6, <1>8, <2>1 DEF NamedKindsInv
<1> QED BY <1>6, <1>7, <1>9, <1>10 DEF NamedKindsInv

\* The load at start.
LEMMA InitRows == ASSUME CompactionConstants, Init PROVE RowsInv
<1>1. /\ \A n \in NodeIds : pg.nodes[n] = IF n \in DOMAIN Base0.nodes THEN Base0.nodes[n] ELSE Unborn
      /\ \A e \in EdgeIds : pg.edges[e] = IF e \in DOMAIN Base0.edges THEN Base0.edges[e] ELSE Unborn
      /\ applied = LoadedBase(pg) /\ view = NewView(At(0, LoadedBase(pg)))
  BY DEF Init
<1>2. ClosedInv
  BY InitCurrent DEF CurrentInv
<1>3. /\ \A n \in DOMAIN Base0.nodes : Base0.nodes[n].kinds \subseteq KindIds
      /\ \A e \in DOMAIN Base0.edges : Base0.edges[e].kind \in KindIds
  BY DEF KindIds
<1>4. PgKindsInv
  BY <1>1, <1>3 DEF PgKindsInv, Absent
<1>5. ASSUME NEW f \in {"nodes", "edges"}, NEW id, NEW row, Holds(view, f, id, row)
      PROVE  id \in DOMAIN pg[f] /\ ~Absent(row) /\ row = pg[f][id]
  BY <1>1, <1>2, <1>5, LoadHolds
<1>6. DOMAIN pg.nodes = NodeIds /\ DOMAIN pg.edges = EdgeIds
  BY <1>2 DEF ClosedInv
<1>7. /\ \A n, row : Holds(view, "nodes", n, row) => n \in NodeIds /\ ~Absent(row) /\ row = pg.nodes[n]
      /\ \A e, row : Holds(view, "edges", e, row) => e \in EdgeIds /\ ~Absent(row) /\ row = pg.edges[e]
  BY <1>5, <1>6
<1>8. OneRowInv /\ HeldKindsInv
  BY <1>4, <1>7 DEF OneRowInv, HeldKindsInv, PgKindsInv, Absent
<1>9. NamedKindsInv
  BY <1>1, <1>2, <1>4, LoadNames DEF NamedKindsInv
<1> QED BY <1>4, <1>8, <1>9 DEF RowsInv

\* What a commit does to PostgreSQL's rows.
LEMMA CommitRows ==
    ASSUME ClosedInv, UpsertNode \/ DeleteNode \/ CreateEdge \/ DeleteEdge
    PROVE  /\ \A n \in NodeIds : pg'.nodes[n] \in {pg.nodes[n], Tombstone} \cup NodeRows
           /\ \A e \in EdgeIds :
                 \/ pg'.edges[e] = pg.edges[e]
                 \/ pg'.edges[e] = Tombstone /\ ~Absent(pg.edges[e])
                 \/ pg.edges[e] = Unborn /\ pg'.edges[e].kind \in EdgeKinds
           /\ UNCHANGED <<view, applied>>
<1>0. DOMAIN pg = {"nodes", "edges"} /\ DOMAIN pg.nodes = NodeIds /\ DOMAIN pg.edges = EdgeIds
  BY DEF ClosedInv
<1>1. UNCHANGED <<view, applied>>
  BY DEF UpsertNode, DeleteNode, CreateEdge, DeleteEdge, Committed
<1>2. CASE UpsertNode
  BY <1>0, <1>1, <1>2 DEF UpsertNode
<1>3. CASE DeleteNode
  <2>1. PICK n \in DOMAIN Rows(pg.nodes) :
          pg' = [nodes |-> [pg.nodes EXCEPT ![n] = Tombstone],
                 edges |-> [e \in EdgeIds |->
                     IF e \in DOMAIN Rows(pg.edges) /\ n \in {pg.edges[e].start, pg.edges[e].end}
                       THEN Tombstone ELSE pg.edges[e]]]
    BY <1>3 DEF DeleteNode
  <2>2. \A e \in DOMAIN Rows(pg.edges) : ~Absent(pg.edges[e])
    BY DEF Rows, Restrict, Absent
  <2>3. /\ pg'.nodes = [pg.nodes EXCEPT ![n] = Tombstone]
        /\ \A e \in EdgeIds : pg'.edges[e] = pg.edges[e] \/ (pg'.edges[e] = Tombstone /\ e \in DOMAIN Rows(pg.edges))
    BY <2>1
  <2> QED BY <1>0, <1>1, <2>2, <2>3
<1>4. CASE CreateEdge
  <2>1. PICK e \in EdgeIds, s \in DOMAIN Rows(pg.nodes), t \in DOMAIN Rows(pg.nodes), k \in EdgeKinds :
          /\ pg.edges[e] = Unborn
          /\ pg' = [pg EXCEPT !.edges[e] = [start |-> s, end |-> t, kind |-> k]]
    BY <1>4 DEF CreateEdge
  <2>2. pg'.nodes = pg.nodes /\ pg'.edges = [pg.edges EXCEPT ![e] = [start |-> s, end |-> t, kind |-> k]]
    BY <1>0, <2>1
  <2> QED BY <1>0, <1>1, <2>1, <2>2
<1>5. CASE DeleteEdge
  <2>1. PICK e \in DOMAIN Rows(pg.edges) : pg' = [pg EXCEPT !.edges[e] = Tombstone]
    BY <1>5 DEF DeleteEdge
  <2>2. e \in EdgeIds /\ ~Absent(pg.edges[e])
    BY <1>0 DEF Rows, Restrict, Absent
  <2>3. pg'.nodes = pg.nodes /\ pg'.edges = [pg.edges EXCEPT ![e] = Tombstone]
    BY <1>0, <2>1
  <2> QED BY <1>0, <1>1, <2>2, <2>3
<1> QED BY <1>2, <1>3, <1>4, <1>5

\* A commit keeps the invariant of rows.
LEMMA CommitKeepsRows ==
    ASSUME CompactionConstants, CurrentInv, RowsInv, UpsertNode \/ DeleteNode \/ CreateEdge \/ DeleteEdge
    PROVE  RowsInv'
<1>1. /\ \A n \in NodeIds : pg'.nodes[n] \in {pg.nodes[n], Tombstone} \cup NodeRows
      /\ \A e \in EdgeIds : \/ pg'.edges[e] = pg.edges[e]
                            \/ pg'.edges[e] = Tombstone /\ ~Absent(pg.edges[e])
                            \/ pg.edges[e] = Unborn /\ pg'.edges[e].kind \in EdgeKinds
      /\ UNCHANGED <<view, applied>>
  BY CommitRows DEF CurrentInv
<1>2. (\A row \in NodeRows : row.kinds \subseteq KindIds) /\ EdgeKinds \subseteq KindIds
  BY DEF KindIds
<1>3. PgKindsInv'
  BY <1>1, <1>2 DEF RowsInv, PgKindsInv, Absent
<1>4. OneRowInv'
  <2>1. \A e, row : Holds(view, "edges", e, row) <=> Holds(view', "edges", e, row)
    BY <1>1
  <2>2. ASSUME NEW e, NEW row, Holds(view, "edges", e, row)
        PROVE  e \in EdgeIds /\ pg'.edges[e] # Unborn /\ (pg'.edges[e] # Tombstone => row = pg'.edges[e])
    <3>1. e \in EdgeIds /\ pg.edges[e] # Unborn /\ (pg.edges[e] # Tombstone => row = pg.edges[e])
      BY <2>2 DEF RowsInv, OneRowInv
    <3> QED BY <1>1, <3>1, UnbornIsNotTombstone
  <2> QED BY <1>1, <2>2 DEF RowsInv, OneRowInv
<1>5. HeldKindsInv' /\ NamedKindsInv'
  BY <1>1 DEF RowsInv, HeldKindsInv, NamedKindsInv
<1> QED BY <1>3, <1>4, <1>5 DEF RowsInv

\* The other steps leave PostgreSQL alone.
LEMMA OthersKeepRows ==
    ASSUME StackShowsApplied, CurrentInv, RowsInv, [Next]_vars,
           ~(UpsertNode \/ DeleteNode \/ CreateEdge \/ DeleteEdge)
    PROVE  RowsInv'
<1>1. pg' = pg
  BY DEF Next, vars, Apply, ApplyFallsBack, AdoptRebuilt, Stop, Run, Fold, AdoptCompaction, DiscardCompaction,
         CompactionPanics, SaveReturns
<1>2. DOMAIN pg.nodes = NodeIds /\ DOMAIN pg.edges = EdgeIds /\ ClosedInv
  BY DEF CurrentInv, ClosedInv
<1>3. ASSUME NEW n, NEW row, Holds(view', "nodes", n, row)
      PROVE  row.kinds \subseteq KindIds
  <2>1. Holds(view, "nodes", n, row) \/ (n \in DOMAIN pg.nodes /\ ~Absent(row) /\ row = pg.nodes[n])
    BY <1>3, StepHolds
  <2> QED BY <1>2, <2>1 DEF RowsInv, PgKindsInv, HeldKindsInv
<1>4. ASSUME NEW e, NEW row, Holds(view', "edges", e, row)
      PROVE  /\ row.kind \in KindIds /\ e \in EdgeIds /\ pg.edges[e] # Unborn
             /\ pg.edges[e] # Tombstone => row = pg.edges[e]
             /\ Holds(view, "edges", e, row) \/ (pg.edges[e] # Tombstone /\ row = pg.edges[e])
  <2>1. Holds(view, "edges", e, row) \/ (e \in DOMAIN pg.edges /\ ~Absent(row) /\ row = pg.edges[e])
    BY <1>4, StepHolds
  <2>2. CASE Holds(view, "edges", e, row)
    BY <2>2 DEF RowsInv, OneRowInv, HeldKindsInv
  <2>3. CASE e \in DOMAIN pg.edges /\ ~Absent(row) /\ row = pg.edges[e]
    BY <1>2, <2>3 DEF RowsInv, PgKindsInv, Absent
  <2> QED BY <2>1, <2>2, <2>3
<1>5. ASSUME NEW e, NEW row, NEW other, Holds(view', "edges", e, row), Holds(view', "edges", e, other)
      PROVE  row = other
  <2>1. Holds(view, "edges", e, row) \/ (pg.edges[e] # Tombstone /\ row = pg.edges[e])
    BY <1>4, <1>5
  <2>2. Holds(view, "edges", e, other) \/ (pg.edges[e] # Tombstone /\ other = pg.edges[e])
    BY <1>4, <1>5
  <2>3. pg.edges[e] # Tombstone => row = pg.edges[e] /\ other = pg.edges[e]
    BY <1>4, <1>5
  <2> QED BY <2>1, <2>2, <2>3 DEF RowsInv, OneRowInv
<1>6. OneRowInv' /\ PgKindsInv' /\ HeldKindsInv'
  BY <1>1, <1>3, <1>4, <1>5 DEF OneRowInv, PgKindsInv, HeldKindsInv, RowsInv
<1>7. NamedKindsInv'
  <2>1. CASE Apply
    BY <2>1, ApplyNames DEF RowsInv
  <2>2. CASE AdoptRebuilt
    <3>1. applied' = LoadedBase(pg)
      BY <2>2 DEF AdoptRebuilt
    <3> QED BY <1>2, <3>1, LoadNames DEF RowsInv, NamedKindsInv
  <2>3. CASE UNCHANGED applied
    BY <2>3 DEF RowsInv, NamedKindsInv
  <2>4. Apply \/ AdoptRebuilt \/ UNCHANGED applied
    BY DEF Next, vars, ApplyFallsBack, Stop, Run, Fold, AdoptCompaction, DiscardCompaction, CompactionPanics, SaveReturns
  <2> QED BY <2>1, <2>2, <2>3, <2>4
<1> QED BY <1>6, <1>7 DEF RowsInv

\* A delta of edges that do not resolve hides nothing of the base: its edges would
\* have the base's rows, and those resolve.
LEMMA UnresolvedAddNothing ==
    ASSUME ViewSound(view), OneRowInv, DeltaHoldsOnlyUnresolvableEdges(view)
    PROVE  /\ VisibleEdges(view) = VisibleEdges(NewView(view.base))
           /\ AliveNodes(view) = DOMAIN view.base.nodes
<1> DEFINE v == view
           w == NewView(v.base)
<1>1. /\ DOMAIN v.delta.nodes = {}
      /\ \A e \in DOMAIN v.delta.edges : v.delta.edges[e] # Tombstone /\ e \notin DeltaEdges(v)
  BY DEF DeltaHoldsOnlyUnresolvableEdges, Delta
<1>2. \A n : (n \in AliveNodes(v) <=> n \in DOMAIN v.base.nodes) /\ (Alive(v, n) <=> n \in DOMAIN v.base.nodes)
  BY <1>1, AliveMeans
<1>3. /\ ViewSound(w) /\ w.base = v.base
      /\ DOMAIN w.delta.nodes = {} /\ DOMAIN w.delta.edges = {}
  BY BaseAlone DEF ViewSound
<1> HIDE DEF w
<1>4. \A n : Alive(w, n) <=> n \in DOMAIN v.base.nodes
  BY <1>3, AliveMeans
<1>5. ASSUME NEW e \in DOMAIN v.base.edges  PROVE e \notin DOMAIN v.delta.edges
  <2> SUFFICES ASSUME e \in DOMAIN v.delta.edges  PROVE FALSE
    OBVIOUS
  <2>1. Holds(v, "edges", e, v.delta["edges"][e])
    BY <1>1, DeltaIsHeld
  <2>2. Holds(v, "edges", e, v.base.edges[e])
    BY DEF Holds, ViewSound, BaseSound
  <2>3. v.delta.edges[e] = v.base.edges[e]
    BY <2>1, <2>2 DEF OneRowInv
  <2>4. v.base.edges[e].start \in DOMAIN v.base.nodes /\ v.base.edges[e].end \in DOMAIN v.base.nodes
    BY DEF ViewSound, BaseSound
  <2>5. e \in DeltaEdges(v)
    BY <1>1, <1>2, <2>3, <2>4 DEF DeltaEdges, Upserts, Delta
  <2> QED BY <1>1, <2>5
<1>6. ASSUME NEW e  PROVE EdgeStateByID(v, e) = EdgeStateByID(w, e)
  <2>1. CASE e \in DOMAIN v.delta.edges
    <3>1. EdgeStateByID(v, e) = Tombstone
      BY <1>1, <2>1, EdgeState
    <3>2. e \notin DOMAIN w.base.edges /\ e \notin DOMAIN w.delta.edges
      BY <1>3, <1>5, <2>1
    <3>3. EdgeStateByID(w, e) = Tombstone
      BY <1>3, <3>2, EdgeState
    <3> QED BY <3>1, <3>3
  <2>2. CASE e \notin DOMAIN v.delta.edges
    BY <1>2, <1>3, <1>4, <2>2 DEF EdgeStateByID, Delta
  <2> QED BY <2>1, <2>2
<1>7. ASSUME NEW t  PROVE t \in VisibleEdges(v) <=> t \in VisibleEdges(w)
  <2>1. t \in VisibleEdges(v) <=> \E e : LET row == EdgeStateByID(v, e)
                                         IN  row # Tombstone /\ t = <<row.start, row.end, row.kind, e>>
    BY SeenEdges
  <2>2. t \in VisibleEdges(w) <=> \E e : LET row == EdgeStateByID(w, e)
                                         IN  row # Tombstone /\ t = <<row.start, row.end, row.kind, e>>
    BY <1>3, SeenEdges
  <2> QED BY <1>6, <2>1, <2>2
<1>8. VisibleEdges(v) = VisibleEdges(w)
  BY <1>7
<1> QED BY <1>2, <1>8 DEF w

\* A view that holds what was applied, with one row for each edge and every kind
\* named, answers what a scan of it would say.
LEMMA ViewAnswers ==
    ASSUME CompactionConstants, StackShowsApplied, RowsInv
    PROVE  AnswersMatchScan
<1> DEFINE seen == VisibleEdges(view)
<1>1. ViewSound(view) /\ KindTable(view) = applied.kinds /\ OneRowInv
  BY DEF StackShowsApplied, Shows, KindTable, Delta, RowsInv
<1>2. KindsKnown(view)
  BY <1>1 DEF KindsKnown, RowsInv, HeldKindsInv, NamedKindsInv
<1>3. MaintenanceInvisible
  BY ShowsIsInvisible DEF StackShowsApplied
<1>4. ASSUME NEW n \in AliveNodes(view)  PROVE KindIDsOf(view, n) \subseteq KindTable(view)
  <2>1. VisibleNodes(view) = Restrict(applied.nodes, Upserts(applied.nodes))
    BY <1>3 DEF MaintenanceInvisible
  <2>2. DOMAIN VisibleNodes(view) = AliveNodes(view) /\ VisibleNodes(view)[n] = NodeRow(view, n)
    BY <1>4 DEF VisibleNodes
  <2>3. n \in Upserts(applied.nodes) /\ NodeRow(view, n) = applied.nodes[n]
    BY <2>1, <2>2 DEF Restrict
  <2> QED BY <1>1, <2>3 DEF KindIDsOf, RowsInv, NamedKindsInv
<1>5. ASSUME NEW t \in seen  PROVE t[3] \in KindTable(view)
  <2>1. PICK e \in ShownEdges(applied) :
          t = <<applied.edges[e].start, applied.edges[e].end, applied.edges[e].kind, e>>
    BY <1>3, <1>5 DEF MaintenanceInvisible
  <2>2. e \in Upserts(applied.edges) /\ t[3] = applied.edges[e].kind
    BY <2>1 DEF ShownEdges
  <2> QED BY <1>1, <2>2 DEF RowsInv, NamedKindsInv
<1>6. ASSUME NEW e
      PROVE  LET row == EdgeStateByID(view, e)
             IN  IF row = Tombstone THEN \A t \in seen : t[4] # e ELSE <<row.start, row.end, row.kind, e>> \in seen
  <2>1. ASSUME EdgeStateByID(view, e) = Tombstone, NEW t \in seen  PROVE t[4] # e
    <3>1. PICK d : LET row == EdgeStateByID(view, d)
                   IN  row # Tombstone /\ t = <<row.start, row.end, row.kind, d>>
      BY <1>1, <2>1, SeenEdges
    <3> QED BY <2>1, <3>1
  <2>2. ASSUME EdgeStateByID(view, e) # Tombstone
        PROVE  LET row == EdgeStateByID(view, e)
               IN  <<row.start, row.end, row.kind, e>> \in seen
    BY <1>1, <2>2, SeenEdges
  <2> QED BY <2>1, <2>2
<1>7. /\ \A n \in AliveNodes(view) : \A k \in KindIDsOf(view, n) : k <= MaxKindID(view)
      /\ \A t \in seen : t[3] <= MaxKindID(view)
  BY <1>1, <1>2, CeilingHolds
<1>8. DeltaHoldsOnlyUnresolvableEdges(view) =>
         seen = VisibleEdges(NewView(view.base)) /\ AliveNodes(view) = DOMAIN view.base.nodes
  BY <1>1, UnresolvedAddNothing
<1>9. /\ \A n \in AliveNodes(view) :
           /\ Slices(view, n, "start", "end") = {<<t[2], t[3], t[4]>> : t \in {t \in seen : t[1] = n}}
           /\ Slices(view, n, "end", "start") = {<<t[1], t[3], t[4]>> : t \in {t \in seen : t[2] = n}}
           /\ InEdges(view, n) = {<<t[1], t[3], t[4]>> : t \in {t \in seen : t[2] = n}}
      /\ \A n \in Known(view) \ AliveNodes(view) :
           Slices(view, n, "start", "end") = {} /\ Slices(view, n, "end", "start") = {}
  BY <1>1, RowsAreSeen
<1>10. /\ \A k : NodesOfKind(view, k) = {n \in AliveNodes(view) : k \in KindIDsOf(view, n)}
       /\ \A n \in AliveNodes(view) : n \in NodesByObjectID(view, ObjectIDOf(view, n))
       /\ \A oid : \A n \in NodesByObjectID(view, oid) : Alive(view, n) /\ ObjectIDOf(view, n) = oid
  BY <1>1, IndexesAreSeen
<1>11. ASSUME NEW k
       PROVE  /\ ~EdgeKindPresent(view, {k}) => \A t \in seen : t[3] # k
              /\ ~SelfLoopHazard(view, {k}) => \A t \in seen : t[3] = k => t[1] # t[2]
  BY <1>1, DenialsHold
<1> HIDE DEF seen
<1>12. \A k : k <= MaxKindID(view) \/ \A n \in AliveNodes(view) : k \notin KindIDsOf(view, n)
  BY <1>7
<1>13. \A n \in AliveNodes(view) : KindIDsOf(view, n) \subseteq KindTable(view)
  BY <1>4
<1>14. \A t \in seen : t[3] \in KindTable(view) /\ t[3] <= MaxKindID(view)
  BY <1>5, <1>7
<1> QED BY <1>6, <1>8, <1>9, <1>10, <1>11, <1>12, <1>13, <1>14, Zenon DEF AnswersMatchScan, seen

\* view.go: adjacency from slots or merged rows, kinds, object ids, the kind ceiling
\* and the denials always agree with a scan of base and stack, after any applies,
\* collapses, folds, adoptions and rebuilds.
THEOREM AnswersStayRight ==
    Spec => []AnswersMatchScan
<1>1. Init => CurrentInv /\ RowsInv
  BY InitCurrent, InitRows, CompactionAssumption
<1>2. StackShowsApplied /\ CurrentInv /\ RowsInv /\ [Next]_vars => CurrentInv' /\ RowsInv'
  BY CompactionAssumption, CommitStaysCurrent, ApplyStaysCurrent, RebuildIsCurrent, OthersStayCurrent,
     CommitKeepsRows, OthersKeepRows DEF Next
<1>3. StackShowsApplied /\ RowsInv => AnswersMatchScan
  BY ViewAnswers, CompactionAssumption
<1> QED BY <1>1, <1>2, <1>3, StackInvariant, PTL DEF Spec
=============================================================================
