---------------------------- MODULE SnapshotBase ----------------------------
(***************************************************************************)
(* The immutable base of the in-memory graph: nodes, properties and edges   *)
(* are staged in a builder and packed into flat arrays (a CSR in both        *)
(* directions, a sorted run of property entries per node, one byte arena).   *)
(* A snapshot read from a file is such a set of arrays with any content;     *)
(* validateSnapshotStructure decides whether it may be served.  Arrays are   *)
(* sequences whose elements, offsets, dense ids and slots count from 0.      *)
(***************************************************************************)
EXTENDS Integers, Sequences, FiniteSets, SequencesExt, TLC

CONSTANTS DbIds,          \* database ids of nodes
          EdgeSlots,      \* edges a load may stage: [id, start, end, kind]
          KindLists,      \* kind ids a node may carry, as sequences
          PropBags,       \* property bags: sequences of [name, kind, num, bytes]
          MaxEdges,
          MaxPropID,      \* PropID is a uint16; small here
          MaxArena,       \* arena offsets are uint32; small here
          WordBits,       \* bits of a Bitset word
          Corruptions     \* values a damaged file may hold in place of one entry

ASSUME BaseAssumption == MaxArena \in Nat /\ Corruptions \subseteq Nat

VARIABLES builder,  \* Builder, or BuildFailed
          staged,   \* history: what was handed to it, nodes by database id
          snap      \* NoSnapshot, or [arrays, damaged]

baseVars == <<builder, staged, snap>>

BuildFailed == [failed |-> TRUE]
NoSnapshot == [built |-> FALSE]
At(seq, i) == seq[i + 1]
Slice(seq, lo, hi) == SubSeq(seq, lo + 1, hi)

NewBuilder == [ids |-> <<>>, nodeKinds |-> <<>>, kindOffsets |-> <<0>>,
               propNames |-> <<>>, entries |-> <<>>, propOffsets |-> <<0>>, arena |-> <<>>, edges |-> <<>>]

BaseInit == builder = NewBuilder /\ staged = [nodes |-> <<>>, edges |-> {}] /\ snap = NoSnapshot

(***************************************************************************)
(* Property bags.                                                          *)
(***************************************************************************)
InArena(kind) == kind \in {"string", "array", "object"}

(* internProp: the id of a name, given out in order of first use. *)
Interned(names, name) == IF name \in Range(names) THEN names ELSE Append(names, name)
PropIDOf(names, name) == CHOOSE i \in 0..(Len(names) - 1) : At(names, i) = name

(* appendPropBytes: where a payload begins. *)
ArenaRef(arena, bytes) == Len(arena)

(* commitNodeProps, one property: its entry, the names and the arena after. *)
CommitProp(acc, pp) ==
    LET names == Interned(acc.names, pp.name)
        bytes == IF InArena(pp.kind) THEN pp.bytes ELSE <<>>
    IN  [ok |-> acc.ok /\ Len(names) <= MaxPropID + 1 /\ Len(acc.arena) + Len(bytes) <= MaxArena,
         names |-> names, arena |-> acc.arena \o bytes,
         entries |-> Append(acc.entries,
             [prop |-> PropIDOf(names, pp.name), kind |-> pp.kind, num |-> pp.num,
              ref |-> IF InArena(pp.kind) THEN ArenaRef(acc.arena, bytes) ELSE 0, len |-> Len(bytes)])]
CommitNodeProps(bag) ==
    LET done == FoldLeft(CommitProp, [ok |-> TRUE, names |-> builder.propNames, arena |-> builder.arena, entries |-> <<>>], bag)
    IN  [done EXCEPT !.entries = SortSeq(@, LAMBDA x, y : x.prop < y.prop)]

(***************************************************************************)
(* Staging.                                                                *)
(***************************************************************************)
AddNode == \E id \in DbIds, kinds \in KindLists, bag \in PropBags :
    /\ snap = NoSnapshot /\ builder # BuildFailed /\ staged.edges = {}
    /\ LET props == CommitNodeProps(bag) IN
       IF (builder.ids # <<>> /\ id <= Last(builder.ids)) \/ ~props.ok
         THEN builder' = BuildFailed /\ UNCHANGED staged
         ELSE /\ builder' = [builder EXCEPT !.ids = Append(@, id), !.nodeKinds = @ \o kinds,
                                !.kindOffsets = Append(@, Len(builder.nodeKinds) + Len(kinds)),
                                !.propNames = props.names, !.arena = props.arena, !.entries = @ \o props.entries,
                                !.propOffsets = Append(@, Len(builder.entries) + Len(props.entries))]
              /\ staged' = [staged EXCEPT !.nodes = @ @@ id :> [kinds |-> Range(kinds), props |-> Range(bag)]]
    /\ UNCHANGED snap

AddEdge == \E e \in EdgeSlots :
    /\ snap = NoSnapshot /\ builder # BuildFailed
    /\ Len(builder.edges) < MaxEdges
    /\ \A f \in staged.edges : f.id # e.id /\ (f.start # e.start \/ f.end # e.end \/ f.kind # e.kind)
    /\ builder' = [builder EXCEPT !.edges = Append(@, e)]
    /\ staged' = [staged EXCEPT !.edges = @ \cup {e}]
    /\ UNCHANGED snap

(***************************************************************************)
(* Build.                                                                  *)
(***************************************************************************)
DenseOf(ids, id) == CHOOSE i \in 0..(Len(ids) - 1) : At(ids, i) = id
(* Edges with a missing endpoint are dropped, the others made dense. *)
DenseEdges(ids) ==
    LET kept == SelectSeq(builder.edges, LAMBDA e : {e.start, e.end} \subseteq Range(ids))
    IN  [i \in DOMAIN kept |-> [id |-> kept[i].id, src |-> DenseOf(ids, kept[i].start),
                                dst |-> DenseOf(ids, kept[i].end), kind |-> kept[i].kind]]

Before(x, y, far) == x[far] < y[far] \/ (x[far] = y[far] /\ x.kind < y.kind)
(* One row per node, sorted by the far end and the kind. *)
RowsBy(n, edges, near, far) ==
    [i \in 1..n |-> SortSeq(SelectSeq(edges, LAMBDA e : e[near] = i - 1), LAMBDA x, y : Before(x, y, far))]
Offsets(rows) == [i \in 1..(Len(rows) + 1) |-> Len(FlattenSeq(SubSeq(rows, 1, i - 1)))]
Field(seq, f) == [i \in DOMAIN seq |-> seq[i][f]]

\* Broken on purpose: the reverse arrays name an edge by its place before sorting.
PackReverseUnsorted(n, forward) ==
    RowsBy(n, [j \in DOMAIN forward |-> forward[j] @@ [fwd |-> forward[j].dst]], "dst", "src")

(* packReverse: the forward slots again, each with its forward index. *)
PackReverse(n, forward) ==
    RowsBy(n, [j \in DOMAIN forward |-> forward[j] @@ [fwd |-> j - 1]], "dst", "src")

(* buildEdgeIDPerm: forward slots in order of edge id. *)
EdgeIDPerm(ids) == SortSeq([i \in DOMAIN ids |-> i - 1], LAMBDA x, y : At(ids, x) < At(ids, y))

BuiltArrays ==
    LET n == Len(builder.ids)
        rows == RowsBy(n, DenseEdges(builder.ids), "src", "dst")
        out == FlattenSeq(rows)
        back == PackReverse(n, out)
        in == FlattenSeq(back)
    IN  [graphIDs |-> builder.ids,
         outOffsets |-> Offsets(rows), outTargets |-> Field(out, "dst"), outKinds |-> Field(out, "kind"), outEdgeIDs |-> Field(out, "id"),
         inOffsets |-> Offsets(back), inTargets |-> Field(in, "src"), inKinds |-> Field(in, "kind"), inEdgeIdx |-> Field(in, "fwd"),
         edgeIDPerm |-> EdgeIDPerm(Field(out, "id")),
         kindOffsets |-> builder.kindOffsets, nodeKinds |-> builder.nodeKinds,
         propNames |-> builder.propNames, entries |-> builder.entries, propOffsets |-> builder.propOffsets, arena |-> builder.arena]

Build ==
    /\ snap = NoSnapshot /\ builder # BuildFailed
    /\ snap' = [built |-> TRUE, damaged |-> FALSE, arrays |-> BuiltArrays]
    /\ UNCHANGED <<builder, staged>>

(* Arrays of a file: elements are of the wire's types, and the arena is no     *)
(* longer than a reference can address, as appendPropBytes keeps it.          *)
PropKinds == {"null", "false", "true", "number", "string", "array", "object"}
PropEntry == [prop : Nat, kind : PropKinds \cup {"unknown"}, num : Int, ref : Nat, len : Nat]
Arrays ==
    [graphIDs : Seq(Int), outOffsets : Seq(Nat), outTargets : Seq(Nat), outKinds : Seq(Int), outEdgeIDs : Seq(Int),
     inOffsets : Seq(Nat), inTargets : Seq(Nat), inKinds : Seq(Int), inEdgeIdx : Seq(Nat), edgeIDPerm : Seq(Nat),
     kindOffsets : Seq(Nat), nodeKinds : Seq(Int), propNames : Seq(STRING), entries : Seq(PropEntry),
     propOffsets : Seq(Nat), arena : {content \in Seq(Nat) : Len(content) <= MaxArena}]

(* A file whose checksum was made to fit: one entry differs, or is missing. *)
Numbers == {"graphIDs", "outOffsets", "outTargets", "inOffsets", "inTargets", "inEdgeIdx", "edgeIDPerm", "kindOffsets", "propOffsets"}
Damaged(a) ==
    {[a EXCEPT ![f][i] = v] : f \in Numbers, i \in 1..8, v \in Corruptions}
      \cup {[a EXCEPT ![f] = Front(@)] : f \in {f \in Numbers \cup {"outKinds", "inKinds", "outEdgeIDs", "nodeKinds", "propNames", "arena", "entries"} : a[f] # <<>>}}
      \cup {[a EXCEPT !.entries[i][f] = v] : i \in DOMAIN a.entries, f \in {"prop", "ref", "len"}, v \in Corruptions}
      \cup {[a EXCEPT !.entries[i].kind = "unknown"] : i \in DOMAIN a.entries}
Corrupt ==
    /\ snap.built /\ ~snap.damaged
    /\ \E a \in Damaged(snap.arrays) : a # snap.arrays /\ snap' = [built |-> TRUE, damaged |-> TRUE, arrays |-> a]
    /\ UNCHANGED <<builder, staged>>

BaseNext == AddNode \/ AddEdge \/ Build \/ Corrupt
BaseSpec == BaseInit /\ [][BaseNext]_baseVars

(***************************************************************************)
(* What a snapshot answers.                                                *)
(***************************************************************************)
Rows(a, f) == {[dst |-> At(a.outTargets, s), kind |-> At(a.outKinds, s), id |-> At(a.outEdgeIDs, s)] : s \in f}
OutSlots(a, n) == At(a.outOffsets, n)..(At(a.outOffsets, n + 1) - 1)
InSlots(a, n) == At(a.inOffsets, n)..(At(a.inOffsets, n + 1) - 1)

(* sort.Search over 0..n: halve until the bounds meet. *)
SearchFrom(n, f) ==
    LET go[p \in (0..n) \X (0..n)] ==
          LET h == (p[1] + p[2]) \div 2
          IN  IF p[1] >= p[2] THEN p[1] ELSE IF f[h] THEN go[<<p[1], h>>] ELSE go[<<h + 1, p[2]>>]
    IN  go[<<0, n>>]
(* EdgeByID: a forward slot, or none. *)
EdgeByID(a, id) ==
    LET n == Len(a.edgeIDPerm)
        i == SearchFrom(n, [h \in 0..(n - 1) |-> At(a.outEdgeIDs, At(a.edgeIDPerm, h)) >= id])
    IN  IF i < n /\ At(a.outEdgeIDs, At(a.edgeIDPerm, i)) = id THEN {At(a.edgeIDPerm, i)} ELSE {}

KindsOf(a, n) == Range(Slice(a.nodeKinds, At(a.kindOffsets, n), At(a.kindOffsets, n + 1)))

(* Bitset: words of WordBits bits, set bit by bit. *)
Words(n) == (n + WordBits - 1) \div WordBits
BitsetOf(n, members) ==
    [words |-> [w \in 0..(Words(n) - 1) |-> {i % WordBits : i \in {i \in members : i \div WordBits = w}}],
     count |-> Cardinality({i \in members : i \div WordBits < Words(n)})]
Iterate(bits) == UNION {{w * WordBits + i : i \in bits.words[w]} : w \in DOMAIN bits.words}
NodesOfKind(a, k) ==
    LET n == Len(a.graphIDs) IN Iterate(BitsetOf(n, {i \in 0..(n - 1) : k \in KindsOf(a, i)}))

(* Value and NodeMap; decode adds ref and len in 32 bits. *)
EntriesOf(a, n) == Slice(a.entries, At(a.propOffsets, n), At(a.propOffsets, n + 1))
DecodeEnd(e) == (e.ref + e.len) % (MaxArena + 1)
Decode(a, e) == IF InArena(e.kind) THEN Slice(a.arena, e.ref, DecodeEnd(e)) ELSE e.num
Value(a, n, prop) ==
    LET es == EntriesOf(a, n)
        i == SearchFrom(Len(es), [h \in 0..(Len(es) - 1) |-> At(es, h).prop >= prop])
    IN  IF i < Len(es) /\ At(es, i).prop = prop THEN {Decode(a, At(es, i))} ELSE {}
NodeMap(a, n) == {[name |-> At(a.propNames, e.prop), value |-> Decode(a, e)] : e \in Range(EntriesOf(a, n))}

(***************************************************************************)
(* validateSnapshotStructure, validatePropStore.                            *)
(***************************************************************************)
ValidOffsets(offsets, indexed) ==
    /\ offsets # <<>> /\ offsets[1] = 0 /\ Last(offsets) = indexed
    /\ \A i \in 2..Len(offsets) : offsets[i - 1] <= offsets[i]
\* Broken on purpose: the end of an entry's span is added in 32 bits.
SpanInArenaWrapped(a, e) == InArena(e.kind) => (e.ref + e.len) % (MaxArena + 1) <= Len(a.arena)

SpanInArena(a, e) == InArena(e.kind) => e.ref + e.len <= Len(a.arena)
ValidatePropStore(a) ==
    /\ Len(a.propOffsets) = Len(a.graphIDs) + 1
    /\ ValidOffsets(a.propOffsets, Len(a.entries))
    /\ \A i, j \in DOMAIN a.propNames : a.propNames[i] = a.propNames[j] => i = j
    /\ \A e \in Range(a.entries) : e.prop < Len(a.propNames) /\ e.kind \in PropKinds /\ SpanInArena(a, e)
    /\ \A n \in 0..(Len(a.graphIDs) - 1) : LET es == EntriesOf(a, n) IN \A i \in 2..Len(es) : es[i - 1].prop < es[i].prop
Validate(a) ==
    LET n == Len(a.graphIDs)
        e == Len(a.outTargets)
    IN  /\ \A f \in {"outKinds", "outEdgeIDs", "inTargets", "inKinds", "inEdgeIdx", "edgeIDPerm"} : Len(a[f]) = e
        /\ \A f \in {"outOffsets", "inOffsets", "kindOffsets"} : Len(a[f]) = n + 1
        /\ ValidOffsets(a.outOffsets, e) /\ ValidOffsets(a.inOffsets, e) /\ ValidOffsets(a.kindOffsets, Len(a.nodeKinds))
        /\ \A i \in 2..n : a.graphIDs[i - 1] < a.graphIDs[i]
        /\ \A t \in Range(a.outTargets) \cup Range(a.inTargets) : t < n
        /\ \A i \in Range(a.inEdgeIdx) \cup Range(a.edgeIDPerm) : i < e
        /\ ValidatePropStore(a)

-----------------------------------------------------------------------------
(* A snapshot answers exactly what was staged, however the staging order      *)
(* went, in arrays of the types readers take: each node's edges in both directions, the reverse slots naming the   *)
(* same edge as the forward ones, every edge by id, kinds by bitmap, and     *)
(* properties by name through the arena; and the check accepts it.           *)
HoldsStaged ==
    snap.built /\ ~snap.damaged =>
      LET a == snap.arrays
          n == Len(a.graphIDs)
          whole == {e \in staged.edges : {e.start, e.end} \subseteq DOMAIN staged.nodes}
      IN  /\ a \in Arrays /\ Validate(a)
          /\ Range(a.graphIDs) = DOMAIN staged.nodes
          /\ \A i \in 0..(n - 1) : LET id == At(a.graphIDs, i) IN
               /\ {<<At(a.graphIDs, r.dst), r.kind, r.id>> : r \in Rows(a, OutSlots(a, i))} =
                     {<<e.end, e.kind, e.id>> : e \in {e \in whole : e.start = id}}
               /\ {<<At(a.graphIDs, At(a.inTargets, s)), At(a.inKinds, s), At(a.outEdgeIDs, At(a.inEdgeIdx, s))>> : s \in InSlots(a, i)} =
                     {<<e.start, e.kind, e.id>> : e \in {e \in whole : e.end = id}}
               /\ KindsOf(a, i) = staged.nodes[id].kinds
               /\ NodeMap(a, i) = {[name |-> p.name, value |-> IF InArena(p.kind) THEN p.bytes ELSE p.num] : p \in staged.nodes[id].props}
               /\ \A p \in 0..(Len(a.propNames) - 1) : Value(a, i, p) = {m.value : m \in {m \in NodeMap(a, i) : m.name = At(a.propNames, p)}}
          /\ \A e \in EdgeSlots : (EdgeByID(a, e.id) # {}) <=> \E f \in whole : f.id = e.id
          /\ \A e \in EdgeSlots : \A s \in EdgeByID(a, e.id) : At(a.outEdgeIDs, s) = e.id
          /\ \A k \in UNION {Range(l) : l \in KindLists} : NodesOfKind(a, k) = {i \in 0..(n - 1) : k \in KindsOf(a, i)}

(* Every offset a reader follows lands in its array, every slot names a node, *)
(* an edge, a name or a span of the arena that exists, no span runs           *)
(* backwards, and every value is of a kind that decode knows.                 *)
Spans(seq, lo, hi) == lo <= hi /\ hi <= Len(seq)
IsEdgeSlot(a, s) == s + 1 \in DOMAIN a.outTargets
IsNode(a, n) == n + 1 \in DOMAIN a.graphIDs
RowSafe(a, i) ==
    /\ \A f \in {"outTargets", "outKinds", "outEdgeIDs"} : Spans(a[f], At(a.outOffsets, i), At(a.outOffsets, i + 1))
    /\ \A f \in {"inTargets", "inKinds", "inEdgeIdx"} : Spans(a[f], At(a.inOffsets, i), At(a.inOffsets, i + 1))
    /\ Spans(a.nodeKinds, At(a.kindOffsets, i), At(a.kindOffsets, i + 1))
    /\ Spans(a.entries, At(a.propOffsets, i), At(a.propOffsets, i + 1))
    /\ \A s \in InSlots(a, i) : IsEdgeSlot(a, At(a.inEdgeIdx, s)) /\ IsNode(a, At(a.inTargets, s))
    /\ \A s \in OutSlots(a, i) : IsNode(a, At(a.outTargets, s))
    /\ \A e \in Range(EntriesOf(a, i)) :
          e.prop + 1 \in DOMAIN a.propNames /\ e.kind \in PropKinds /\ (InArena(e.kind) => Spans(a.arena, e.ref, DecodeEnd(e)))
Safe(a) ==
    /\ \A i \in 0..(Len(a.graphIDs) - 1) : RowSafe(a, i)
    /\ \A p \in Range(a.edgeIDPerm) : IsEdgeSlot(a, p)

(* validateSnapshotStructure: arrays it accepts can be served, every offset,  *)
(* slot, name and arena span a reader follows landing inside its array.       *)
AcceptedIsSafe == snap.built /\ Validate(snap.arrays) => Safe(snap.arrays)
=============================================================================
