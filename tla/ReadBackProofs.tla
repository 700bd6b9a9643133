--------------------------- MODULE ReadBackProofs ---------------------------
(***************************************************************************)
(* A write's keys, read back query by query while others commit, bring the *)
(* view to PostgreSQL's graph, for any graph, writes, filters and fan-out    *)
(* cap, as long as an object id stays with its node; and read-back gives up  *)
(* on a triple only after a race.                                           *)
(*                                                                         *)
(* A row of the view that is not PostgreSQL's is Excused: a change set that  *)
(* is still to be applied names it.  While a change set is being read back   *)
(* the row may instead be one its remaining queries Ask for, and a row that  *)
(* was read is right or excused.  A commit keeps this (Legal says what the   *)
(* writers change and what they record of it), a query turns what is asked   *)
(* for into what was read (Settled), and publishing puts the rows read over  *)
(* the view.                                                               *)
(***************************************************************************)
EXTENDS ReadBack, OperatorLemmas

\* A row of a table over another, and nothing where neither has one.
RowIn(base, delta, x) == IF x \in DOMAIN delta THEN delta[x] ELSE IF x \in DOMAIN base THEN base[x] ELSE Tombstone
ViewNode(n) == RowIn(snap.base.nodes, snap.delta.nodes, n)
ViewEdge(e) == RowIn(snap.base.edges, snap.delta.edges, e)

\* PostgreSQL's row, as a reader would see it.
Present(row) == IF row = Unborn THEN Tombstone ELSE row
PgNode(n) == Present(db.nodes[n])
PgEdge(e) == Present(db.edges[e])
Live(table, x) == x \in DOMAIN table /\ table[x] \notin {Unborn, Tombstone}
Buried(n) == n \in NodeIds /\ db.nodes[n] = Tombstone

\* The tables hold rows, and no edge without its ends.
TablesInv ==
    /\ DOMAIN db.nodes = NodeIds /\ DOMAIN db.edges = EdgeIds
    /\ \A n \in NodeIds : db.nodes[n] \in {Unborn, Tombstone} \/ IsNode(db.nodes[n])
    /\ \A e \in EdgeIds : db.edges[e] \in {Unborn, Tombstone} \/ IsEdge(db.edges[e])
    /\ \A e \in EdgeIds : Live(db.edges, e) => Live(db.nodes, db.edges[e].start) /\ Live(db.nodes, db.edges[e].end)
    /\ Carriers(db.nodes) \subseteq carried

\* A row anyone holds was PostgreSQL's: an id is given out once, an edge never changes.
NodeBorn(n, row) ==
    row # Tombstone => /\ n \in NodeIds /\ db.nodes[n] # Unborn /\ IsNode(row)
                       /\ row.oid = NoOID \/ <<row.oid, n>> \in carried
EdgeBorn(e, row) == row # Tombstone => e \in EdgeIds /\ IsEdge(row) /\ db.edges[e] \in {row, Tombstone}
ViewInv ==
    /\ ViewSound(snap)
    /\ \A n \in DOMAIN snap.base.nodes \cup DOMAIN snap.delta.nodes : NodeBorn(n, ViewNode(n))
    /\ \A e \in DOMAIN snap.base.edges \cup DOMAIN snap.delta.edges : EdgeBorn(e, ViewEdge(e))

\* What a change set may name, and where its triples are while nobody raced it.
Quiet(cs) == ~cs.incomplete /\ ~cs.raced
Placed(cs) == Quiet(cs) => \A t \in cs.oidTriples : NodesUnder(db.nodes, t.start) # {} /\ NodesUnder(db.nodes, t.end) # {}
Landed(cs) == cs.triples # {} \/ cs.landed
KeysInv(cs) ==
    /\ DOMAIN cs = DOMAIN NoKeys
    /\ \A n \in cs.nodes : n \in NodeIds /\ db.nodes[n] # Unborn
    /\ \A e \in cs.edges : e \in EdgeIds /\ db.edges[e] # Unborn
    /\ NoOID \notin cs.oids /\ \A t \in cs.triples : IsEdge(t)
    /\ \A t \in cs.oidTriples : t.start \in cs.oids /\ t.end \in cs.oids
    /\ Landed(cs) => TripleKinds(cs) \subseteq registered
    /\ Placed(cs)

\* A node row that differs from PostgreSQL's is named: by its id, by an object id it has or
\* had, or by the filter that deleted it; and by its id if it was re-keyed.
Filtered(cs, row, now) == row # Tombstone /\ now = Tombstone /\ \E c \in cs.nodeCriteria : Matches(c, row.kinds)
NodeNamed(cs, n, row, now) ==
    \/ cs.opaque \/ n \in cs.nodes
    \/ row # Tombstone /\ row.oid \in cs.oids
    \/ now # Tombstone /\ now.oid \in cs.oids
    \/ Filtered(cs, row, now)
Rekeyed(row, now) == row # Tombstone /\ now # Tombstone /\ row.oid # now.oid
NamedById(n) == \E cs \in changes : n \in cs.nodes
NodeExcused(n, row) ==
    /\ row = PgNode(n) \/ \E cs \in changes : NodeNamed(cs, n, row, PgNode(n))
    /\ Rekeyed(row, PgNode(n)) => NamedById(n)

\* An edge row that differs is named by its id, by the triple that created it, by the kinds
\* that deleted it; or one of its ends is gone; or readBack documents that it is given up.
Means(t, row) == t.kind = row.kind /\ <<t.start, row.start>> \in carried /\ <<t.end, row.end>> \in carried
EdgeNamed(cs, e, row, now) ==
    \/ cs.opaque \/ e \in cs.edges
    \/ now # Tombstone /\ now \in cs.triples
    \/ now # Tombstone /\ cs.landed /\ \E t \in cs.oidTriples : Means(t, now)
    \/ row # Tombstone /\ now = Tombstone /\ row.kind \in UNION cs.edgeCriteria
EdgeExcused(e, row) ==
    \/ row = PgEdge(e)
    \/ PgEdge(e) = Tombstone /\ (Buried(row.start) \/ Buried(row.end))
    \/ skipped /\ row = Tombstone
    \/ \E cs \in changes : EdgeNamed(cs, e, row, PgEdge(e))
-----------------------------------------------------------------------------
(***************************************************************************)
(* The read-back under way, before the query at place k of Stages.          *)
(***************************************************************************)
\* What the queries from place k on ask for.
NodeAsked(r, k, n, row) ==
    /\ \/ k <= 1 /\ n \in r.cs.nodes
       \/ k <= 2 /\ PgNode(n) # Tombstone /\ PgNode(n).oid \in r.cs.oids
       \/ k <= 7 /\ row # Tombstone /\ row.oid \in r.cs.oids
       \/ k <= 7 /\ Filtered(r.cs, row, PgNode(n))
    /\ Rekeyed(row, PgNode(n)) => NamedById(n) \/ (k <= 1 /\ n \in r.cs.nodes)
Meets(f, row) == row[f.side] \in f.ids /\ row.kind = f.kind
Awaited(r, k, t, now) ==
    \/ k <= 5
    \/ k <= 9 /\ t \in Deferred(r)
    \/ k <= 10 /\ \E f \in r.fanouts : Meets(f, now)
    \/ r.unnameable \/ r.overCap
EdgeAsked(r, k, e, row) ==
    LET now == PgEdge(e) IN
    \/ k <= 3 /\ e \in r.cs.edges
    \/ k <= 5 /\ now # Tombstone /\ now \in r.cs.triples
    \/ k <= 8 /\ row # Tombstone /\ now = Tombstone /\ row.kind \in UNION r.cs.edgeCriteria
    \/ now # Tombstone /\ r.cs.landed /\ \E t \in r.cs.oidTriples : Means(t, now) /\ Awaited(r, k, t, now)

AnsweredNodes(r) == DOMAIN r.nodes \cup r.absentNodes
AnsweredEdges(r) == DOMAIN r.edges \cup r.absentEdges
ReaderFields == {"pc", "cs", "nodes", "edges", "absentNodes", "absentEdges", "absentTriples", "oidToIDs",
                 "tripleKinds", "criteriaKinds", "asked", "fanouts", "discovered", "unnameable", "overCap"}

\* What was read was there, and what the read-back keeps for itself fits it.
ReadInv(r) ==
    /\ DOMAIN r = ReaderFields /\ KeysInv(r.cs) /\ ~r.cs.opaque
    /\ \A n \in DOMAIN r.nodes : r.nodes[n] # Tombstone /\ NodeBorn(n, r.nodes[n]) /\ NodeExcused(n, r.nodes[n])
    /\ \A n \in r.absentNodes : Buried(n)
    /\ \A e \in DOMAIN r.edges : r.edges[e] # Tombstone /\ EdgeBorn(e, r.edges[e]) /\ EdgeExcused(e, r.edges[e])
    /\ \A e \in r.absentEdges : e \in EdgeIds /\ db.edges[e] = Tombstone
    /\ \A t \in r.absentTriples : IsEdge(t)
    /\ \A e \in EdgeIds : ViewEdge(e) \in r.absentTriples => db.edges[e] = Tombstone
    /\ DOMAIN r.oidToIDs = r.cs.oids
    /\ \A o \in r.cs.oids : \A n \in r.oidToIDs[o] : n \in DOMAIN r.nodes /\ <<o, n>> \in carried
    /\ \A n \in r.discovered : n \in NodeIds /\ db.nodes[n] # Unborn

\* What is not read yet will be asked for, or is someone else's.
LeftNodes(r, k) ==
    \A n \in NodeIds \ AnsweredNodes(r) : NodeExcused(n, ViewNode(n)) \/ NodeAsked(r, k, n, ViewNode(n))
LeftEdges(r, k) ==
    \A e \in EdgeIds \ AnsweredEdges(r) :
        /\ EdgeExcused(e, ViewEdge(e)) \/ EdgeAsked(r, k, e, ViewEdge(e))
        /\ PgEdge(e) \in r.asked => EdgeExcused(e, ViewEdge(e))
KindsKnown(r, k) == k > 4 /\ Landed(r.cs) => TripleKinds(r.cs) \subseteq r.tripleKinds
LeftInv(r, k) == LeftNodes(r, k) /\ LeftEdges(r, k) /\ KindsKnown(r, k)

\* Nothing is given up before its stage, and nothing at all without a race.
RaceInv(r, k) ==
    /\ k <= 9 => ~r.unnameable /\ r.fanouts = {}
    /\ k <= 10 => ~r.overCap
    /\ Quiet(r.cs) => /\ k > 2 => Deferred(r) = {}
                      /\ r.fanouts = {} /\ ~r.unnameable /\ ~r.overCap
ReaderInv(r, k) == ReadInv(r) /\ RaceInv(r, k) /\ (~ObjectIdsMove => LeftInv(r, k))

ReadBackInv ==
    /\ ReadBackConstants /\ (~ObjectIdsMove => OneNodeEach(carried))
    /\ TablesInv /\ ViewInv
    /\ \A cs \in changes : KeysInv(cs)
    /\ reader # NoReader => Serving /\ \E k \in 1 .. 12 : reader.pc = Stages[k] /\ ReaderInv(reader, k)
    /\ ~ObjectIdsMove /\ Serving /\ reader = NoReader =>
         /\ \A n \in NodeIds : NodeExcused(n, ViewNode(n))
         /\ \A e \in EdgeIds : EdgeExcused(e, ViewEdge(e))
    /\ FallbackNeedsARace
-----------------------------------------------------------------------------
(***************************************************************************)
(* Rows, change sets and readers as records.                               *)
(***************************************************************************)

\* A row is neither of the two marks, and the marks differ.
LEMMA RowsAndMarks ==
    /\ Unborn # Tombstone
    /\ \A x : IsNode(x) \/ IsEdge(x) => x \notin {Unborn, Tombstone}
<1>1. DOMAIN Unborn = {"unborn"} /\ DOMAIN Tombstone = {"tombstoned"}
  BY DEF Unborn, Tombstone
<1>2. \A x : IsNode(x) => "kinds" \in DOMAIN x
  BY DEF IsNode
<1>3. \A x : IsEdge(x) => "start" \in DOMAIN x
  BY DEF IsEdge
<1> QED BY <1>1, <1>2, <1>3

\* Rows: the ids of a table that have a row.
LEMMA LiveRows ==
    ASSUME NEW table, NEW x
    PROVE  x \in DOMAIN Rows(table) <=> Live(table, x)
BY DEF Rows, Live, Restrict

\* A row with its kinds replaced keeps its object id.
LEMMA KindsReplaced ==
    ASSUME NEW row, IsNode(row), NEW kinds
    PROVE  LET new == [row EXCEPT !.kinds = kinds] IN IsNode(new) /\ new.oid = row.oid /\ new.kinds = kinds
BY DEF IsNode

\* The nodes that carry an object id.
LEMMA UnderMeans ==
    ASSUME NEW nodes, NEW oid, NEW n
    PROVE  n \in NodesUnder(nodes, oid) <=> Live(nodes, n) /\ nodes[n].oid = oid
BY LiveRows DEF NodesUnder

\* What NoKeys has.
LEMMA NoKeysFields ==
    /\ DOMAIN NoKeys = {"nodes", "oids", "edges", "triples", "oidTriples", "nodeCriteria", "edgeCriteria",
                        "opaque", "incomplete", "raced", "landed"}
    /\ NoKeys.nodes = {} /\ NoKeys.oids = {} /\ NoKeys.edges = {} /\ NoKeys.triples = {} /\ NoKeys.oidTriples = {}
    /\ NoKeys.nodeCriteria = {} /\ NoKeys.edgeCriteria = {} /\ NoKeys.opaque = FALSE /\ NoKeys.incomplete = FALSE
    /\ NoKeys.raced = FALSE /\ NoKeys.landed = FALSE
BY DEF NoKeys

\* What a race changes of a change set: nothing it names.
Alike(a, b) ==
    /\ DOMAIN a = DOMAIN b
    /\ a.nodes = b.nodes /\ a.oids = b.oids /\ a.edges = b.edges /\ a.triples = b.triples /\ a.oidTriples = b.oidTriples
    /\ a.nodeCriteria = b.nodeCriteria /\ a.edgeCriteria = b.edgeCriteria /\ a.opaque = b.opaque
    /\ a.incomplete = b.incomplete /\ a.landed = b.landed
LEMMA RaceIsAlike ==
    ASSUME NEW cs, DOMAIN cs = DOMAIN NoKeys
    PROVE  Alike(Race(cs), cs) /\ Race(cs).raced = TRUE
BY NoKeysFields DEF Race, Alike

\* The places of the queries.
LEMMA Places ==
    /\ DOMAIN Stages = 1 .. 12
    /\ Stages[1] = "nodesByID" /\ Stages[2] = "nodesByOID" /\ Stages[3] = "edgesByID" /\ Stages[4] = "tripleKinds"
    /\ Stages[5] = "triples" /\ Stages[6] = "criteriaKinds" /\ Stages[7] = "candidateNodes" /\ Stages[8] = "candidateEdges"
    /\ Stages[9] = "rekeyed" /\ Stages[10] = "fanouts" /\ Stages[11] = "endpoints" /\ Stages[12] = "publish"
BY DEF Stages

\* No two are the same, and none is the reader's rest or its start.
LEMMA PlacesDiffer ==
    /\ \A i, j \in 1 .. 12 : Stages[i] = Stages[j] => i = j
    /\ \A i \in 1 .. 12 : Stages[i] \notin {"none", "start"}
<1>1. \A i \in 1 .. 12 : i \in {1, 2, 3, 4, 5, 6, 7, 8, 9, 10, 11, 12}
  OBVIOUS
<1> QED BY <1>1, Places

\* From: the next query that has something to ask, everything between having nothing.
LEMMA NextQuery ==
    ASSUME NEW r, DOMAIN r = ReaderFields, NEW k0 \in 0 .. 11, NEW pc, pc = IF k0 = 0 THEN "start" ELSE Stages[k0]
    PROVE  /\ \E k \in (k0 + 1) .. 12 : /\ From(pc, r).pc = Stages[k] /\ HasQuery(Stages[k], r)
                                        /\ \A i \in (k0 + 1) .. (k - 1) : ~HasQuery(Stages[i], r)
           /\ DOMAIN From(pc, r) = ReaderFields
           /\ \A f \in ReaderFields \ {"pc"} : From(pc, r)[f] = r[f]
<1>1. After(pc) = (k0 + 1) .. 12
  <2>1. CASE k0 = 0
    BY <2>1, Places DEF After
  <2>2. CASE k0 # 0
    <3>1. pc = Stages[k0] /\ k0 \in 1 .. 11
      BY <2>2
    <3>2. pc # "start"
      BY <3>1, PlacesDiffer
    <3>3. After(pc) = {i \in 1 .. 12 : \E j \in 1 .. (i - 1) : Stages[j] = pc}
      BY <3>2, Places DEF After
    <3>4. ASSUME NEW i \in 1 .. 12  PROVE (\E j \in 1 .. (i - 1) : Stages[j] = pc) <=> i > k0
      <4>1. ASSUME NEW j \in 1 .. (i - 1), Stages[j] = pc  PROVE i > k0
        <5>1. j \in 1 .. 12 /\ k0 \in 1 .. 12 /\ Stages[j] = Stages[k0]
          BY <3>1, <4>1
        <5>2. j = k0
          BY <5>1, PlacesDiffer
        <5> QED BY <5>2
      <4>2. ASSUME i > k0  PROVE k0 \in 1 .. (i - 1) /\ Stages[k0] = pc
        BY <3>1, <4>2
      <4> QED BY <4>1, <4>2
    <3>5. \A i : i \in After(pc) <=> i \in 1 .. 12 /\ i > k0
      BY <3>3, <3>4
    <3>6. \A i : i \in After(pc) <=> i \in (k0 + 1) .. 12
      BY <3>1, <3>5
    <3>7. \A i \in (k0 + 1) .. 12 : i \in After(pc)
      BY <3>6
    <3>8. \A i \in After(pc) : i \in (k0 + 1) .. 12
      BY <3>6
    <3> QED BY <3>7, <3>8
  <2> QED BY <2>1, <2>2
<1> DEFINE Asking == {i \in After(pc) : HasQuery(Stages[i], r)}
<1>2. Asking \in SUBSET Nat /\ Asking # {}
  <2>1. HasQuery("publish", r)
    BY DEF HasQuery
  <2>2. 12 \in Asking
    BY <1>1, <2>1, Places
  <2> QED BY <1>1, <2>2
<1>3. Min(Asking) \in Asking /\ \A i \in Asking : Min(Asking) <= i
  <2> HIDE DEF Asking
  <2> QED BY <1>2, LeastNatural
<1>4. /\ DOMAIN From(pc, r) = ReaderFields /\ From(pc, r).pc = Stages[Min(Asking)]
      /\ \A f \in ReaderFields \ {"pc"} : From(pc, r)[f] = r[f]
  BY DEF From, ReaderFields
<1> DEFINE k == Min(Asking)
<1>5. k \in (k0 + 1) .. 12 /\ HasQuery(Stages[k], r)
  BY <1>1, <1>3
<1>6. \A i \in (k0 + 1) .. (k - 1) : ~HasQuery(Stages[i], r)
  <2> SUFFICES ASSUME NEW i \in (k0 + 1) .. (k - 1), HasQuery(Stages[i], r)  PROVE FALSE
    OBVIOUS
  <2>1. i \in Asking
    BY <1>1, <1>5
  <2>2. k <= i
    BY <1>3, <2>1
  <2> QED BY <1>5, <2>2
<1> QED BY <1>4, <1>5, <1>6
-----------------------------------------------------------------------------
(***************************************************************************)
(* Commits.  What a writer does to a row, and what it records of it.        *)
(***************************************************************************)
NodeMove(n, old, new, ks, races) ==
    old # new =>
      /\ old # Tombstone /\ new # Unborn /\ (new = Tombstone \/ IsNode(new)) /\ (old = Unborn => new # Tombstone)
      /\ new # Tombstone => \/ ks.opaque \/ n \in ks.nodes
                            \/ new.oid \in ks.oids /\ (old # Unborn => old.oid = new.oid)
      /\ new = Tombstone => ks.opaque \/ n \in ks.nodes \/ \E c \in ks.nodeCriteria : Matches(c, old.kinds)
      /\ old # Unborn /\ (new = Tombstone \/ new.oid # old.oid) => races
      /\ old # Unborn /\ new # Tombstone /\ new.oid # old.oid => n \in ks.nodes
EdgeMove(e, old, new, nodes, ks) ==
    old # new =>
      \/ /\ old = Unborn /\ IsEdge(new)
         /\ \/ ks.opaque \/ e \in ks.edges \/ new \in ks.triples
            \/ /\ ks.landed
               /\ \E t \in ks.oidTriples : /\ t.kind = new.kind /\ new.start \in NodesUnder(nodes, t.start)
                                           /\ new.end \in NodesUnder(nodes, t.end)
      \/ /\ old \notin {Unborn, Tombstone} /\ new = Tombstone
         /\ \/ ks.opaque \/ e \in ks.edges \/ old.kind \in UNION ks.edgeCriteria
            \/ nodes[old.start] = Tombstone \/ nodes[old.end] = Tombstone
KeysFit(nodes, edges, kinds, ks) ==
    /\ DOMAIN ks = DOMAIN NoKeys /\ ~ks.raced
    /\ \A n \in ks.nodes : n \in NodeIds /\ nodes[n] # Unborn
    /\ \A e \in ks.edges : e \in EdgeIds /\ edges[e] # Unborn
    /\ NoOID \notin ks.oids /\ \A t \in ks.triples : IsEdge(t)
    /\ \A t \in ks.oidTriples : t.start \in ks.oids /\ t.end \in ks.oids
    /\ Landed(ks) => TripleKinds(ks) \subseteq kinds
    /\ ~ks.incomplete => \A t \in ks.oidTriples : NodesUnder(nodes, t.start) # {} /\ NodesUnder(nodes, t.end) # {}
Legal(nodes, edges, kinds, ks, races) ==
    /\ DOMAIN nodes = NodeIds /\ DOMAIN edges = EdgeIds /\ races \in BOOLEAN
    /\ \A n \in NodeIds : NodeMove(n, db.nodes[n], nodes[n], ks, races)
    /\ \A e \in EdgeIds : EdgeMove(e, db.edges[e], edges[e], nodes, ks)
    /\ \A e \in EdgeIds : Live(edges, e) => Live(nodes, edges[e].start) /\ Live(nodes, edges[e].end)
    /\ KeysFit(nodes, edges, kinds, ks)

\* What every commit comes to.
Committed(ks, races) ==
    /\ Legal(db'.nodes, db'.edges, registered', ks, races)
    /\ carried' = carried \cup Carriers(db'.nodes) /\ (~ObjectIdsMove => OneNodeEach(carried'))
    /\ registered \subseteq registered'
    /\ changes' = (IF races THEN {Race(cs) : cs \in changes} ELSE changes) \cup {ks}
    /\ reader' = IF races /\ reader.pc # "none" THEN [reader EXCEPT !.cs = Race(@)] ELSE reader
    /\ UNCHANGED <<snap, fallback, skipped>>

\* Commit: the call commits and records its keys.
LEMMA CommitIs ==
    ASSUME NEW nodes, NEW edges, NEW kinds, NEW ks, NEW races,
           Commit(nodes, edges, kinds, ks, races), Legal(nodes, edges, kinds, ks, races)
    PROVE  Committed(ks, races)
<1>1. /\ db'.nodes = nodes /\ db'.edges = edges /\ registered' = registered \cup kinds
      /\ carried' = carried \cup Carriers(nodes) /\ (~ObjectIdsMove => OneNodeEach(carried'))
      /\ changes' = (IF races THEN {Race(cs) : cs \in changes} ELSE changes) \cup {ks}
      /\ reader' = IF races /\ reader.pc # "none" THEN [reader EXCEPT !.cs = Race(@)] ELSE reader
      /\ UNCHANGED <<snap, fallback, skipped>>
  BY DEF Commit
<1>2. Landed(ks) => TripleKinds(ks) \subseteq kinds
  BY DEF Legal, KeysFit
<1>3. Landed(ks) => TripleKinds(ks) \subseteq registered'
  BY <1>1, <1>2
<1>4. Legal(db'.nodes, db'.edges, registered', ks, races)
  BY <1>1, <1>3 DEF Legal, KeysFit
<1> QED BY <1>1, <1>4 DEF Committed

\* Every change set there was is still there, or is one that names the same.
LEMMA StillNamed ==
    ASSUME \A cs \in changes : KeysInv(cs), NEW ks, NEW races, Committed(ks, races)
    PROVE  /\ \A cs \in changes : \E new \in changes' : Alike(new, cs)
           /\ ks \in changes'
<1>1. races \in BOOLEAN /\ changes' = (IF races THEN {Race(cs) : cs \in changes} ELSE changes) \cup {ks}
  BY DEF Committed, Legal
<1>2. \A cs \in changes : Alike(Race(cs), cs) /\ Alike(cs, cs)
  BY RaceIsAlike DEF KeysInv, Alike
<1>3. CASE races
  BY <1>1, <1>2, <1>3
<1>4. CASE ~races
  BY <1>1, <1>2, <1>4
<1> QED BY <1>1, <1>3, <1>4

\* The tables after a commit.
LEMMA CommitTables ==
    ASSUME TablesInv, NEW ks, NEW races, Committed(ks, races)
    PROVE  /\ TablesInv'
           /\ \A n \in NodeIds : db.nodes[n] = Tombstone => db'.nodes[n] = Tombstone
           /\ \A n \in NodeIds : db.nodes[n] # Unborn => db'.nodes[n] # Unborn
           /\ \A e \in EdgeIds : db.edges[e] = Tombstone => db'.edges[e] = Tombstone
           /\ \A e \in EdgeIds : db.edges[e] # Unborn => db'.edges[e] \in {db.edges[e], Tombstone}
           /\ carried \subseteq carried'
<1>1. /\ DOMAIN db'.nodes = NodeIds /\ DOMAIN db'.edges = EdgeIds
      /\ \A n \in NodeIds : NodeMove(n, db.nodes[n], db'.nodes[n], ks, races)
      /\ \A e \in EdgeIds : EdgeMove(e, db.edges[e], db'.edges[e], db'.nodes, ks)
      /\ \A e \in EdgeIds : Live(db'.edges, e) => Live(db'.nodes, db'.edges[e].start) /\ Live(db'.nodes, db'.edges[e].end)
      /\ carried' = carried \cup Carriers(db'.nodes)
  BY DEF Committed, Legal
<1>2. \A n \in NodeIds : /\ db'.nodes[n] \in {Unborn, Tombstone} \/ IsNode(db'.nodes[n])
                         /\ db.nodes[n] = Tombstone => db'.nodes[n] = Tombstone
                         /\ db.nodes[n] # Unborn => db'.nodes[n] # Unborn
  BY <1>1 DEF NodeMove, TablesInv
<1>3. \A e \in EdgeIds : /\ db'.edges[e] \in {Unborn, Tombstone} \/ IsEdge(db'.edges[e])
                         /\ db.edges[e] = Tombstone => db'.edges[e] = Tombstone
                         /\ db.edges[e] # Unborn => db'.edges[e] \in {db.edges[e], Tombstone}
  BY <1>1, RowsAndMarks DEF EdgeMove, TablesInv
<1>4. TablesInv'
  BY <1>1, <1>2, <1>3 DEF TablesInv
<1> QED BY <1>1, <1>2, <1>3, <1>4

\* A row someone holds stays one that was PostgreSQL's.
LEMMA CommitBorn ==
    ASSUME TablesInv, NEW ks, NEW races, Committed(ks, races)
    PROVE  /\ \A n, row : NodeBorn(n, row) => NodeBorn(n, row)'
           /\ \A e, row : EdgeBorn(e, row) => EdgeBorn(e, row)'
<1>1. ASSUME NEW n, NEW row, NodeBorn(n, row)  PROVE NodeBorn(n, row)'
  BY <1>1, CommitTables DEF NodeBorn
<1>2. ASSUME NEW e, NEW row, EdgeBorn(e, row)  PROVE EdgeBorn(e, row)'
  <2> SUFFICES ASSUME row # Tombstone  PROVE e \in EdgeIds /\ IsEdge(row) /\ db'.edges[e] \in {row, Tombstone}
    BY DEF EdgeBorn
  <2>1. e \in EdgeIds /\ IsEdge(row) /\ db.edges[e] \in {row, Tombstone}
    BY <1>2 DEF EdgeBorn
  <2>2. db.edges[e] # Unborn
    BY <2>1, RowsAndMarks
  <2> QED BY <2>1, <2>2, CommitTables
<1> QED BY <1>1, <1>2

\* Every row of the view, a missing one too.
LEMMA ViewBorn ==
    ASSUME ViewInv
    PROVE  /\ \A n : NodeBorn(n, ViewNode(n))
           /\ \A e : EdgeBorn(e, ViewEdge(e))
<1>1. ASSUME NEW n  PROVE NodeBorn(n, ViewNode(n))
  <2>1. CASE n \in DOMAIN snap.base.nodes \cup DOMAIN snap.delta.nodes
    BY <2>1 DEF ViewInv
  <2>2. CASE n \notin DOMAIN snap.base.nodes \cup DOMAIN snap.delta.nodes
    BY <2>2 DEF ViewNode, RowIn, NodeBorn
  <2> QED BY <2>1, <2>2
<1>2. ASSUME NEW e  PROVE EdgeBorn(e, ViewEdge(e))
  <2>1. CASE e \in DOMAIN snap.base.edges \cup DOMAIN snap.delta.edges
    BY <2>1 DEF ViewInv
  <2>2. CASE e \notin DOMAIN snap.base.edges \cup DOMAIN snap.delta.edges
    BY <2>2 DEF ViewEdge, RowIn, EdgeBorn
  <2> QED BY <2>1, <2>2
<1> QED BY <1>1, <1>2

\* A change set that names the same names the same rows.
LEMMA NamesAlike ==
    ASSUME NEW a, NEW b, Alike(a, b)
    PROVE  /\ \A n, row, now : NodeNamed(b, n, row, now) => NodeNamed(a, n, row, now)
           /\ \A row, now : Filtered(b, row, now) <=> Filtered(a, row, now)
           /\ TripleKinds(a) = TripleKinds(b) /\ (Landed(a) <=> Landed(b))
BY DEF Alike, NodeNamed, Filtered, TripleKinds, Landed

\* What a commit makes of a row of the node table.
LEMMA NodeChanges ==
    ASSUME TablesInv, NEW ks, NEW races, Committed(ks, races), NEW n \in NodeIds
    PROVE  /\ NodeMove(n, db.nodes[n], db'.nodes[n], ks, races)
           /\ db.nodes[n] = db'.nodes[n] => PgNode(n)' = PgNode(n)
           /\ db.nodes[n] # db'.nodes[n] => /\ db.nodes[n] # Tombstone /\ PgNode(n)' = db'.nodes[n]
                                            /\ db.nodes[n] # Unborn => PgNode(n) = db.nodes[n]
<1>1. NodeMove(n, db.nodes[n], db'.nodes[n], ks, races)
  BY DEF Committed, Legal
<1> QED BY <1>1 DEF NodeMove, PgNode, Present

\* A node someone still has to apply stays someone's to apply.
LEMMA NamedByIdKept ==
    ASSUME \A cs \in changes : KeysInv(cs), NEW ks, NEW races, Committed(ks, races), NEW n, NamedById(n)
    PROVE  NamedById(n)'
<1>1. PICK cs \in changes : n \in cs.nodes
  BY DEF NamedById
<1>2. PICK new \in changes' : Alike(new, cs)
  BY StillNamed
<1>3. n \in new.nodes
  BY <1>1, <1>2 DEF Alike
<1> QED BY <1>3 DEF NamedById

\* A node that is re-keyed is named by its id, before a commit and after it.
LEMMA RekeyKept ==
    ASSUME TablesInv, \A cs \in changes : KeysInv(cs), NEW ks, NEW races, Committed(ks, races),
           NEW n \in NodeIds, NEW row, NodeBorn(n, row), NEW Q, Rekeyed(row, PgNode(n)) => NamedById(n) \/ Q,
           Rekeyed(row, PgNode(n)')
    PROVE  NamedById(n)' \/ Q
<1>1. CASE db.nodes[n] = db'.nodes[n]
  BY <1>1, NodeChanges, NamedByIdKept
<1>2. CASE db.nodes[n] # db'.nodes[n]
  <2>1. row # Tombstone /\ db'.nodes[n] # Tombstone /\ row.oid # db'.nodes[n].oid
    BY <1>2, NodeChanges DEF Rekeyed
  <2>2. db.nodes[n] # Unborn /\ db.nodes[n] # Tombstone /\ PgNode(n) = db.nodes[n]
    BY <1>2, <2>1, NodeChanges DEF NodeBorn
  <2>3. CASE row.oid # db.nodes[n].oid
    <3>1. Rekeyed(row, PgNode(n))
      BY <2>1, <2>2, <2>3 DEF Rekeyed
    <3> QED BY <3>1, NamedByIdKept
  <2>4. CASE row.oid = db.nodes[n].oid
    <3>1. n \in ks.nodes
      BY <1>2, <2>1, <2>2, <2>4, NodeChanges DEF NodeMove
    <3>2. ks \in changes'
      BY StillNamed
    <3> QED BY <3>1, <3>2 DEF NamedById
  <2> QED BY <2>3, <2>4
<1> QED BY <1>1, <1>2

\* A commit that changes a node names it, unless it deletes what an older write renamed.
LEMMA NodeChangeNamed ==
    ASSUME TablesInv, NEW ks, NEW races, Committed(ks, races),
           NEW n \in NodeIds, NEW row, db.nodes[n] # db'.nodes[n]
    PROVE  \/ row = PgNode(n)' \/ NodeNamed(ks, n, row, PgNode(n)')
           \/ PgNode(n)' = Tombstone /\ row # Tombstone /\ PgNode(n) # Tombstone /\ row # PgNode(n)
<1> USE NodeChanges
<1>1. CASE db'.nodes[n] # Tombstone
  BY <1>1 DEF NodeMove, NodeNamed
<1>2. CASE db'.nodes[n] = Tombstone
  <2>1. db.nodes[n] # Unborn /\ PgNode(n) = db.nodes[n] /\ PgNode(n)' = Tombstone /\ PgNode(n) # Tombstone
    BY <1>2 DEF NodeMove
  <2>2. ks.opaque \/ n \in ks.nodes \/ \E c \in ks.nodeCriteria : Matches(c, PgNode(n).kinds)
    BY <1>2, <2>1 DEF NodeMove
  <2>3. CASE row = PgNode(n)
    BY <2>1, <2>2, <2>3 DEF NodeNamed, Filtered
  <2> QED BY <2>1, <2>3
<1> QED BY <1>1, <1>2

\* A node row that is someone's to apply stays so.
LEMMA NodeExcusedKept ==
    ASSUME TablesInv, \A cs \in changes : KeysInv(cs), NEW ks, NEW races, Committed(ks, races),
           NEW n \in NodeIds, NEW row, NodeBorn(n, row), NodeExcused(n, row)
    PROVE  NodeExcused(n, row)'
<1>1. Rekeyed(row, PgNode(n)') => NamedById(n)'
  <2>1. Rekeyed(row, PgNode(n)) => NamedById(n) \/ FALSE
    BY DEF NodeExcused
  <2> QED BY <2>1, RekeyKept
<1>2. row = PgNode(n)' \/ \E cs \in changes' : NodeNamed(cs, n, row, PgNode(n)')
  <2>1. CASE db.nodes[n] = db'.nodes[n]
    <3>1. PgNode(n)' = PgNode(n)
      BY <2>1, NodeChanges
    <3>2. CASE \E cs \in changes : NodeNamed(cs, n, row, PgNode(n))
      <4>1. PICK cs \in changes : NodeNamed(cs, n, row, PgNode(n))
        BY <3>2
      <4>2. PICK new \in changes' : Alike(new, cs)
        BY StillNamed
      <4>3. NodeNamed(new, n, row, PgNode(n)')
        BY <3>1, <4>1, <4>2, NamesAlike
      <4> QED BY <4>3
    <3> QED BY <3>1, <3>2 DEF NodeExcused
  <2>2. CASE db.nodes[n] # db'.nodes[n]
    <3>1. ks \in changes'
      BY StillNamed
    <3>2. CASE row = PgNode(n)' \/ NodeNamed(ks, n, row, PgNode(n)')
      BY <3>1, <3>2
    <3>3. CASE PgNode(n)' = Tombstone /\ row # Tombstone /\ PgNode(n) # Tombstone /\ row # PgNode(n)
      <4>1. PICK cs \in changes : NodeNamed(cs, n, row, PgNode(n))
        BY <3>3 DEF NodeExcused
      <4>2. PICK new \in changes' : Alike(new, cs)
        BY StillNamed
      <4>3. CASE cs.opaque \/ n \in cs.nodes \/ row.oid \in cs.oids
        <5>1. NodeNamed(new, n, row, PgNode(n)')
          BY <3>3, <4>2, <4>3 DEF NodeNamed, Alike
        <5> QED BY <5>1
      <4>4. CASE Rekeyed(row, PgNode(n))
        <5>1. NamedById(n)'
          BY <4>4, NamedByIdKept DEF NodeExcused
        <5> QED BY <5>1 DEF NamedById, NodeNamed
      <4> QED BY <3>3, <4>1, <4>3, <4>4 DEF NodeNamed, Filtered, Rekeyed
    <3> QED BY <2>2, <3>2, <3>3, NodeChangeNamed
  <2> QED BY <2>1, <2>2
<1> QED BY <1>1, <1>2 DEF NodeExcused

\* A reader whose change set a race marked, and which is otherwise the same.
SameReader(new, r) ==
    /\ DOMAIN new = DOMAIN r /\ Alike(new.cs, r.cs)
    /\ \A f \in ReaderFields \ {"cs"} : new[f] = r[f]

\* A node the read-back will ask for stays so, or is the new write's.
LEMMA NodeAskedKept ==
    ASSUME TablesInv, \A cs \in changes : KeysInv(cs), NEW ks, NEW races, Committed(ks, races),
           NEW n \in NodeIds, NEW row, NodeBorn(n, row), NEW r, NEW new, SameReader(new, r), NEW k \in 1 .. 12,
           NodeAsked(r, k, n, row)
    PROVE  NodeExcused(n, row)' \/ NodeAsked(new, k, n, row)'
<1> DEFINE ById == k <= 1 /\ n \in r.cs.nodes
<1> USE NodeChanges
<1>1. Rekeyed(row, PgNode(n)') => NamedById(n)' \/ ById
  <2>1. Rekeyed(row, PgNode(n)) => NamedById(n) \/ ById
    BY DEF NodeAsked
  <2> HIDE DEF ById
  <2> QED BY <2>1, RekeyKept
<1>2. Alike(new.cs, r.cs)
  BY DEF SameReader
<1>3. CASE ById
  BY <1>2, <1>3 DEF NodeAsked, Alike
<1>4. CASE ~ById /\ db.nodes[n] = db'.nodes[n]
  <2>1. PgNode(n)' = PgNode(n)
    BY <1>4
  <2>2. \/ k <= 2 /\ PgNode(n) # Tombstone /\ PgNode(n).oid \in r.cs.oids
        \/ k <= 7 /\ row # Tombstone /\ row.oid \in r.cs.oids
        \/ k <= 7 /\ Filtered(r.cs, row, PgNode(n))
    BY <1>4 DEF NodeAsked
  <2>3. \/ k <= 2 /\ PgNode(n)' # Tombstone /\ PgNode(n)'.oid \in new.cs.oids
        \/ k <= 7 /\ row # Tombstone /\ row.oid \in new.cs.oids
        \/ k <= 7 /\ Filtered(new.cs, row, PgNode(n)')
    BY <1>2, <2>1, <2>2, NamesAlike DEF Alike
  <2> QED BY <1>1, <1>4, <2>3 DEF NodeAsked
<1>5. CASE ~ById /\ db.nodes[n] # db'.nodes[n]
  <2>1. ks \in changes'
    BY StillNamed
  <2>2. Rekeyed(row, PgNode(n)') => NamedById(n)'
    BY <1>1, <1>5
  <2>3. CASE row = PgNode(n)' \/ NodeNamed(ks, n, row, PgNode(n)')
    BY <2>1, <2>2, <2>3 DEF NodeExcused
  <2>4. CASE PgNode(n)' = Tombstone /\ row # Tombstone /\ PgNode(n) # Tombstone /\ row # PgNode(n)
    <3>1. ~Rekeyed(row, PgNode(n)')
      BY <2>4 DEF Rekeyed
    <3>2. CASE Rekeyed(row, PgNode(n))
      <4>1. NamedById(n)'
        BY <1>5, <3>2, NamedByIdKept DEF NodeAsked
      <4>2. \E cs \in changes' : NodeNamed(cs, n, row, PgNode(n)')
        BY <4>1 DEF NamedById, NodeNamed
      <4> QED BY <3>1, <4>2 DEF NodeExcused
    <3>3. CASE ~Rekeyed(row, PgNode(n))
      <4>1. k <= 7 /\ row.oid \in r.cs.oids
        BY <1>5, <2>4, <3>3 DEF NodeAsked, Rekeyed, Filtered
      <4>2. row.oid \in new.cs.oids
        BY <1>2, <4>1 DEF Alike
      <4> QED BY <2>4, <3>1, <4>1, <4>2 DEF NodeAsked
    <3> QED BY <3>2, <3>3
  <2> QED BY <1>5, <2>3, <2>4, NodeChangeNamed
<1> QED BY <1>3, <1>4, <1>5

\* A commit that creates or deletes an edge names it, or an end of it is gone.
LEMMA EdgeChangeExcused ==
    ASSUME TablesInv, \A cs \in changes : KeysInv(cs), NEW ks, NEW races, Committed(ks, races),
           NEW e \in EdgeIds, NEW row, EdgeBorn(e, row), db.edges[e] # db'.edges[e]
    PROVE  EdgeExcused(e, row)'
<1>1. EdgeMove(e, db.edges[e], db'.edges[e], db'.nodes, ks) /\ carried' = carried \cup Carriers(db'.nodes)
  BY DEF Committed, Legal
<1>2. ks \in changes' /\ NoOID \notin ks.oids /\ \A t \in ks.oidTriples : t.start \in ks.oids /\ t.end \in ks.oids
  BY StillNamed DEF Committed, Legal, KeysFit
<1>3. CASE db.edges[e] = Unborn /\ IsEdge(db'.edges[e])
  <2>1. PgEdge(e)' = db'.edges[e] /\ PgEdge(e)' # Tombstone
    BY <1>3, RowsAndMarks DEF PgEdge, Present
  <2>2. \/ ks.opaque \/ e \in ks.edges \/ db'.edges[e] \in ks.triples
        \/ /\ ks.landed
           /\ \E t \in ks.oidTriples : /\ t.kind = db'.edges[e].kind
                                       /\ db'.edges[e].start \in NodesUnder(db'.nodes, t.start)
                                       /\ db'.edges[e].end \in NodesUnder(db'.nodes, t.end)
    BY <1>1, <1>3 DEF EdgeMove
  <2>3. CASE ks.opaque \/ e \in ks.edges \/ db'.edges[e] \in ks.triples
    <3>1. EdgeNamed(ks, e, row, PgEdge(e))'
      BY <2>1, <2>3 DEF EdgeNamed
    <3> QED BY <1>2, <3>1 DEF EdgeExcused
  <2>4. CASE /\ ks.landed
             /\ \E t \in ks.oidTriples : /\ t.kind = db'.edges[e].kind
                                         /\ db'.edges[e].start \in NodesUnder(db'.nodes, t.start)
                                         /\ db'.edges[e].end \in NodesUnder(db'.nodes, t.end)
    <3>1. PICK t \in ks.oidTriples : /\ t.kind = db'.edges[e].kind
                                     /\ db'.edges[e].start \in NodesUnder(db'.nodes, t.start)
                                     /\ db'.edges[e].end \in NodesUnder(db'.nodes, t.end)
      BY <2>4
    <3>2. ASSUME NEW n, NEW o, o \in ks.oids, n \in NodesUnder(db'.nodes, o)  PROVE <<o, n>> \in carried'
      <4>1. n \in DOMAIN Rows(db'.nodes) /\ db'.nodes[n].oid = o /\ o # NoOID
        BY <1>2, <3>2 DEF NodesUnder
      <4>2. <<db'.nodes[n].oid, n>> \in Carriers(db'.nodes)
        BY <4>1 DEF Carriers
      <4> QED BY <1>1, <4>1, <4>2
    <3>3. Means(t, db.edges[e])'
      BY <1>2, <3>1, <3>2 DEF Means
    <3>4. EdgeNamed(ks, e, row, PgEdge(e))'
      BY <2>1, <2>4, <3>3 DEF EdgeNamed
    <3> QED BY <1>2, <3>4 DEF EdgeExcused
  <2> QED BY <2>2, <2>3, <2>4
<1>4. CASE db.edges[e] \notin {Unborn, Tombstone} /\ db'.edges[e] = Tombstone
  <2>1. PgEdge(e)' = Tombstone
    BY <1>4, RowsAndMarks DEF PgEdge, Present
  <2>2. CASE row = Tombstone
    BY <2>1, <2>2 DEF EdgeExcused
  <2>3. CASE row # Tombstone
    <3>1. row = db.edges[e]
      BY <1>4, <2>3 DEF EdgeBorn
    <3>2. row.start \in NodeIds /\ row.end \in NodeIds
      BY <1>4, <3>1 DEF TablesInv, Live
    <3>3. \/ ks.opaque \/ e \in ks.edges \/ row.kind \in UNION ks.edgeCriteria
          \/ db'.nodes[row.start] = Tombstone \/ db'.nodes[row.end] = Tombstone
      BY <1>1, <1>4, <3>1, RowsAndMarks DEF EdgeMove
    <3>4. CASE db'.nodes[row.start] = Tombstone \/ db'.nodes[row.end] = Tombstone
      BY <2>1, <3>2, <3>4 DEF EdgeExcused, Buried
    <3>5. CASE ks.opaque \/ e \in ks.edges \/ row.kind \in UNION ks.edgeCriteria
      <4>1. EdgeNamed(ks, e, row, PgEdge(e))'
        BY <2>1, <2>3, <3>5 DEF EdgeNamed
      <4> QED BY <1>2, <4>1 DEF EdgeExcused
    <3> QED BY <3>3, <3>4, <3>5
  <2> QED BY <2>2, <2>3
<1> QED BY <1>1, <1>3, <1>4 DEF EdgeMove

\* An edge row that is someone's to apply, or given up, stays so.
LEMMA EdgeExcusedKept ==
    ASSUME TablesInv, \A cs \in changes : KeysInv(cs), NEW ks, NEW races, Committed(ks, races),
           NEW e \in EdgeIds, NEW row, EdgeBorn(e, row), EdgeExcused(e, row)
    PROVE  EdgeExcused(e, row)'
<1>1. CASE db.edges[e] # db'.edges[e]
  BY <1>1, EdgeChangeExcused
<1>2. CASE db.edges[e] = db'.edges[e]
  <2>1. PgEdge(e)' = PgEdge(e) /\ skipped' = skipped
    BY <1>2 DEF PgEdge, Present, Committed
  <2>2. \A n : Buried(n) => Buried(n)'
    BY CommitTables DEF Buried
  <2>3. ASSUME NEW cs \in changes, EdgeNamed(cs, e, row, PgEdge(e))  PROVE EdgeExcused(e, row)'
    <3>1. PICK new \in changes' : Alike(new, cs)
      BY StillNamed
    <3>2. \A t, now : Means(t, now) => Means(t, now)'
      BY CommitTables DEF Means
    <3>3. EdgeNamed(new, e, row, PgEdge(e))'
      BY <2>1, <2>3, <3>1, <3>2 DEF EdgeNamed, Alike
    <3> QED BY <3>3 DEF EdgeExcused
  <2> QED BY <2>1, <2>2, <2>3 DEF EdgeExcused
<1> QED BY <1>1, <1>2

\* An edge the read-back will ask for stays so, or is the new write's.
LEMMA EdgeAskedKept ==
    ASSUME TablesInv, \A cs \in changes : KeysInv(cs), NEW ks, NEW races, Committed(ks, races),
           NEW e \in EdgeIds, NEW row, EdgeBorn(e, row), NEW r, NEW new, DOMAIN r = ReaderFields, SameReader(new, r),
           NEW k \in 1 .. 12, EdgeAsked(r, k, e, row)
    PROVE  EdgeExcused(e, row)' \/ EdgeAsked(new, k, e, row)'
<1>1. CASE db.edges[e] # db'.edges[e]
  BY <1>1, EdgeChangeExcused
<1>2. CASE db.edges[e] = db'.edges[e]
  <2>1. PgEdge(e)' = PgEdge(e)
    BY <1>2 DEF PgEdge, Present
  <2>2. /\ Alike(new.cs, r.cs) /\ new.oidToIDs = r.oidToIDs /\ new.fanouts = r.fanouts
        /\ new.unnameable = r.unnameable /\ new.overCap = r.overCap
    BY DEF SameReader, ReaderFields
  <2>3. Deferred(new) = Deferred(r)
    BY <2>2 DEF Deferred, Alike
  <2>4. \A t, now : Awaited(r, k, t, now) <=> Awaited(new, k, t, now)
    BY <2>2, <2>3 DEF Awaited
  <2>5. \A t, now : Means(t, now) => Means(t, now)'
    BY CommitTables DEF Means
  <2>6. EdgeAsked(new, k, e, row)'
    BY <2>1, <2>2, <2>4, <2>5 DEF EdgeAsked, Alike
  <2> QED BY <2>6
<1> QED BY <1>1, <1>2

\* What a change set names stays so, and an unraced one stays placed.
LEMMA KeysKept ==
    ASSUME TablesInv, NEW ks, NEW races, Committed(ks, races), NEW cs, NEW new, KeysInv(cs), Alike(new, cs),
           ~races => new = cs, races => new.raced = TRUE
    PROVE  KeysInv(new)'
<1>1. /\ DOMAIN new = DOMAIN NoKeys /\ new.nodes = cs.nodes /\ new.edges = cs.edges /\ new.oids = cs.oids
      /\ new.oidTriples = cs.oidTriples /\ new.triples = cs.triples
      /\ TripleKinds(new) = TripleKinds(cs) /\ (Landed(new) <=> Landed(cs))
  BY NamesAlike DEF Alike, KeysInv
<1>2. \A n \in new.nodes : n \in NodeIds /\ db'.nodes[n] # Unborn
  BY <1>1, CommitTables DEF KeysInv
<1>3. ASSUME NEW e \in new.edges  PROVE e \in EdgeIds /\ db'.edges[e] # Unborn
  BY <1>1, CommitTables, RowsAndMarks DEF KeysInv
<1>4. Landed(new) => TripleKinds(new) \subseteq registered'
  BY <1>1 DEF KeysInv, Committed
<1>5. Placed(new)'
  <2>1. CASE races
    BY <2>1 DEF Placed, Quiet
  <2>2. CASE ~races
    <3>1. ASSUME NEW n, NEW o, n \in NodesUnder(db.nodes, o)  PROVE n \in NodesUnder(db'.nodes, o)
      <4>1. n \in NodeIds /\ db.nodes[n] \notin {Unborn, Tombstone} /\ db.nodes[n].oid = o
        BY <3>1, UnderMeans DEF Live, TablesInv
      <4>2. NodeMove(n, db.nodes[n], db'.nodes[n], ks, races) /\ DOMAIN db'.nodes = NodeIds
        BY <4>1 DEF Committed, Legal
      <4>3. db'.nodes[n] \notin {Unborn, Tombstone} /\ db'.nodes[n].oid = o
        BY <2>2, <4>1, <4>2 DEF NodeMove
      <4> QED BY <4>1, <4>2, <4>3, UnderMeans DEF Live
    <3>2. Placed(cs)
      BY DEF KeysInv
    <3> QED BY <2>2, <3>1, <3>2 DEF Placed
  <2> QED BY <2>1, <2>2 DEF Committed, Legal
<1> QED BY <1>1, <1>2, <1>3, <1>4, <1>5 DEF KeysInv

\* What the new write records is fit to be applied.
LEMMA NewKeysFit ==
    ASSUME NEW ks, NEW races, Committed(ks, races)
    PROVE  KeysInv(ks)'
BY DEF Committed, Legal, KeysFit, KeysInv, Placed, Quiet

\* What was read stays right or someone's to apply.
LEMMA ReadKept ==
    ASSUME TablesInv, \A cs \in changes : KeysInv(cs), NEW ks, NEW races, Committed(ks, races),
           NEW r, NEW new, ReadInv(r), SameReader(new, r), ~races => new.cs = r.cs, races => new.cs.raced = TRUE
    PROVE  ReadInv(new)'
<1>1. DOMAIN r = ReaderFields /\ KeysInv(r.cs) /\ ~r.cs.opaque /\ Alike(new.cs, r.cs)
  BY DEF ReadInv, SameReader
<1>2. /\ DOMAIN new = ReaderFields /\ new.nodes = r.nodes /\ new.edges = r.edges /\ new.absentNodes = r.absentNodes
      /\ new.absentEdges = r.absentEdges /\ new.absentTriples = r.absentTriples /\ new.oidToIDs = r.oidToIDs
      /\ new.discovered = r.discovered /\ new.cs.oids = r.cs.oids /\ new.cs.opaque = r.cs.opaque
  BY <1>1 DEF SameReader, ReaderFields, Alike
<1>3. KeysInv(new.cs)'
  BY <1>1, KeysKept
<1>4. \A n \in DOMAIN r.nodes : NodeBorn(n, r.nodes[n])' /\ NodeExcused(n, r.nodes[n])'
  <2> SUFFICES ASSUME NEW n \in DOMAIN r.nodes  PROVE NodeBorn(n, r.nodes[n])' /\ NodeExcused(n, r.nodes[n])'
    OBVIOUS
  <2>1. NodeBorn(n, r.nodes[n]) /\ NodeExcused(n, r.nodes[n]) /\ n \in NodeIds
    BY DEF ReadInv, NodeBorn
  <2> QED BY <2>1, CommitBorn, NodeExcusedKept
<1>5. \A e \in DOMAIN r.edges : EdgeBorn(e, r.edges[e])' /\ EdgeExcused(e, r.edges[e])'
  <2> SUFFICES ASSUME NEW e \in DOMAIN r.edges  PROVE EdgeBorn(e, r.edges[e])' /\ EdgeExcused(e, r.edges[e])'
    OBVIOUS
  <2>1. EdgeBorn(e, r.edges[e]) /\ EdgeExcused(e, r.edges[e]) /\ e \in EdgeIds
    BY DEF ReadInv, EdgeBorn
  <2> QED BY <2>1, CommitBorn, EdgeExcusedKept
<1>6. \A n \in r.absentNodes : Buried(n)'
  BY CommitTables DEF ReadInv, Buried
<1>7. \A e \in r.absentEdges : e \in EdgeIds /\ db'.edges[e] = Tombstone
  BY CommitTables DEF ReadInv
<1>8. \A e \in EdgeIds : ViewEdge(e)' \in r.absentTriples => db'.edges[e] = Tombstone
  <2>1. \A e : ViewEdge(e)' = ViewEdge(e)
    BY DEF ViewEdge, Committed
  <2> QED BY <2>1, CommitTables DEF ReadInv
<1>9. \A o \in r.cs.oids : \A n \in r.oidToIDs[o] : n \in DOMAIN r.nodes /\ <<o, n>> \in carried'
  BY CommitTables DEF ReadInv
<1>10. \A n \in r.discovered : n \in NodeIds /\ db'.nodes[n] # Unborn
  BY CommitTables DEF ReadInv
<1>11. DOMAIN r.oidToIDs = r.cs.oids /\ (\A n \in DOMAIN r.nodes : r.nodes[n] # Tombstone)
       /\ (\A e \in DOMAIN r.edges : r.edges[e] # Tombstone) /\ (\A t \in r.absentTriples : IsEdge(t))
  BY DEF ReadInv
<1> QED BY <1>1, <1>2, <1>3, <1>4, <1>5, <1>6, <1>7, <1>8, <1>9, <1>10, <1>11 DEF ReadInv

\* A race can only make a read-back give up.
LEMMA RaceKept ==
    ASSUME NEW r, NEW new, NEW k \in 1 .. 12, DOMAIN r = ReaderFields, SameReader(new, r), RaceInv(r, k),
           new.cs = r.cs \/ new.cs.raced = TRUE
    PROVE  RaceInv(new, k)
<1>1. /\ Alike(new.cs, r.cs) /\ new.oidToIDs = r.oidToIDs /\ new.fanouts = r.fanouts
      /\ new.unnameable = r.unnameable /\ new.overCap = r.overCap
  BY DEF SameReader, ReaderFields
<1>2. Deferred(new) = Deferred(r)
  BY <1>1 DEF Deferred, Alike
<1> QED BY <1>1, <1>2 DEF RaceInv, Quiet

\* What is left to read stays asked for or someone's.
LEMMA LeftKept ==
    ASSUME TablesInv, ViewInv, \A cs \in changes : KeysInv(cs), NEW ks, NEW races, Committed(ks, races),
           NEW r, NEW new, NEW k \in 1 .. 12, DOMAIN r = ReaderFields, SameReader(new, r), LeftInv(r, k)
    PROVE  LeftInv(new, k)'
<1>1. /\ Alike(new.cs, r.cs) /\ new.nodes = r.nodes /\ new.edges = r.edges /\ new.absentNodes = r.absentNodes
      /\ new.absentEdges = r.absentEdges /\ new.asked = r.asked /\ new.tripleKinds = r.tripleKinds
      /\ AnsweredNodes(new) = AnsweredNodes(r) /\ AnsweredEdges(new) = AnsweredEdges(r)
  BY DEF SameReader, ReaderFields, AnsweredNodes, AnsweredEdges
<1>2. snap' = snap
  BY DEF Committed
<1>3. ASSUME NEW n \in NodeIds \ AnsweredNodes(r)
      PROVE  NodeExcused(n, ViewNode(n))' \/ NodeAsked(new, k, n, ViewNode(n))'
  <2>1. PICK row : row = ViewNode(n)
    OBVIOUS
  <2>2. row = ViewNode(n)'
    BY <1>2, <2>1 DEF ViewNode
  <2>3. NodeBorn(n, row)
    BY <2>1, ViewBorn
  <2>4. NodeExcused(n, row) \/ NodeAsked(r, k, n, row)
    BY <1>3, <2>1 DEF LeftInv, LeftNodes
  <2>5. NodeExcused(n, row)' \/ NodeAsked(new, k, n, row)'
    BY <2>3, <2>4, NodeExcusedKept, NodeAskedKept
  <2> QED BY <2>2, <2>5
<1>4. ASSUME NEW e \in EdgeIds \ AnsweredEdges(r)
      PROVE  /\ EdgeExcused(e, ViewEdge(e))' \/ EdgeAsked(new, k, e, ViewEdge(e))'
             /\ PgEdge(e)' \in r.asked => EdgeExcused(e, ViewEdge(e))'
  <2>1. PICK row : row = ViewEdge(e)
    OBVIOUS
  <2>2. row = ViewEdge(e)'
    BY <1>2, <2>1 DEF ViewEdge
  <2>3. EdgeBorn(e, row)
    BY <2>1, ViewBorn
  <2>4. /\ EdgeExcused(e, row) \/ EdgeAsked(r, k, e, row)
        /\ PgEdge(e) \in r.asked => EdgeExcused(e, row)
    BY <1>4, <2>1 DEF LeftInv, LeftEdges
  <2>5. EdgeExcused(e, row)' \/ EdgeAsked(new, k, e, row)'
    BY <2>3, <2>4, EdgeExcusedKept, EdgeAskedKept
  <2>6. PgEdge(e)' \in r.asked => EdgeExcused(e, row)'
    <3>1. CASE db.edges[e] # db'.edges[e]
      BY <2>3, <3>1, EdgeChangeExcused
    <3>2. CASE db.edges[e] = db'.edges[e]
      <4>1. PgEdge(e)' = PgEdge(e)
        BY <3>2 DEF PgEdge, Present
      <4> QED BY <2>3, <2>4, <4>1, EdgeExcusedKept
    <3> QED BY <3>1, <3>2
  <2> QED BY <2>2, <2>5, <2>6
<1>5. KindsKnown(new, k)
  BY <1>1, NamesAlike DEF LeftInv, KindsKnown
<1> QED BY <1>1, <1>3, <1>4, <1>5 DEF LeftInv, LeftNodes, LeftEdges

\* What the view holds stays what was PostgreSQL's.
LEMMA ViewKept ==
    ASSUME TablesInv, ViewInv, NEW ks, NEW races, Committed(ks, races)
    PROVE  ViewInv'
<1>1. snap' = snap
  BY DEF Committed
<1>2. ASSUME NEW n  PROVE NodeBorn(n, ViewNode(n))'
  <2>1. PICK row : row = ViewNode(n)
    OBVIOUS
  <2>2. row = ViewNode(n)' /\ NodeBorn(n, row)
    BY <1>1, <2>1, ViewBorn DEF ViewNode
  <2>3. NodeBorn(n, row)'
    BY <2>2, CommitBorn
  <2> QED BY <2>2, <2>3
<1>3. ASSUME NEW e  PROVE EdgeBorn(e, ViewEdge(e))'
  <2>1. PICK row : row = ViewEdge(e)
    OBVIOUS
  <2>2. row = ViewEdge(e)' /\ EdgeBorn(e, row)
    BY <1>1, <2>1, ViewBorn DEF ViewEdge
  <2>3. EdgeBorn(e, row)'
    BY <2>2, CommitBorn
  <2> QED BY <2>2, <2>3
<1> QED BY <1>1, <1>2, <1>3 DEF ViewInv

\* A commit keeps the invariant.
LEMMA CommitKeeps ==
    ASSUME ReadBackInv, NEW ks, NEW races, Committed(ks, races)
    PROVE  ReadBackInv'
<1>1. /\ ReadBackConstants /\ TablesInv /\ ViewInv /\ (\A cs \in changes : KeysInv(cs)) /\ FallbackNeedsARace
      /\ races \in BOOLEAN /\ (~ObjectIdsMove => OneNodeEach(carried'))
      /\ snap' = snap /\ fallback' = fallback /\ skipped' = skipped
      /\ reader' = IF races /\ reader.pc # "none" THEN [reader EXCEPT !.cs = Race(@)] ELSE reader
  BY DEF ReadBackInv, Committed, Legal
<1>2. TablesInv' /\ ViewInv' /\ FallbackNeedsARace' /\ (Serving' <=> Serving)
  BY <1>1, CommitTables, ViewKept DEF FallbackNeedsARace, Serving
<1>3. \A new \in changes' : KeysInv(new)'
  <2>1. KeysInv(ks)'
    BY NewKeysFit
  <2>2. changes' = (IF races THEN {Race(cs) : cs \in changes} ELSE changes) \cup {ks}
    BY DEF Committed
  <2>3. CASE races
    <3>1. ASSUME NEW cs \in changes  PROVE KeysInv(Race(cs))'
      <4>1. KeysInv(cs) /\ Alike(Race(cs), cs) /\ Race(cs).raced = TRUE
        BY <1>1, RaceIsAlike DEF KeysInv
      <4> QED BY <1>1, <2>3, <4>1, KeysKept
    <3> QED BY <2>1, <2>2, <2>3, <3>1
  <2>4. CASE ~races
    <3>1. ASSUME NEW cs \in changes  PROVE KeysInv(cs)'
      <4>1. KeysInv(cs) /\ Alike(cs, cs)
        BY <1>1 DEF Alike
      <4> QED BY <1>1, <2>4, <4>1, KeysKept
    <3> QED BY <2>1, <2>2, <2>4, <3>1
  <2> QED BY <1>1, <2>3, <2>4
<1>4. CASE reader = NoReader
  <2>1. reader' = NoReader
    BY <1>1, <1>4 DEF NoReader
  <2>2. ASSUME ~ObjectIdsMove, Serving, NEW n \in NodeIds  PROVE NodeExcused(n, ViewNode(n))'
    <3>1. PICK row : row = ViewNode(n)
      OBVIOUS
    <3>2. row = ViewNode(n)' /\ NodeBorn(n, row) /\ NodeExcused(n, row)
      BY <1>1, <1>4, <2>2, <3>1, ViewBorn DEF ViewNode, ReadBackInv
    <3>3. NodeExcused(n, row)'
      BY <1>1, <3>2, NodeExcusedKept
    <3> QED BY <3>2, <3>3
  <2>3. ASSUME ~ObjectIdsMove, Serving, NEW e \in EdgeIds  PROVE EdgeExcused(e, ViewEdge(e))'
    <3>1. PICK row : row = ViewEdge(e)
      OBVIOUS
    <3>2. row = ViewEdge(e)' /\ EdgeBorn(e, row) /\ EdgeExcused(e, row)
      BY <1>1, <1>4, <2>3, <3>1, ViewBorn DEF ViewEdge, ReadBackInv
    <3>3. EdgeExcused(e, row)'
      BY <1>1, <3>2, EdgeExcusedKept
    <3> QED BY <3>2, <3>3
  <2> QED BY <1>1, <1>2, <1>3, <2>1, <2>2, <2>3 DEF ReadBackInv
<1>5. CASE reader # NoReader
  <2>1. PICK k \in 1 .. 12 : reader.pc = Stages[k] /\ ReaderInv(reader, k)
    BY <1>5 DEF ReadBackInv
  <2>2. PICK r : r = reader
    OBVIOUS
  <2>3. PICK new : new = reader'
    OBVIOUS
  <2>4. ReadInv(r) /\ RaceInv(r, k) /\ (~ObjectIdsMove => LeftInv(r, k)) /\ r.pc = Stages[k] /\ r.pc # "none"
    BY <2>1, <2>2, PlacesDiffer DEF ReaderInv
  <2>5. DOMAIN r = ReaderFields /\ KeysInv(r.cs)
    BY <2>4 DEF ReadInv
  <2>6. SameReader(new, r) /\ (~races => new.cs = r.cs) /\ (races => new.cs.raced = TRUE) /\ new.pc = r.pc
    <3>1. Alike(Race(r.cs), r.cs) /\ Race(r.cs).raced = TRUE /\ Alike(r.cs, r.cs)
      BY <2>5, RaceIsAlike DEF KeysInv, Alike
    <3>2. CASE races
      <4>1. new = [r EXCEPT !.cs = Race(@)]
        BY <1>1, <2>2, <2>3, <2>4, <3>2
      <4> QED BY <2>5, <3>1, <3>2, <4>1 DEF SameReader, ReaderFields
    <3>3. CASE ~races
      BY <1>1, <2>2, <2>3, <3>1, <3>3 DEF SameReader
    <3> QED BY <1>1, <3>2, <3>3
  <2>7. ReadInv(new)' /\ (~ObjectIdsMove => LeftInv(new, k)')
    BY <1>1, <2>4, <2>5, <2>6, ReadKept, LeftKept
  <2>8. RaceInv(new, k)
    BY <1>1, <2>4, <2>5, <2>6, RaceKept
  <2>9. ReaderInv(reader, k)' /\ reader'.pc = Stages[k]
    BY <2>3, <2>4, <2>6, <2>7, <2>8 DEF ReaderInv
  <2>10. Serving /\ reader' # NoReader
    BY <1>5, <2>3, <2>4, <2>6 DEF ReadBackInv, NoReader
  <2> QED BY <1>1, <1>2, <1>3, <2>9, <2>10 DEF ReadBackInv
<1> QED BY <1>4, <1>5
-----------------------------------------------------------------------------
(***************************************************************************)
(* Every writer commits, and records what it changed.                       *)
(***************************************************************************)

\* The id the database gives out next is one it never gave out.
LEMMA NextIdIsUnborn ==
    ASSUME NEW table, DOMAIN table \subseteq Nat, UnbornIn(table) # {}
    PROVE  NextId(table) \in DOMAIN table /\ table[NextId(table)] = Unborn
<1>1. UnbornIn(table) \in SUBSET Nat
  BY DEF UnbornIn
<1>2. NextId(table) \in UnbornIn(table)
  BY <1>1, LeastNatural DEF NextId
<1> QED BY <1>2 DEF UnbornIn

\* The rows a table keeps, and those it loses.
LEMMA WithoutRows ==
    ASSUME NEW table, NEW ids
    PROVE  /\ DOMAIN Without(table, ids) = DOMAIN table
           /\ \A x \in DOMAIN table : Without(table, ids)[x] = IF x \in ids THEN Tombstone ELSE table[x]
BY DEF Without

\* Node writes that delete nothing leave every edge its ends.
LEMMA NodesOnly ==
    ASSUME TablesInv, NEW nodes, NEW kinds, NEW ks, NEW races \in BOOLEAN, DOMAIN nodes = NodeIds,
           \A n \in NodeIds : NodeMove(n, db.nodes[n], nodes[n], ks, races) /\ (nodes[n] = Tombstone => db.nodes[n] = Tombstone),
           KeysFit(nodes, db.edges, kinds, ks)
    PROVE  Legal(nodes, db.edges, kinds, ks, races)
<1>1. \A n \in NodeIds : Live(db.nodes, n) => Live(nodes, n)
  BY DEF NodeMove, Live, TablesInv
<1>2. \A e \in EdgeIds : Live(db.edges, e) => Live(nodes, db.edges[e].start) /\ Live(nodes, db.edges[e].end)
  BY <1>1 DEF TablesInv, Live
<1>3. DOMAIN db.edges = EdgeIds /\ \A e \in EdgeIds : EdgeMove(e, db.edges[e], db.edges[e], nodes, ks)
  BY DEF TablesInv, EdgeMove
<1> QED BY <1>2, <1>3 DEF Legal

\* Edge writes.
LEMMA EdgesOnly ==
    ASSUME TablesInv, NEW edges, NEW kinds, NEW ks, DOMAIN edges = EdgeIds,
           \A e \in EdgeIds : EdgeMove(e, db.edges[e], edges[e], db.nodes, ks),
           \A e \in EdgeIds : Live(edges, e) => Live(db.nodes, edges[e].start) /\ Live(db.nodes, edges[e].end),
           KeysFit(db.nodes, edges, kinds, ks)
    PROVE  Legal(db.nodes, edges, kinds, ks, FALSE)
BY DEF TablesInv, NodeMove, Legal

LEMMA CreateNodeCommits ==
    ASSUME ReadBackConstants, TablesInv, CreateNode
    PROVE  \E ks, races : Committed(ks, races)
<1>1. PICK kinds \in NodeKindSets, oid \in ObjectIds \cup {NoOID} :
         /\ UnbornIn(db.nodes) # {}
         /\ LET n == NextId(db.nodes) IN
            \E keys \in {RecordNodeIDs({n}), IdentityKeys(oid)} :
               Commit([db.nodes EXCEPT ![n] = [kinds |-> kinds, oid |-> oid]], db.edges, kinds, keys, FALSE)
  BY DEF CreateNode
<1> DEFINE n == NextId(db.nodes)
           row == [kinds |-> kinds, oid |-> oid]
           nodes == [db.nodes EXCEPT ![n] = row]
<1>2. PICK keys \in {RecordNodeIDs({n}), IdentityKeys(oid)} : Commit(nodes, db.edges, kinds, keys, FALSE)
  BY <1>1
<1>3. n \in NodeIds /\ db.nodes[n] = Unborn
  BY <1>1, NextIdIsUnborn DEF ReadBackConstants, TablesInv
<1> HIDE DEF n
<1>4. IsNode(row) /\ row.oid = oid /\ row \notin {Unborn, Tombstone}
  BY RowsAndMarks DEF IsNode
<1>5. /\ DOMAIN nodes = NodeIds /\ nodes[n] = row /\ \A m \in NodeIds \ {n} : nodes[m] = db.nodes[m]
  BY <1>3 DEF TablesInv
<1>6. /\ DOMAIN keys = DOMAIN NoKeys /\ keys.raced = FALSE /\ keys.triples = {} /\ keys.landed = FALSE
      /\ keys.oidTriples = {} /\ keys.edges = {} /\ NoOID \notin keys.oids /\ keys.nodes \subseteq {n}
      /\ keys.opaque \/ n \in keys.nodes \/ oid \in keys.oids
  BY <1>2, NoKeysFields DEF RecordNodeIDs, IdentityKeys, RecordFallback, RecordNodeObjectID
<1> HIDE DEF row, nodes
<1>7. \A m \in NodeIds : NodeMove(m, db.nodes[m], nodes[m], keys, FALSE) /\ (nodes[m] = Tombstone => db.nodes[m] = Tombstone)
  BY <1>3, <1>4, <1>5, <1>6, RowsAndMarks DEF NodeMove
<1>8. KeysFit(nodes, db.edges, kinds, keys)
  BY <1>3, <1>4, <1>5, <1>6 DEF KeysFit, Landed
<1>9. Legal(nodes, db.edges, kinds, keys, FALSE)
  BY <1>5, <1>7, <1>8, NodesOnly
<1> QED BY <1>2, <1>9, CommitIs

LEMMA UpdateNodeCommits ==
    ASSUME ReadBackConstants, TablesInv, UpdateNode
    PROVE  \E ks, races : Committed(ks, races)
<1>1. PICK n \in DOMAIN Rows(db.nodes), kinds \in NodeKindSets, oid \in ObjectIds :
         Commit([db.nodes EXCEPT ![n] = [kinds |-> kinds, oid |-> oid]], db.edges, kinds,
                RecordNodeIDs({n}), db.nodes[n].oid # oid)
  BY DEF UpdateNode
<1> DEFINE row == [kinds |-> kinds, oid |-> oid]
           nodes == [db.nodes EXCEPT ![n] = row]
           keys == RecordNodeIDs({n})
           races == db.nodes[n].oid # oid
<1>2. Commit(nodes, db.edges, kinds, keys, races)
  BY <1>1
<1>3. n \in NodeIds /\ db.nodes[n] \notin {Unborn, Tombstone}
  BY <1>1, LiveRows DEF TablesInv, Live
<1>4. IsNode(row) /\ row.oid = oid /\ row \notin {Unborn, Tombstone}
  BY RowsAndMarks DEF IsNode
<1>5. /\ DOMAIN nodes = NodeIds /\ nodes[n] = row /\ \A m \in NodeIds \ {n} : nodes[m] = db.nodes[m]
  BY <1>3 DEF TablesInv
<1>6. /\ DOMAIN keys = DOMAIN NoKeys /\ keys.raced = FALSE /\ keys.triples = {} /\ keys.landed = FALSE
      /\ keys.oidTriples = {} /\ keys.edges = {} /\ keys.oids = {} /\ keys.nodes = {n}
  BY NoKeysFields DEF RecordNodeIDs
<1>7. races \in BOOLEAN /\ (row.oid # db.nodes[n].oid => races)
  BY <1>4
<1> HIDE DEF row, nodes, keys, races
<1>8. \A m \in NodeIds : NodeMove(m, db.nodes[m], nodes[m], keys, races) /\ (nodes[m] = Tombstone => db.nodes[m] = Tombstone)
  BY <1>3, <1>4, <1>5, <1>6, <1>7, RowsAndMarks DEF NodeMove
<1>9. KeysFit(nodes, db.edges, kinds, keys)
  BY <1>3, <1>4, <1>5, <1>6 DEF KeysFit, Landed
<1>10. Legal(nodes, db.edges, kinds, keys, races)
  BY <1>5, <1>7, <1>8, <1>9, NodesOnly
<1> QED BY <1>2, <1>10, CommitIs

\* A trigger deletes the edges of a deleted node.
LEMMA DeletedCommits ==
    ASSUME ReadBackConstants, TablesInv, NEW gone \in SUBSET DOMAIN Rows(db.nodes), NEW keys, Deleted(gone, keys),
           DOMAIN keys = DOMAIN NoKeys, keys.raced = FALSE, keys.triples = {}, keys.landed = FALSE,
           keys.oidTriples = {}, keys.edges = {}, keys.oids = {}, keys.nodes \subseteq gone,
           \A n \in gone : keys.opaque \/ n \in keys.nodes \/ \E c \in keys.nodeCriteria : Matches(c, db.nodes[n].kinds)
    PROVE  Committed(keys, TRUE)
<1> DEFINE nodes == Without(db.nodes, gone)
           lost == EdgesOf(db.edges, gone)
           edges == Without(db.edges, lost)
<1>1. Commit(nodes, edges, {}, keys, TRUE)
  BY DEF Deleted
<1>2. \A n \in gone : n \in NodeIds /\ db.nodes[n] \notin {Unborn, Tombstone}
  BY LiveRows DEF TablesInv, Live
<1>3. /\ DOMAIN nodes = NodeIds /\ DOMAIN edges = EdgeIds
      /\ \A n \in NodeIds : nodes[n] = IF n \in gone THEN Tombstone ELSE db.nodes[n]
      /\ \A e \in EdgeIds : edges[e] = IF e \in lost THEN Tombstone ELSE db.edges[e]
  BY WithoutRows DEF TablesInv
<1>4. \A e \in EdgeIds : e \in lost <=> Live(db.edges, e) /\ (db.edges[e].start \in gone \/ db.edges[e].end \in gone)
  BY LiveRows DEF EdgesOf
<1> HIDE DEF nodes, edges, lost
<1>5. \A n \in NodeIds : NodeMove(n, db.nodes[n], nodes[n], keys, TRUE)
  BY <1>2, <1>3, RowsAndMarks DEF NodeMove
<1>6. \A e \in EdgeIds : EdgeMove(e, db.edges[e], edges[e], nodes, keys)
  BY <1>2, <1>3, <1>4 DEF EdgeMove, Live
<1>7. ASSUME NEW e \in EdgeIds, Live(edges, e)  PROVE Live(nodes, edges[e].start) /\ Live(nodes, edges[e].end)
  <2>1. e \notin lost /\ edges[e] = db.edges[e]
    BY <1>3, <1>7 DEF Live
  <2>2. Live(db.edges, e)
    BY <1>3, <1>7, <2>1 DEF Live, TablesInv
  <2>3. db.edges[e].start \notin gone /\ db.edges[e].end \notin gone
    BY <1>4, <2>1, <2>2
  <2>4. Live(db.nodes, db.edges[e].start) /\ Live(db.nodes, db.edges[e].end)
    BY <2>2 DEF TablesInv
  <2> QED BY <1>3, <2>1, <2>3, <2>4 DEF Live, TablesInv
<1>8. KeysFit(nodes, edges, {}, keys)
  BY <1>2, <1>3, RowsAndMarks DEF KeysFit, Landed
<1>9. Legal(nodes, edges, {}, keys, TRUE)
  BY <1>3, <1>5, <1>6, <1>7, <1>8 DEF Legal
<1> QED BY <1>1, <1>9, CommitIs

LEMMA NodeDeletesCommit ==
    ASSUME ReadBackConstants, TablesInv, DeleteNodeByID \/ NodeQueryDelete \/ DeleteNodesByKinds
    PROVE  \E ks, races : Committed(ks, races)
<1>1. CASE DeleteNodeByID
  <2>1. PICK n \in DOMAIN Rows(db.nodes) : Deleted({n}, RecordNodeIDs({n}))
    BY <1>1 DEF DeleteNodeByID
  <2> DEFINE keys == RecordNodeIDs({n})
  <2>2. /\ DOMAIN keys = DOMAIN NoKeys /\ keys.raced = FALSE /\ keys.triples = {} /\ keys.landed = FALSE
        /\ keys.oidTriples = {} /\ keys.edges = {} /\ keys.oids = {} /\ keys.nodes = {n}
    BY NoKeysFields DEF RecordNodeIDs
  <2> HIDE DEF keys
  <2>3. Deleted({n}, keys) /\ {n} \in SUBSET DOMAIN Rows(db.nodes)
    BY <2>1 DEF keys
  <2>4. Committed(keys, TRUE)
    BY <2>2, <2>3, DeletedCommits
  <2> QED BY <2>4
<1>2. CASE NodeQueryDelete
  <2>1. PICK ids \in SUBSET DOMAIN Rows(db.nodes), recognised \in BOOLEAN : Deleted(ids, CriteriaKeys(ids, recognised))
    BY <1>2 DEF NodeQueryDelete
  <2> DEFINE keys == CriteriaKeys(ids, recognised)
  <2>2. /\ DOMAIN keys = DOMAIN NoKeys /\ keys.raced = FALSE /\ keys.triples = {} /\ keys.landed = FALSE
        /\ keys.oidTriples = {} /\ keys.edges = {} /\ keys.oids = {} /\ keys.nodes \subseteq ids
        /\ keys.opaque \/ keys.nodes = ids
    BY NoKeysFields DEF CriteriaKeys, RecordFallback, RecordNodeIDs
  <2> HIDE DEF keys
  <2>3. Deleted(ids, keys)
    BY <2>1 DEF keys
  <2>4. Committed(keys, TRUE)
    BY <2>2, <2>3, DeletedCommits
  <2> QED BY <2>4
<1>3. CASE DeleteNodesByKinds
  <2>1. PICK c \in NodeCriteria :
           Deleted({n \in DOMAIN Rows(db.nodes) : Matches(c, db.nodes[n].kinds)}, RecordDeleteNodesByKinds(c))
    BY <1>3 DEF DeleteNodesByKinds
  <2> DEFINE keys == RecordDeleteNodesByKinds(c)
             gone == {n \in DOMAIN Rows(db.nodes) : Matches(c, db.nodes[n].kinds)}
  <2>2. /\ DOMAIN keys = DOMAIN NoKeys /\ keys.raced = FALSE /\ keys.triples = {} /\ keys.landed = FALSE
        /\ keys.oidTriples = {} /\ keys.edges = {} /\ keys.oids = {} /\ keys.nodes = {} /\ keys.nodeCriteria = {c}
    BY NoKeysFields DEF RecordDeleteNodesByKinds
  <2>3. gone \in SUBSET DOMAIN Rows(db.nodes) /\ \A n \in gone : Matches(c, db.nodes[n].kinds)
    OBVIOUS
  <2> HIDE DEF keys, gone
  <2>4. Deleted(gone, keys)
    BY <2>1 DEF keys, gone
  <2>5. \A n \in gone : \E d \in keys.nodeCriteria : Matches(d, db.nodes[n].kinds)
    BY <2>2, <2>3
  <2>6. Committed(keys, TRUE)
    BY <2>2, <2>3, <2>4, <2>5, DeletedCommits
  <2> QED BY <2>6
<1> QED BY <1>1, <1>2, <1>3

\* Deletes of edges: by id, by kinds, or by a query nothing can be named of.
LEMMA EdgeDeletesCommit ==
    ASSUME ReadBackConstants, TablesInv, NEW lost \in SUBSET DOMAIN Rows(db.edges), NEW keys,
           Commit(db.nodes, Without(db.edges, lost), {}, keys, FALSE),
           DOMAIN keys = DOMAIN NoKeys, keys.raced = FALSE, keys.triples = {}, keys.landed = FALSE,
           keys.oidTriples = {}, keys.nodes = {}, keys.oids = {}, keys.edges \subseteq lost,
           \A e \in lost : keys.opaque \/ e \in keys.edges \/ db.edges[e].kind \in UNION keys.edgeCriteria
    PROVE  Committed(keys, FALSE)
<1> DEFINE edges == Without(db.edges, lost)
<1>1. \A e \in lost : e \in EdgeIds /\ db.edges[e] \notin {Unborn, Tombstone}
  BY LiveRows DEF TablesInv, Live
<1>2. /\ DOMAIN edges = EdgeIds
      /\ \A e \in EdgeIds : edges[e] = IF e \in lost THEN Tombstone ELSE db.edges[e]
  BY WithoutRows DEF TablesInv
<1> HIDE DEF edges
<1>3. \A e \in EdgeIds : EdgeMove(e, db.edges[e], edges[e], db.nodes, keys)
  BY <1>1, <1>2 DEF EdgeMove
<1>4. \A e \in EdgeIds : Live(edges, e) => Live(db.nodes, edges[e].start) /\ Live(db.nodes, edges[e].end)
  BY <1>2 DEF Live, TablesInv
<1>5. KeysFit(db.nodes, edges, {}, keys)
  BY <1>1, <1>2, RowsAndMarks DEF KeysFit, Landed
<1>6. Legal(db.nodes, edges, {}, keys, FALSE)
  BY <1>2, <1>3, <1>4, <1>5, EdgesOnly
<1>7. Commit(db.nodes, edges, {}, keys, FALSE)
  BY DEF edges
<1> QED BY <1>6, <1>7, CommitIs

LEMMA RelationshipDeletesCommit ==
    ASSUME ReadBackConstants, TablesInv, DeleteRelationship \/ OpaqueQuery \/ DeleteRelationshipsByKinds
    PROVE  \E ks, races : Committed(ks, races)
<1>1. CASE DeleteRelationship
  <2>1. PICK e \in DOMAIN Rows(db.edges) : Commit(db.nodes, Without(db.edges, {e}), {}, RecordEdgeID(e), FALSE)
    BY <1>1 DEF DeleteRelationship
  <2> DEFINE keys == RecordEdgeID(e)
  <2>2. /\ DOMAIN keys = DOMAIN NoKeys /\ keys.raced = FALSE /\ keys.triples = {} /\ keys.landed = FALSE
        /\ keys.oidTriples = {} /\ keys.nodes = {} /\ keys.oids = {} /\ keys.edges = {e}
    BY NoKeysFields DEF RecordEdgeID
  <2> HIDE DEF keys
  <2>3. Commit(db.nodes, Without(db.edges, {e}), {}, keys, FALSE) /\ {e} \in SUBSET DOMAIN Rows(db.edges)
    BY <2>1 DEF keys
  <2>4. Committed(keys, FALSE)
    BY <2>2, <2>3, EdgeDeletesCommit
  <2> QED BY <2>4
<1>2. CASE OpaqueQuery
  <2>1. PICK e \in DOMAIN Rows(db.edges) : Commit(db.nodes, Without(db.edges, {e}), {}, RecordFallback, FALSE)
    BY <1>2 DEF OpaqueQuery
  <2> DEFINE keys == RecordFallback
  <2>2. /\ DOMAIN keys = DOMAIN NoKeys /\ keys.raced = FALSE /\ keys.triples = {} /\ keys.landed = FALSE
        /\ keys.oidTriples = {} /\ keys.nodes = {} /\ keys.oids = {} /\ keys.edges = {} /\ keys.opaque
    BY NoKeysFields DEF RecordFallback
  <2> HIDE DEF keys
  <2>3. Commit(db.nodes, Without(db.edges, {e}), {}, keys, FALSE) /\ {e} \in SUBSET DOMAIN Rows(db.edges)
    BY <2>1 DEF keys
  <2>4. Committed(keys, FALSE)
    BY <2>2, <2>3, EdgeDeletesCommit
  <2> QED BY <2>4
<1>3. CASE DeleteRelationshipsByKinds
  <2>1. PICK a \in EdgeCriteria, b \in EdgeCriteria, failed \in BOOLEAN :
           LET ks == RelationshipQueryKinds(a, b) IN
           Commit(db.nodes, Without(db.edges, {e \in DOMAIN Rows(db.edges) : db.edges[e].kind \in ks}), {},
                  IF failed THEN RecordFallback ELSE RecordDeleteRelationshipsByKinds(ks), FALSE)
    BY <1>3 DEF DeleteRelationshipsByKinds
  <2> DEFINE ks == RelationshipQueryKinds(a, b)
             lost == {e \in DOMAIN Rows(db.edges) : db.edges[e].kind \in ks}
             keys == IF failed THEN RecordFallback ELSE RecordDeleteRelationshipsByKinds(ks)
  <2>2. lost \in SUBSET DOMAIN Rows(db.edges) /\ \A e \in lost : db.edges[e].kind \in ks
    OBVIOUS
  <2> HIDE DEF ks
  <2>3. /\ DOMAIN keys = DOMAIN NoKeys /\ keys.raced = FALSE /\ keys.triples = {} /\ keys.landed = FALSE
        /\ keys.oidTriples = {} /\ keys.nodes = {} /\ keys.oids = {} /\ keys.edges = {}
        /\ keys.opaque \/ ks = {} \/ keys.edgeCriteria = {ks}
    BY NoKeysFields DEF RecordFallback, RecordDeleteRelationshipsByKinds
  <2> HIDE DEF keys, lost
  <2>4. Commit(db.nodes, Without(db.edges, lost), {}, keys, FALSE)
    BY <2>1 DEF keys, lost, ks
  <2>5. \A e \in lost : keys.opaque \/ db.edges[e].kind \in UNION keys.edgeCriteria
    BY <2>2, <2>3
  <2>6. Committed(keys, FALSE)
    BY <2>2, <2>3, <2>4, <2>5, EdgeDeletesCommit
  <2> QED BY <2>6
<1> QED BY <1>1, <1>2, <1>3

LEMMA CreateRelationshipCommits ==
    ASSUME ReadBackConstants, TablesInv, CreateRelationshipByIDs
    PROVE  \E ks, races : Committed(ks, races)
<1>1. PICK s \in DOMAIN Rows(db.nodes), t \in DOMAIN Rows(db.nodes), k \in EdgeKinds :
         LET row == [start |-> s, end |-> t, kind |-> k] IN
         /\ UnbornIn(db.edges) # {}
         /\ LET e == NextId(db.edges) IN
            \E keys \in {RecordEdgeID(e), RecordEdgeTriple(row)} :
               Commit(db.nodes, [db.edges EXCEPT ![e] = row], {k}, keys, FALSE)
  BY DEF CreateRelationshipByIDs
<1> DEFINE row == [start |-> s, end |-> t, kind |-> k]
           e == NextId(db.edges)
           edges == [db.edges EXCEPT ![e] = row]
<1>2. PICK keys \in {RecordEdgeID(e), RecordEdgeTriple(row)} : Commit(db.nodes, edges, {k}, keys, FALSE)
  BY <1>1
<1>3. e \in EdgeIds /\ db.edges[e] = Unborn
  BY <1>1, NextIdIsUnborn DEF ReadBackConstants, TablesInv
<1> HIDE DEF e
<1>4. IsEdge(row) /\ row.start = s /\ row.end = t /\ row.kind = k /\ row \notin {Unborn, Tombstone}
  BY RowsAndMarks DEF IsEdge
<1>5. DOMAIN edges = EdgeIds /\ edges[e] = row /\ \A x \in EdgeIds \ {e} : edges[x] = db.edges[x]
  BY <1>3 DEF TablesInv
<1> HIDE DEF row, edges
<1>6. /\ DOMAIN keys = DOMAIN NoKeys /\ keys.raced = FALSE /\ keys.triples \subseteq {row} /\ keys.landed = FALSE
      /\ keys.oidTriples = {} /\ keys.nodes = {} /\ keys.oids = {} /\ keys.edges \subseteq {e}
      /\ e \in keys.edges \/ row \in keys.triples
  BY <1>2, NoKeysFields DEF RecordEdgeID, RecordEdgeTriple
<1>7. \A x \in EdgeIds : EdgeMove(x, db.edges[x], edges[x], db.nodes, keys)
  BY <1>3, <1>4, <1>5, <1>6 DEF EdgeMove
<1>8. \A x \in EdgeIds : Live(edges, x) => Live(db.nodes, edges[x].start) /\ Live(db.nodes, edges[x].end)
  BY <1>1, <1>4, <1>5, LiveRows DEF Live, TablesInv
<1>9. KeysFit(db.nodes, edges, {k}, keys)
  <2>1. TripleKinds(keys) \subseteq {k}
    BY <1>4, <1>6 DEF TripleKinds
  <2> QED BY <1>3, <1>4, <1>5, <1>6, <2>1 DEF KeysFit
<1>10. Legal(db.nodes, edges, {k}, keys, FALSE)
  BY <1>5, <1>7, <1>8, <1>9, EdgesOnly
<1> QED BY <1>2, <1>10, CommitIs

\* What an upsert by object id does to a row: nothing, or it leaves it with that object id.
Grown(old, new, oids) ==
    old # new => /\ old # Tombstone /\ IsNode(new) /\ new.oid \in oids
                 /\ old # Unborn => old.oid = new.oid
LEMMA UpsertedIs ==
    ASSUME ReadBackConstants, NEW nodes, DOMAIN nodes = NodeIds, NEW oid, NEW kinds,
           \A n \in NodeIds : nodes[n] \in {Unborn, Tombstone} \/ IsNode(nodes[n]),
           NodesUnder(nodes, oid) # {} \/ UnbornIn(nodes) # {}
    PROVE  LET new == Upserted(nodes, oid, kinds)
           IN  /\ DOMAIN new = NodeIds /\ NodesUnder(new, oid) # {}
               /\ \A n \in NodeIds : /\ new[n] \in {Unborn, Tombstone} \/ IsNode(new[n])
                                     /\ Grown(nodes[n], new[n], {oid})
               /\ \A n \in UnbornIn(nodes) :
                     NodesUnder(nodes, oid) # {} \/ n # NextId(nodes) => n \in UnbornIn(new)
<1> DEFINE new == Upserted(nodes, oid, kinds)
           under == NodesUnder(nodes, oid)
<1>1. CASE under = {}
  <2> DEFINE m == NextId(nodes)
             row == [kinds |-> kinds, oid |-> oid]
  <2>1. m \in NodeIds /\ nodes[m] = Unborn
    BY <1>1, NextIdIsUnborn DEF ReadBackConstants
  <2>2. new = [nodes EXCEPT ![m] = row]
    BY <1>1 DEF Upserted
  <2> HIDE DEF m
  <2>3. IsNode(row) /\ row.oid = oid /\ row \notin {Unborn, Tombstone}
    BY RowsAndMarks DEF IsNode
  <2> HIDE DEF row, new
  <2>4. DOMAIN new = NodeIds /\ new[m] = row /\ \A n \in NodeIds \ {m} : new[n] = nodes[n]
    BY <2>1, <2>2
  <2>5. m \in NodesUnder(new, oid)
    BY <2>1, <2>3, <2>4, UnderMeans DEF Live
  <2>6. \A n \in NodeIds : (new[n] \in {Unborn, Tombstone} \/ IsNode(new[n])) /\ Grown(nodes[n], new[n], {oid})
    BY <2>1, <2>3, <2>4, RowsAndMarks DEF Grown
  <2>7. \A n \in UnbornIn(nodes) : n # m => n \in UnbornIn(new)
    BY <2>4 DEF UnbornIn
  <2> QED BY <1>1, <2>4, <2>5, <2>6, <2>7 DEF new, m
<1>2. CASE under # {}
  <2>1. \A n : n \in under <=> n \in NodeIds /\ nodes[n] \notin {Unborn, Tombstone} /\ nodes[n].oid = oid
    BY UnderMeans DEF Live
  <2>2. /\ DOMAIN new = NodeIds
        /\ \A n \in NodeIds : new[n] = IF n \in under THEN [nodes[n] EXCEPT !.kinds = @ \cup kinds] ELSE nodes[n]
    BY <1>2 DEF Upserted
  <2>3. ASSUME NEW n \in under  PROVE IsNode(new[n]) /\ new[n].oid = oid
    <3>1. IsNode(nodes[n]) /\ nodes[n].oid = oid /\ n \in NodeIds
      BY <2>1
    <3>2. new[n] = [nodes[n] EXCEPT !.kinds = nodes[n].kinds \cup kinds]
      BY <2>2, <3>1
    <3> QED BY <3>1, <3>2, KindsReplaced
  <2> HIDE DEF new, under
  <2>4. PICK m : m \in under
    BY <1>2
  <2>5. m \in NodesUnder(new, oid)
    BY <2>1, <2>2, <2>3, <2>4, UnderMeans, RowsAndMarks DEF Live
  <2>6. \A n \in NodeIds : (new[n] \in {Unborn, Tombstone} \/ IsNode(new[n])) /\ Grown(nodes[n], new[n], {oid})
    BY <2>1, <2>2, <2>3 DEF Grown
  <2>7. \A n \in UnbornIn(nodes) : n \in UnbornIn(new)
    BY <2>1, <2>2 DEF UnbornIn
  <2> QED BY <2>2, <2>5, <2>6, <2>7 DEF new
<1> QED BY <1>1, <1>2

\* Upserts keep the nodes that carry an object id.
LEMMA GrownUnder ==
    ASSUME NEW nodes, NEW new, NEW oids, DOMAIN nodes = NodeIds, DOMAIN new = NodeIds,
           \A n \in NodeIds : Grown(nodes[n], new[n], oids), NEW o
    PROVE  NodesUnder(nodes, o) \subseteq NodesUnder(new, o)
BY UnderMeans, RowsAndMarks DEF Grown, Live

\* Both ends of a relationship upsert.
LEMMA BothUpserted ==
    ASSUME ReadBackConstants, TablesInv, NEW so \in ObjectIds, NEW to \in ObjectIds, NEW kinds,
           Cardinality(UnbornIn(db.nodes)) >= Cardinality({o \in {so, to} : NodesUnder(db.nodes, o) = {}})
    PROVE  LET new == Upserted(Upserted(db.nodes, so, kinds), to, kinds)
           IN  /\ DOMAIN new = NodeIds /\ NodesUnder(new, so) # {} /\ NodesUnder(new, to) # {}
               /\ \A n \in NodeIds : Grown(db.nodes[n], new[n], {so, to})
<1> DEFINE missing == {o \in {so, to} : NodesUnder(db.nodes, o) = {}}
           mid == Upserted(db.nodes, so, kinds)
           new == Upserted(mid, to, kinds)
           unborn == UnbornIn(db.nodes)
<1>1. /\ DOMAIN db.nodes = NodeIds
      /\ \A n \in NodeIds : db.nodes[n] \in {Unborn, Tombstone} \/ IsNode(db.nodes[n])
  BY DEF TablesInv
<1>2. IsFiniteSet(unborn) /\ Cardinality(unborn) \in Nat
  <2>1. unborn \in SUBSET NodeIds /\ IsFiniteSet(NodeIds)
    BY <1>1 DEF UnbornIn, ReadBackConstants
  <2>2. IsFiniteSet(unborn)
    BY <2>1, FS_Subset
  <2> QED BY <2>2, FS_CardinalityType
<1>3. IsFiniteSet({so, to}) /\ (so # to => Cardinality({so, to}) = 2)
  <2>1. IsFiniteSet({so}) /\ Cardinality({so}) = 1 /\ {so, to} = {so} \cup {to}
    BY FS_Singleton
  <2> HIDE DEF unborn
  <2>2. IsFiniteSet({so} \cup {to}) /\ (so # to => Cardinality({so} \cup {to}) = 1 + 1)
    BY <2>1, FS_AddElement
  <2> QED BY <2>1, <2>2
<1>4. IsFiniteSet(missing) /\ Cardinality(missing) \in Nat
  <2>1. missing \in SUBSET {so, to}
    OBVIOUS
  <2>2. IsFiniteSet(missing)
    BY <1>3, <2>1, FS_Subset
  <2> QED BY <2>2, FS_CardinalityType
<1>5. missing # {} => unborn # {}
  <2>1. Cardinality(unborn) >= Cardinality(missing)
    OBVIOUS
  <2> HIDE DEF missing, unborn
  <2>2. missing # {} => Cardinality(missing) # 0
    BY <1>4, FS_EmptySet
  <2>3. missing # {} => Cardinality(unborn) # 0
    BY <1>2, <1>4, <2>1, <2>2
  <2> QED BY <2>3, FS_EmptySet
<1>6. NodesUnder(db.nodes, so) # {} \/ unborn # {}
  BY <1>5
<1>7. /\ DOMAIN mid = NodeIds /\ NodesUnder(mid, so) # {}
      /\ \A n \in NodeIds : (mid[n] \in {Unborn, Tombstone} \/ IsNode(mid[n])) /\ Grown(db.nodes[n], mid[n], {so})
      /\ \A n \in unborn : NodesUnder(db.nodes, so) # {} \/ n # NextId(db.nodes) => n \in UnbornIn(mid)
  BY <1>1, <1>6, UpsertedIs
<1>8. NodesUnder(mid, to) # {} \/ UnbornIn(mid) # {}
  <2> SUFFICES ASSUME NodesUnder(mid, to) = {}  PROVE UnbornIn(mid) # {}
    OBVIOUS
  <2>1. so # to /\ NodesUnder(db.nodes, to) = {}
    <3> HIDE DEF mid
    <3> QED BY <1>1, <1>7, GrownUnder
  <2>2. unborn # {}
    BY <1>5, <2>1
  <2>3. CASE NodesUnder(db.nodes, so) # {}
    <3> HIDE DEF mid, unborn
    <3> QED BY <1>7, <2>2, <2>3
  <2>4. CASE NodesUnder(db.nodes, so) = {}
    <3>1. missing = {so, to}
      BY <2>1, <2>4
    <3>2. Cardinality(unborn) >= 2
      BY <1>3, <2>1, <3>1
    <3> DEFINE m == NextId(db.nodes)
    <3> HIDE DEF missing, unborn, mid, m
    <3>3. /\ IsFiniteSet(unborn \ {m})
          /\ Cardinality(unborn \ {m}) = IF m \in unborn THEN Cardinality(unborn) - 1 ELSE Cardinality(unborn)
      BY <1>2, FS_RemoveElement
    <3>4. unborn \ {m} # {}
      <4>1. Cardinality(unborn \ {m}) # 0
        BY <1>2, <3>2, <3>3
      <4> QED BY <4>1, FS_EmptySet
    <3>5. \A n \in unborn : n # m => n \in UnbornIn(mid)
      BY <1>7 DEF m
    <3> QED BY <3>4, <3>5
  <2> QED BY <2>3, <2>4
<1> HIDE DEF mid
<1>9. /\ DOMAIN new = NodeIds /\ NodesUnder(new, to) # {}
      /\ \A n \in NodeIds : Grown(mid[n], new[n], {to})
  BY <1>7, <1>8, UpsertedIs
<1> HIDE DEF new
<1>10. NodesUnder(new, so) # {}
  BY <1>7, <1>9, GrownUnder
<1>11. \A n \in NodeIds : Grown(db.nodes[n], new[n], {so, to})
  BY <1>7, <1>9, RowsAndMarks DEF Grown
<1> QED BY <1>9, <1>10, <1>11 DEF new, mid

\* An upsert is a commit as the object ids it records name it.
LEMMA GrownMoves ==
    ASSUME TablesInv, NEW nodes, NEW ks, NEW oids, oids \subseteq ks.oids, DOMAIN nodes = NodeIds,
           \A n \in NodeIds : Grown(db.nodes[n], nodes[n], oids)
    PROVE  /\ \A n \in NodeIds : /\ NodeMove(n, db.nodes[n], nodes[n], ks, FALSE)
                                 /\ nodes[n] = Tombstone => db.nodes[n] = Tombstone
           /\ \A n \in NodeIds : Live(db.nodes, n) => Live(nodes, n)
BY RowsAndMarks DEF Grown, NodeMove, TablesInv, Live

LEMMA UpdateNodeByCommits ==
    ASSUME ReadBackConstants, TablesInv, UpdateNodeBy
    PROVE  \E ks, races : Committed(ks, races)
<1>1. PICK oid \in ObjectIds, kinds \in NodeKindSets :
         /\ NodesUnder(db.nodes, oid) # {} \/ UnbornIn(db.nodes) # {}
         /\ Commit(Upserted(db.nodes, oid, kinds), db.edges, kinds, IdentityKeys(oid), FALSE)
  BY DEF UpdateNodeBy
<1> DEFINE nodes == Upserted(db.nodes, oid, kinds)
           keys == IdentityKeys(oid)
<1>2. DOMAIN nodes = NodeIds /\ \A n \in NodeIds : Grown(db.nodes[n], nodes[n], {oid})
  <2>1. DOMAIN db.nodes = NodeIds /\ \A n \in NodeIds : db.nodes[n] \in {Unborn, Tombstone} \/ IsNode(db.nodes[n])
    BY DEF TablesInv
  <2> QED BY <1>1, <2>1, UpsertedIs
<1>3. /\ DOMAIN keys = DOMAIN NoKeys /\ keys.raced = FALSE /\ keys.triples = {} /\ keys.landed = FALSE
      /\ keys.oidTriples = {} /\ keys.nodes = {} /\ keys.edges = {} /\ keys.oids = {oid} /\ oid # NoOID
  BY NoKeysFields DEF IdentityKeys, RecordNodeObjectID, ReadBackConstants
<1>4. Commit(nodes, db.edges, kinds, keys, FALSE)
  BY <1>1
<1> HIDE DEF nodes, keys
<1>5. KeysFit(nodes, db.edges, kinds, keys)
  BY <1>3 DEF KeysFit, Landed
<1>6. Legal(nodes, db.edges, kinds, keys, FALSE)
  BY <1>2, <1>3, <1>5, GrownMoves, NodesOnly
<1> QED BY <1>4, <1>6, CommitIs

LEMMA UpdateRelationshipByCommits ==
    ASSUME ReadBackConstants, TablesInv, UpdateRelationshipBy
    PROVE  \E ks, races : Committed(ks, races)
<1>1. PICK so \in ObjectIds, to \in ObjectIds, k \in EdgeKinds, kinds \in NodeKindSets, failed \in BOOLEAN,
           flushed \in {"edge", "nodes", "nothing"} :
         /\ ~failed => flushed = "edge"
         /\ UnbornIn(db.edges) # {}
         /\ Cardinality(UnbornIn(db.nodes)) >= Cardinality({o \in {so, to} : NodesUnder(db.nodes, o) = {}})
         /\ LET nodes == IF flushed = "nothing" THEN db.nodes ELSE Upserted(Upserted(db.nodes, so, kinds), to, kinds)
                keys == [UpsertKeys(so, to, k, failed) EXCEPT !.landed = flushed = "edge"]
            IN  IF flushed # "edge" THEN Commit(nodes, db.edges, IF flushed = "nothing" THEN {} ELSE kinds, keys, FALSE)
                ELSE \E s \in NodesUnder(nodes, so), t \in NodesUnder(nodes, to) :
                       LET row == [start |-> s, end |-> t, kind |-> k]
                       IN  Commit(nodes, IF row \in Range(Rows(db.edges)) THEN db.edges
                                         ELSE [db.edges EXCEPT ![NextId(db.edges)] = row], kinds \cup {k}, keys, FALSE)
  BY DEF UpdateRelationshipBy
<1> DEFINE nodes == IF flushed = "nothing" THEN db.nodes ELSE Upserted(Upserted(db.nodes, so, kinds), to, kinds)
           keys == [UpsertKeys(so, to, k, failed) EXCEPT !.landed = flushed = "edge"]
           triple == [start |-> so, end |-> to, kind |-> k]
<1>2. /\ DOMAIN nodes = NodeIds /\ \A n \in NodeIds : Grown(db.nodes[n], nodes[n], {so, to})
      /\ flushed = "edge" => NodesUnder(nodes, so) # {} /\ NodesUnder(nodes, to) # {}
  <2>1. CASE flushed = "nothing"
    BY <2>1 DEF Grown, TablesInv
  <2>2. CASE flushed # "nothing"
    BY <1>1, <2>2, BothUpserted
  <2> QED BY <2>1, <2>2
<1>3. /\ DOMAIN keys = DOMAIN NoKeys /\ keys.raced = FALSE /\ keys.triples = {} /\ keys.landed = (flushed = "edge")
      /\ keys.incomplete = failed /\ keys.oidTriples = {triple} /\ keys.nodes = {} /\ keys.edges = {}
      /\ keys.oids = {so, to} /\ NoOID \notin {so, to}
  BY NoKeysFields DEF UpsertKeys, ReadBackConstants
<1>4. triple.start = so /\ triple.end = to /\ triple.kind = k
  OBVIOUS
<1>5. \/ flushed # "edge" /\ Commit(nodes, db.edges, IF flushed = "nothing" THEN {} ELSE kinds, keys, FALSE)
      \/ flushed = "edge" /\ \E s \in NodesUnder(nodes, so), t \in NodesUnder(nodes, to) :
            LET row == [start |-> s, end |-> t, kind |-> k]
            IN  Commit(nodes, IF row \in Range(Rows(db.edges)) THEN db.edges
                              ELSE [db.edges EXCEPT ![NextId(db.edges)] = row], kinds \cup {k}, keys, FALSE)
  BY <1>1
<1> HIDE DEF nodes, keys, triple
<1>6. ASSUME NEW edges, NEW all, flushed = "edge" => k \in all  PROVE KeysFit(nodes, edges, all, keys)
  <2>1. TripleKinds(keys) = {k}
    BY <1>3, <1>4 DEF TripleKinds
  <2>2. Landed(keys) => flushed = "edge"
    BY <1>3 DEF Landed
  <2>3. ~keys.incomplete => NodesUnder(nodes, so) # {} /\ NodesUnder(nodes, to) # {}
    BY <1>1, <1>2, <1>3
  <2> QED BY <1>3, <1>4, <1>6, <2>1, <2>2, <2>3 DEF KeysFit
<1>7. /\ \A n \in NodeIds : /\ NodeMove(n, db.nodes[n], nodes[n], keys, FALSE)
                            /\ nodes[n] = Tombstone => db.nodes[n] = Tombstone
      /\ \A n \in NodeIds : Live(db.nodes, n) => Live(nodes, n)
  BY <1>2, <1>3, GrownMoves
<1>8. CASE flushed # "edge"
  <2> DEFINE all == IF flushed = "nothing" THEN {} ELSE kinds
  <2>1. Commit(nodes, db.edges, all, keys, FALSE)
    BY <1>5, <1>8
  <2> HIDE DEF all
  <2>2. KeysFit(nodes, db.edges, all, keys)
    BY <1>6, <1>8
  <2>3. Legal(nodes, db.edges, all, keys, FALSE)
    BY <1>2, <1>7, <2>2, NodesOnly
  <2> QED BY <2>1, <2>3, CommitIs
<1>9. CASE flushed = "edge"
  <2>1. PICK s \in NodesUnder(nodes, so), t \in NodesUnder(nodes, to) :
           LET row == [start |-> s, end |-> t, kind |-> k]
           IN  Commit(nodes, IF row \in Range(Rows(db.edges)) THEN db.edges
                             ELSE [db.edges EXCEPT ![NextId(db.edges)] = row], kinds \cup {k}, keys, FALSE)
    BY <1>5, <1>9
  <2> DEFINE row == [start |-> s, end |-> t, kind |-> k]
             all == kinds \cup {k}
  <2>2. KeysFit(nodes, db.edges, all, keys)
    BY <1>6
  <2>3. CASE row \in Range(Rows(db.edges))
    <3>1. Commit(nodes, db.edges, all, keys, FALSE)
      BY <2>1, <2>3
    <3> HIDE DEF all
    <3>2. Legal(nodes, db.edges, all, keys, FALSE)
      BY <1>2, <1>7, <2>2, NodesOnly
    <3> QED BY <3>1, <3>2, CommitIs
  <2>4. CASE row \notin Range(Rows(db.edges))
    <3> DEFINE e == NextId(db.edges)
               edges == [db.edges EXCEPT ![e] = row]
    <3>1. Commit(nodes, edges, all, keys, FALSE) /\ k \in all
      BY <2>1, <2>4
    <3>2. e \in EdgeIds /\ db.edges[e] = Unborn
      BY <1>1, NextIdIsUnborn DEF ReadBackConstants, TablesInv
    <3>3. IsEdge(row) /\ row.start = s /\ row.end = t /\ row.kind = k /\ row \notin {Unborn, Tombstone}
      BY RowsAndMarks DEF IsEdge
    <3> HIDE DEF e
    <3>4. DOMAIN edges = EdgeIds /\ edges[e] = row /\ \A x \in EdgeIds \ {e} : edges[x] = db.edges[x]
      BY <3>2 DEF TablesInv
    <3> HIDE DEF row, edges, all
    <3>5. \A x \in EdgeIds : EdgeMove(x, db.edges[x], edges[x], nodes, keys)
      BY <1>3, <1>4, <1>9, <2>1, <3>2, <3>3, <3>4 DEF EdgeMove
    <3>6. ASSUME NEW x \in EdgeIds, Live(edges, x)  PROVE Live(nodes, edges[x].start) /\ Live(nodes, edges[x].end)
      <4>1. CASE x = e
        BY <2>1, <3>3, <3>4, <4>1, UnderMeans
      <4>2. CASE x # e
        <5>1. Live(db.edges, x) /\ edges[x] = db.edges[x]
          BY <3>4, <3>6, <4>2 DEF Live, TablesInv
        <5> QED BY <1>7, <5>1 DEF TablesInv, Live
      <4> QED BY <4>1, <4>2
    <3>7. KeysFit(nodes, edges, all, keys)
      BY <1>6, <3>1
    <3>8. Legal(nodes, edges, all, keys, FALSE)
      BY <1>2, <1>7, <3>4, <3>5, <3>6, <3>7 DEF Legal
    <3> QED BY <3>1, <3>8, CommitIs
  <2> QED BY <2>3, <2>4
<1> QED BY <1>8, <1>9

\* Every writer's call is such a commit, and keeps the invariant.
LEMMA WriterKeeps ==
    ASSUME ReadBackInv, Writer
    PROVE  ReadBackInv'
<1>1. ReadBackConstants /\ TablesInv
  BY DEF ReadBackInv
<1>2. \E ks, races : Committed(ks, races)
  BY <1>1, CreateNodeCommits, UpdateNodeCommits, UpdateNodeByCommits, NodeDeletesCommit, RelationshipDeletesCommit,
     CreateRelationshipCommits, UpdateRelationshipByCommits DEF Writer
<1> QED BY <1>2, CommitKeeps
-----------------------------------------------------------------------------
(***************************************************************************)
(* What the view holds, as the queries look it up.                          *)
(***************************************************************************)
LEMMA OverRows ==
    ASSUME NEW new, NEW old
    PROVE  /\ DOMAIN Over(new, old) = DOMAIN new \cup DOMAIN old
           /\ \A x \in DOMAIN new : Over(new, old)[x] = new[x]
           /\ \A x \in DOMAIN old \ DOMAIN new : Over(new, old)[x] = old[x]
BY DEF Over

LEMMA FoundRows ==
    ASSUME NEW table, NEW ids
    PROVE  /\ \A x : x \in DOMAIN Found(table, ids) <=> x \in ids /\ Live(table, x)
           /\ \A x \in DOMAIN Found(table, ids) : Found(table, ids)[x] = table[x]
BY LiveRows DEF Found, Restrict

\* A node is alive when the view has a row for it, and the indexes find it by that row.
LEMMA ViewNodes ==
    ASSUME ViewInv, NEW n
    PROVE  LET row == ViewNode(n)
           IN  /\ Alive(snap, n) <=> row # Tombstone
               /\ row # Tombstone => NodeRow(snap, n) = row
               /\ \A o : n \in NodesByObjectID(snap, o) <=> row # Tombstone /\ row.oid = o
               /\ \A k : n \in NodesOfKind(snap, k) <=> row # Tombstone /\ k \in row.kinds
<1>1. ViewSound(snap) /\ BaseSound(snap.base)
  BY DEF ViewInv, ViewSound
<1>2. CASE n \in DOMAIN snap.delta.nodes
  <2>1. ViewNode(n) = snap.delta.nodes[n]
    BY <1>2 DEF ViewNode, RowIn
  <2>2. Alive(snap, n) <=> ViewNode(n) # Tombstone
    BY <1>1, <1>2, <2>1, AliveMeans
  <2>3. NodeRow(snap, n) = ViewNode(n)
    BY <1>2, <2>1 DEF NodeRow, Overridden, Delta
  <2>4. \A o : n \in NodesByObjectID(snap, o) <=> ViewNode(n) # Tombstone /\ ViewNode(n).oid = o
    BY <1>2, <2>1 DEF NodesByObjectID, SegObjectIndex, Upserts, Overridden, Delta
  <2>5. \A k : n \in NodesOfKind(snap, k) <=> ViewNode(n) # Tombstone /\ k \in ViewNode(n).kinds
    BY <1>2, <2>1 DEF NodesOfKind, Upserts, Overridden, Delta
  <2> QED BY <2>2, <2>3, <2>4, <2>5
<1>3. CASE n \notin DOMAIN snap.delta.nodes /\ n \in DOMAIN snap.base.nodes
  <2>1. ViewNode(n) = snap.base.nodes[n] /\ ViewNode(n) # Tombstone
    BY <1>1, <1>3 DEF ViewNode, RowIn, BaseSound
  <2>2. Alive(snap, n)
    BY <1>1, <1>3, AliveMeans
  <2>3. NodeRow(snap, n) = ViewNode(n)
    BY <1>3, <2>1 DEF NodeRow, Overridden, Delta
  <2>4. \A o : n \in NodesByObjectID(snap, o) <=> ViewNode(n).oid = o
    BY <1>3, <2>1 DEF NodesByObjectID, SegObjectIndex, BaseObjectIndex, Upserts, Overridden, Delta
  <2>5. \A k : n \in NodesOfKind(snap, k) <=> k \in ViewNode(n).kinds
    BY <1>3, <2>1 DEF NodesOfKind, BaseNodesOfKind, Upserts, Overridden, Delta
  <2> QED BY <2>1, <2>2, <2>3, <2>4, <2>5
<1>4. CASE n \notin DOMAIN snap.delta.nodes /\ n \notin DOMAIN snap.base.nodes
  <2>1. ViewNode(n) = Tombstone
    BY <1>4 DEF ViewNode, RowIn
  <2>2. ~Alive(snap, n)
    BY <1>1, <1>4, AliveMeans
  <2>3. \A o : n \notin NodesByObjectID(snap, o)
    BY <1>4 DEF NodesByObjectID, SegObjectIndex, BaseObjectIndex, Upserts, Delta
  <2>4. \A k : n \notin NodesOfKind(snap, k)
    BY <1>4 DEF NodesOfKind, BaseNodesOfKind, Upserts, Delta
  <2> QED BY <2>1, <2>2, <2>3, <2>4
<1> QED BY <1>2, <1>3, <1>4

\* Every node a filter matches is a candidate, and every candidate is a node of the view.
LEMMA CriteriaFind ==
    ASSUME ViewInv, NEW c, NEW n
    PROVE  n \in CriteriaNodes(c) <=> ViewNode(n) # Tombstone /\ Matches(c, ViewNode(n).kinds)
<1> DEFINE base == IF c.include = {} THEN AliveNodes(snap) ELSE UNION {NodesOfKind(snap, k) : k \in c.include}
<1>1. /\ Alive(snap, n) <=> ViewNode(n) # Tombstone
      /\ ViewNode(n) # Tombstone => NodeRow(snap, n) = ViewNode(n)
      /\ \A k : n \in NodesOfKind(snap, k) <=> ViewNode(n) # Tombstone /\ k \in ViewNode(n).kinds
  BY ViewNodes
<1>2. n \in AliveNodes(snap) <=> Alive(snap, n)
  BY AliveMeans DEF ViewInv
<1>3. n \in base <=> ViewNode(n) # Tombstone /\ (c.include = {} \/ ViewNode(n).kinds \cap c.include # {})
  BY <1>1, <1>2
<1>4. n \in CriteriaNodes(c) <=> n \in base /\ Alive(snap, n) /\ KindIDsOf(snap, n) \cap c.exclude = {}
  BY DEF CriteriaNodes
<1>5. ViewNode(n) # Tombstone => KindIDsOf(snap, n) = ViewNode(n).kinds
  BY <1>1 DEF KindIDsOf
<1> HIDE DEF base
<1> QED BY <1>1, <1>3, <1>4, <1>5 DEF Matches

LEMMA Candidates ==
    ASSUME ViewInv, NEW r, NEW n
    PROVE  n \in CandidateNodes(r) <=>
             /\ ViewNode(n) # Tombstone
             /\ \/ ViewNode(n).oid \in r.cs.oids /\ r.oidToIDs[ViewNode(n).oid] = {}
                \/ \E c \in r.cs.nodeCriteria : Matches(c, ViewNode(n).kinds)
<1>1. \A o : n \in NodesByObjectID(snap, o) <=> ViewNode(n) # Tombstone /\ ViewNode(n).oid = o
  BY ViewNodes
<1>2. \A c : n \in CriteriaNodes(c) <=> ViewNode(n) # Tombstone /\ Matches(c, ViewNode(n).kinds)
  BY CriteriaFind
<1>3. n \in CandidateNodes(r) <=> \/ \E o \in {o \in r.cs.oids : r.oidToIDs[o] = {}} : n \in NodesByObjectID(snap, o)
                                  \/ \E c \in r.cs.nodeCriteria : n \in CriteriaNodes(c)
  BY DEF CandidateNodes
<1> QED BY <1>1, <1>2, <1>3

LEMMA EdgeCandidates ==
    ASSUME ViewInv, NEW r, NEW e
    PROVE  e \in CandidateEdges(r) <=> ViewEdge(e) # Tombstone /\ ViewEdge(e).kind \in UNION r.cs.edgeCriteria
<1> DEFINE delta == snap.delta.edges
           base == snap.base.edges
           fresh == Restrict(delta, Upserts(delta))
           rest == Restrict(base, DOMAIN base \ DOMAIN delta)
           stored == Over(fresh, rest)
<1>1. /\ DOMAIN fresh = Upserts(delta) /\ \A x \in Upserts(delta) : fresh[x] = delta[x]
      /\ DOMAIN rest = DOMAIN base \ DOMAIN delta /\ \A x \in DOMAIN base \ DOMAIN delta : rest[x] = base[x]
  BY DEF Restrict
<1>2. e \in CandidateEdges(r) <=> e \in DOMAIN stored /\ stored[e].kind \in UNION r.cs.edgeCriteria
  BY DEF CandidateEdges, Delta
<1>3. \A x \in DOMAIN base : base[x] # Tombstone
  BY DEF ViewInv, ViewSound, BaseSound
<1> HIDE DEF fresh, rest
<1>4. /\ DOMAIN stored = DOMAIN fresh \cup DOMAIN rest /\ \A x \in DOMAIN fresh : stored[x] = fresh[x]
      /\ \A x \in DOMAIN rest \ DOMAIN fresh : stored[x] = rest[x]
  BY OverRows
<1> HIDE DEF stored
<1>5. e \in DOMAIN stored <=> ViewEdge(e) # Tombstone
  BY <1>1, <1>3, <1>4 DEF ViewEdge, RowIn, Upserts
<1>6. e \in DOMAIN stored => stored[e] = ViewEdge(e)
  BY <1>1, <1>4 DEF ViewEdge, RowIn, Upserts
<1> QED BY <1>2, <1>5, <1>6
-----------------------------------------------------------------------------
(***************************************************************************)
(* A query: what it reads is PostgreSQL's, and what it was asked for is     *)
(* answered after it.                                                      *)
(***************************************************************************)
MoreRead(r, r1) ==
    /\ DOMAIN r1 = ReaderFields /\ r1.cs = r.cs
    /\ DOMAIN r.nodes \subseteq DOMAIN r1.nodes
    /\ \A n \in DOMAIN r1.nodes : \/ n \in DOMAIN r.nodes /\ r1.nodes[n] = r.nodes[n]
                                  \/ Live(db.nodes, n) /\ r1.nodes[n] = db.nodes[n]
    /\ r.absentNodes \subseteq r1.absentNodes /\ \A n \in r1.absentNodes \ r.absentNodes : Buried(n)
    /\ DOMAIN r.edges \subseteq DOMAIN r1.edges
    /\ \A e \in DOMAIN r1.edges : \/ e \in DOMAIN r.edges /\ r1.edges[e] = r.edges[e]
                                  \/ Live(db.edges, e) /\ r1.edges[e] = db.edges[e]
    /\ r.absentEdges \subseteq r1.absentEdges
    /\ \A e \in r1.absentEdges \ r.absentEdges : e \in EdgeIds /\ db.edges[e] = Tombstone
    /\ \A t \in r1.absentTriples \ r.absentTriples : IsEdge(t)
    /\ \A e \in EdgeIds : ViewEdge(e) \in r1.absentTriples \ r.absentTriples => db.edges[e] = Tombstone
    /\ DOMAIN r1.oidToIDs = r.cs.oids
    /\ \A o \in r.cs.oids : r1.oidToIDs[o] = r.oidToIDs[o]
                            \/ \A n \in r1.oidToIDs[o] : n \in DOMAIN r1.nodes /\ <<o, n>> \in carried
    /\ \A n \in r1.discovered : n \in NodeIds /\ db.nodes[n] # Unborn

\* A row just read is right.
LEMMA FreshNode ==
    ASSUME TablesInv, NEW n, Live(db.nodes, n)
    PROVE  LET row == db.nodes[n]
           IN  /\ n \in NodeIds /\ row # Tombstone /\ NodeBorn(n, row) /\ NodeExcused(n, row) /\ PgNode(n) = row
               /\ row.oid # NoOID => <<row.oid, n>> \in carried
<1>1. n \in NodeIds /\ db.nodes[n] \notin {Unborn, Tombstone} /\ IsNode(db.nodes[n]) /\ PgNode(n) = db.nodes[n]
  BY DEF Live, TablesInv, PgNode, Present
<1>2. db.nodes[n].oid # NoOID => <<db.nodes[n].oid, n>> \in carried
  BY LiveRows DEF TablesInv, Carriers
<1> QED BY <1>1, <1>2 DEF NodeBorn, NodeExcused, Rekeyed

LEMMA FreshEdge ==
    ASSUME TablesInv, NEW e, Live(db.edges, e)
    PROVE  LET row == db.edges[e]
           IN  e \in EdgeIds /\ row # Tombstone /\ IsEdge(row) /\ EdgeBorn(e, row) /\ EdgeExcused(e, row) /\ PgEdge(e) = row
BY DEF Live, TablesInv, PgEdge, Present, EdgeBorn, EdgeExcused

LEMMA ReadMore ==
    ASSUME TablesInv, NEW r, NEW r1, ReadInv(r), MoreRead(r, r1)
    PROVE  ReadInv(r1)
<1>1. \A n \in DOMAIN r1.nodes : r1.nodes[n] # Tombstone /\ NodeBorn(n, r1.nodes[n]) /\ NodeExcused(n, r1.nodes[n])
  BY FreshNode DEF ReadInv, MoreRead
<1>2. \A e \in DOMAIN r1.edges : r1.edges[e] # Tombstone /\ EdgeBorn(e, r1.edges[e]) /\ EdgeExcused(e, r1.edges[e])
  BY FreshEdge DEF ReadInv, MoreRead
<1>3. \A n \in r1.absentNodes : Buried(n)
  BY DEF ReadInv, MoreRead
<1>4. \A e \in r1.absentEdges : e \in EdgeIds /\ db.edges[e] = Tombstone
  BY DEF ReadInv, MoreRead
<1>5. /\ \A t \in r1.absentTriples : IsEdge(t)
      /\ \A e \in EdgeIds : ViewEdge(e) \in r1.absentTriples => db.edges[e] = Tombstone
  BY DEF ReadInv, MoreRead
<1>6. \A o \in r1.cs.oids : \A n \in r1.oidToIDs[o] : n \in DOMAIN r1.nodes /\ <<o, n>> \in carried
  BY DEF ReadInv, MoreRead
<1>7. DOMAIN r1 = ReaderFields /\ KeysInv(r1.cs) /\ ~r1.cs.opaque /\ DOMAIN r1.oidToIDs = r1.cs.oids
      /\ \A n \in r1.discovered : n \in NodeIds /\ db.nodes[n] # Unborn
  BY DEF ReadInv, MoreRead
<1> QED BY <1>1, <1>2, <1>3, <1>4, <1>5, <1>6, <1>7 DEF ReadInv

\* readBackNodesByID and readBackEdgesByID.
LEMMA NodesReadById ==
    ASSUME TablesInv, NEW r, ReadInv(r), NEW ids, \A n \in ids : n \in NodeIds /\ db.nodes[n] # Unborn
    PROVE  LET r1 == ReadNodes(r, ids)
           IN  /\ MoreRead(r, r1) /\ AnsweredNodes(r1) = AnsweredNodes(r) \cup ids
               /\ \A f \in ReaderFields \ {"nodes", "absentNodes"} : r1[f] = r[f]
<1> DEFINE r1 == ReadNodes(r, ids)
           found == Found(db.nodes, ids)
           gone == ids \ DOMAIN Rows(db.nodes)
<1>1. DOMAIN r = ReaderFields
  BY DEF ReadInv
<1>2. /\ DOMAIN r1 = ReaderFields /\ r1.nodes = Over(found, r.nodes) /\ r1.absentNodes = r.absentNodes \cup gone
      /\ \A f \in ReaderFields \ {"nodes", "absentNodes"} : r1[f] = r[f]
  BY <1>1 DEF ReadNodes, ReaderFields
<1>3. /\ r1.cs = r.cs /\ r1.edges = r.edges /\ r1.absentEdges = r.absentEdges /\ r1.absentTriples = r.absentTriples
      /\ r1.oidToIDs = r.oidToIDs /\ r1.discovered = r.discovered
  BY <1>2 DEF ReaderFields
<1>4. \A n : n \in gone <=> n \in ids /\ ~Live(db.nodes, n)
  BY LiveRows
<1>5. \A n \in gone : Buried(n)
  BY <1>4 DEF Buried, Live, TablesInv
<1> HIDE DEF r1, found, gone
<1>6. /\ \A n : n \in DOMAIN found <=> n \in ids /\ Live(db.nodes, n)
      /\ \A n \in DOMAIN found : found[n] = db.nodes[n]
  BY FoundRows DEF found
<1>7. /\ DOMAIN r1.nodes = DOMAIN found \cup DOMAIN r.nodes
      /\ \A n \in DOMAIN found : r1.nodes[n] = db.nodes[n]
      /\ \A n \in DOMAIN r.nodes \ DOMAIN found : r1.nodes[n] = r.nodes[n]
  <2>1. r1.nodes = Over(found, r.nodes)
    BY <1>2
  <2> QED BY <1>6, <2>1 DEF Over
<1>8. MoreRead(r, r1)
  BY <1>2, <1>3, <1>5, <1>6, <1>7 DEF MoreRead, ReadInv
<1>9. AnsweredNodes(r1) = AnsweredNodes(r) \cup ids
  BY <1>2, <1>4, <1>6, <1>7 DEF AnsweredNodes
<1> QED BY <1>2, <1>8, <1>9 DEF r1

LEMMA EdgesReadById ==
    ASSUME TablesInv, NEW r, ReadInv(r), NEW ids, \A e \in ids : e \in EdgeIds /\ db.edges[e] # Unborn
    PROVE  LET r1 == ReadEdges(r, ids)
           IN  /\ MoreRead(r, r1) /\ AnsweredEdges(r1) = AnsweredEdges(r) \cup ids
               /\ \A f \in ReaderFields \ {"edges", "absentEdges"} : r1[f] = r[f]
<1> DEFINE r1 == ReadEdges(r, ids)
           found == Found(db.edges, ids)
           gone == ids \ DOMAIN Rows(db.edges)
<1>1. DOMAIN r = ReaderFields
  BY DEF ReadInv
<1>2. /\ DOMAIN r1 = ReaderFields /\ r1.edges = Over(found, r.edges) /\ r1.absentEdges = r.absentEdges \cup gone
      /\ \A f \in ReaderFields \ {"edges", "absentEdges"} : r1[f] = r[f]
  BY <1>1 DEF ReadEdges, ReaderFields
<1>3. /\ r1.cs = r.cs /\ r1.nodes = r.nodes /\ r1.absentNodes = r.absentNodes /\ r1.absentTriples = r.absentTriples
      /\ r1.oidToIDs = r.oidToIDs /\ r1.discovered = r.discovered
  BY <1>2 DEF ReaderFields
<1>4. \A e : e \in gone <=> e \in ids /\ ~Live(db.edges, e)
  BY LiveRows
<1>5. \A e \in gone : e \in EdgeIds /\ db.edges[e] = Tombstone
  BY <1>4 DEF Live, TablesInv
<1> HIDE DEF r1, found, gone
<1>6. /\ \A e : e \in DOMAIN found <=> e \in ids /\ Live(db.edges, e)
      /\ \A e \in DOMAIN found : found[e] = db.edges[e]
  BY FoundRows DEF found
<1>7. /\ DOMAIN r1.edges = DOMAIN found \cup DOMAIN r.edges
      /\ \A e \in DOMAIN found : r1.edges[e] = db.edges[e]
      /\ \A e \in DOMAIN r.edges \ DOMAIN found : r1.edges[e] = r.edges[e]
  <2>1. r1.edges = Over(found, r.edges)
    BY <1>2
  <2> QED BY <1>6, <2>1 DEF Over
<1>8. MoreRead(r, r1)
  BY <1>2, <1>3, <1>5, <1>6, <1>7 DEF MoreRead, ReadInv
<1>9. AnsweredEdges(r1) = AnsweredEdges(r) \cup ids
  BY <1>2, <1>4, <1>6, <1>7 DEF AnsweredEdges
<1> QED BY <1>2, <1>8, <1>9 DEF r1

\* readBackEdgesByTriple: the edges of the triples asked for, and the triples that have none.
LEMMA TriplesRead ==
    ASSUME TablesInv, ViewInv, NEW r, ReadInv(r), NEW keys, \A t \in keys : IsEdge(t)
    PROVE  LET r1 == ReadTriples(r, keys)
           IN  /\ MoreRead(r, r1)
               /\ \A e : Live(db.edges, e) /\ db.edges[e] \in keys /\ db.edges[e].kind \in r.tripleKinds => e \in DOMAIN r1.edges
               /\ \A e \in EdgeIds \ AnsweredEdges(r1) : PgEdge(e) \in r1.asked => PgEdge(e) \in r.asked
               /\ \A f \in ReaderFields \ {"edges", "asked", "absentTriples"} : r1[f] = r[f]
<1> DEFINE r1 == ReadTriples(r, keys)
           known == {t \in keys : t.kind \in r.tripleKinds}
           found == {e \in DOMAIN Rows(db.edges) : db.edges[e] \in known}
           lacking == known \ {db.edges[e] : e \in found}
           rows == Found(db.edges, found)
<1>1. DOMAIN r = ReaderFields
  BY DEF ReadInv
<1>2. /\ DOMAIN r1 = ReaderFields /\ r1.edges = Over(rows, r.edges) /\ r1.asked = r.asked \cup known
      /\ r1.absentTriples = r.absentTriples \cup lacking
      /\ \A f \in ReaderFields \ {"edges", "asked", "absentTriples"} : r1[f] = r[f]
  BY <1>1 DEF ReadTriples, ReaderFields
<1>3. /\ r1.cs = r.cs /\ r1.nodes = r.nodes /\ r1.absentNodes = r.absentNodes /\ r1.absentEdges = r.absentEdges
      /\ r1.oidToIDs = r.oidToIDs /\ r1.discovered = r.discovered
  BY <1>2 DEF ReaderFields
<1>4. \A e : e \in found <=> Live(db.edges, e) /\ db.edges[e] \in known
  BY LiveRows
<1>5. \A t \in lacking : IsEdge(t) /\ \A e : Live(db.edges, e) => db.edges[e] # t
  BY <1>4
<1>6. \A t \in known : IsEdge(t) /\ t # Tombstone /\ t # Unborn
  BY RowsAndMarks
<1>7. \A e : Live(db.edges, e) /\ db.edges[e] \in keys /\ db.edges[e].kind \in r.tripleKinds => e \in found
  BY <1>4
<1> HIDE DEF r1, known, found, lacking, rows
<1>8. /\ \A e : e \in DOMAIN rows <=> e \in found
      /\ \A e \in DOMAIN rows : Live(db.edges, e) /\ rows[e] = db.edges[e]
  BY <1>4, FoundRows DEF rows
<1>9. /\ DOMAIN r1.edges = DOMAIN rows \cup DOMAIN r.edges
      /\ \A e \in DOMAIN rows : r1.edges[e] = db.edges[e]
      /\ \A e \in DOMAIN r.edges \ DOMAIN rows : r1.edges[e] = r.edges[e]
  <2>1. r1.edges = Over(rows, r.edges)
    BY <1>2
  <2> QED BY <1>8, <2>1 DEF Over
<1>10. ASSUME NEW e \in EdgeIds, ViewEdge(e) \in r1.absentTriples \ r.absentTriples  PROVE db.edges[e] = Tombstone
  <2>1. ViewEdge(e) \in lacking
    BY <1>2, <1>10
  <2>2. ViewEdge(e) # Tombstone /\ ViewEdge(e) # Unborn
    BY <1>5, <2>1, RowsAndMarks
  <2>3. db.edges[e] \in {ViewEdge(e), Tombstone}
    BY <2>2, ViewBorn DEF EdgeBorn
  <2>4. db.edges[e] = ViewEdge(e) => Live(db.edges, e)
    BY <2>2 DEF Live, TablesInv
  <2> QED BY <1>5, <2>1, <2>3, <2>4
<1>11. MoreRead(r, r1)
  BY <1>2, <1>3, <1>5, <1>8, <1>9, <1>10 DEF MoreRead, ReadInv
<1>12. ASSUME NEW e \in EdgeIds, e \notin AnsweredEdges(r1), PgEdge(e) \in r1.asked  PROVE PgEdge(e) \in r.asked
  <2>1. SUFFICES ASSUME PgEdge(e) \in known  PROVE FALSE
    BY <1>2, <1>12
  <2>2. PgEdge(e) = db.edges[e] /\ Live(db.edges, e)
    BY <1>6, <2>1, RowsAndMarks DEF PgEdge, Present, Live, TablesInv
  <2>3. e \in found
    BY <1>4, <2>1, <2>2
  <2> QED BY <1>8, <1>9, <1>12, <2>3 DEF AnsweredEdges
<1> QED BY <1>2, <1>7, <1>8, <1>9, <1>11, <1>12 DEF r1

\* What one place asks for is answered after it; the rest is still asked for.
LEMMA NodesStay ==
    ASSUME NEW r, NEW r1, NEW k \in 1 .. 11, LeftNodes(r, k), r1.cs = r.cs, AnsweredNodes(r) \subseteq AnsweredNodes(r1),
           \A n \in NodeIds \ AnsweredNodes(r1) :
              /\ k = 1 => n \notin r.cs.nodes
              /\ k = 2 => ~(PgNode(n) # Tombstone /\ PgNode(n).oid \in r.cs.oids)
              /\ k = 7 => /\ ~(ViewNode(n) # Tombstone /\ ViewNode(n).oid \in r.cs.oids)
                          /\ ~Filtered(r.cs, ViewNode(n), PgNode(n))
    PROVE  LeftNodes(r1, k + 1)
<1> SUFFICES ASSUME NEW n \in NodeIds, n \notin AnsweredNodes(r1), ~NodeExcused(n, ViewNode(n))
             PROVE  NodeAsked(r1, k + 1, n, ViewNode(n))
  BY DEF LeftNodes
<1>1. NodeAsked(r, k, n, ViewNode(n))
  BY DEF LeftNodes
<1> QED BY <1>1 DEF NodeAsked

EdgesSettled(r, r1, k) ==
    \A e \in EdgeIds \ AnsweredEdges(r1) :
        /\ PgEdge(e) \in r1.asked => PgEdge(e) \in r.asked
        /\ k = 3 => e \notin r.cs.edges
        /\ k = 5 => ~(PgEdge(e) # Tombstone /\ PgEdge(e) \in r.cs.triples)
        /\ k = 8 => ~(ViewEdge(e) # Tombstone /\ ViewEdge(e).kind \in UNION r.cs.edgeCriteria)
        /\ \A t \in r.cs.oidTriples :
              PgEdge(e) # Tombstone /\ r.cs.landed /\ Means(t, PgEdge(e)) /\ Awaited(r, k, t, PgEdge(e)) =>
                Awaited(r1, k + 1, t, PgEdge(e)) \/ EdgeExcused(e, ViewEdge(e))

LEMMA EdgesStay ==
    ASSUME NEW r, NEW r1, NEW k \in 1 .. 11, LeftEdges(r, k), r1.cs = r.cs, AnsweredEdges(r) \subseteq AnsweredEdges(r1),
           EdgesSettled(r, r1, k)
    PROVE  LeftEdges(r1, k + 1)
<1> SUFFICES ASSUME NEW e \in EdgeIds, e \notin AnsweredEdges(r1)
             PROVE  /\ EdgeExcused(e, ViewEdge(e)) \/ EdgeAsked(r1, k + 1, e, ViewEdge(e))
                    /\ PgEdge(e) \in r1.asked => EdgeExcused(e, ViewEdge(e))
  BY DEF LeftEdges
<1>1. e \notin AnsweredEdges(r)
  OBVIOUS
<1>2. PgEdge(e) \in r1.asked => EdgeExcused(e, ViewEdge(e))
  BY <1>1 DEF LeftEdges, EdgesSettled
<1>3. ASSUME ~EdgeExcused(e, ViewEdge(e))  PROVE EdgeAsked(r1, k + 1, e, ViewEdge(e))
  <2>1. EdgeAsked(r, k, e, ViewEdge(e))
    BY <1>1, <1>3 DEF LeftEdges
  <2>2. \A t \in r.cs.oidTriples :
           PgEdge(e) # Tombstone /\ r.cs.landed /\ Means(t, PgEdge(e)) /\ Awaited(r, k, t, PgEdge(e)) =>
             Awaited(r1, k + 1, t, PgEdge(e))
    BY <1>3 DEF EdgesSettled
  <2>3. /\ k = 3 => e \notin r.cs.edges
        /\ k = 5 => ~(PgEdge(e) # Tombstone /\ PgEdge(e) \in r.cs.triples)
        /\ k = 8 => ~(ViewEdge(e) # Tombstone /\ ViewEdge(e).kind \in UNION r.cs.edgeCriteria)
    BY DEF EdgesSettled
  <2> QED BY <2>1, <2>2, <2>3 DEF EdgeAsked
<1> QED BY <1>2, <1>3

LEMMA AwaitedStay ==
    ASSUME NEW r, NEW r1, NEW k \in 1 .. 11, k \notin {5, 9, 10},
           k <= 4 \/ (/\ r1.cs = r.cs /\ r1.oidToIDs = r.oidToIDs /\ r1.fanouts = r.fanouts
                      /\ r1.unnameable = r.unnameable /\ r1.overCap = r.overCap),
           NEW t, NEW now, Awaited(r, k, t, now)
    PROVE  Awaited(r1, k + 1, t, now)
<1>1. CASE k <= 4
  BY <1>1 DEF Awaited
<1>2. CASE k > 4
  <2>1. Deferred(r1) = Deferred(r)
    BY <1>2 DEF Deferred
  <2> QED BY <1>2, <2>1 DEF Awaited
<1> QED BY <1>1, <1>2

\* An object id that stays with its node names one node.
LEMMA OneCarrier ==
    ASSUME OneNodeEach(carried), NEW o, NEW a, NEW b, <<o, a>> \in carried, <<o, b>> \in carried
    PROVE  a = b
<1>1. <<o, a>>[1] = <<o, b>>[1]
  OBVIOUS
<1>2. <<o, a>> = <<o, b>>
  BY <1>1 DEF OneNodeEach
<1> QED BY <1>2

\* collectViewCandidates: a row of the view under an object id of the write is a candidate or was read.
LEMMA CandidatesSettled ==
    ASSUME ViewInv, OneNodeEach(carried), NEW r, ReadInv(r), NEW n, n \notin AnsweredNodes(r), n \notin CandidateNodes(r),
           ViewNode(n) # Tombstone
    PROVE  ViewNode(n).oid \notin r.cs.oids /\ ~Filtered(r.cs, ViewNode(n), PgNode(n))
<1>1. ~Filtered(r.cs, ViewNode(n), PgNode(n))
  BY Candidates DEF Filtered
<1>2. ASSUME ViewNode(n).oid \in r.cs.oids  PROVE FALSE
  <2> DEFINE o == ViewNode(n).oid
  <2>1. r.oidToIDs[o] # {}
    BY <1>2, Candidates
  <2>2. PICK m : m \in r.oidToIDs[o]
    BY <2>1
  <2>3. m \in DOMAIN r.nodes /\ <<o, m>> \in carried
    BY <1>2, <2>2 DEF ReadInv
  <2>4. o # NoOID
    BY <1>2 DEF ReadInv, KeysInv
  <2>5. <<o, n>> \in carried
    BY <2>4, ViewBorn DEF NodeBorn
  <2>6. m = n
    BY <2>3, <2>5, OneCarrier
  <2> QED BY <2>3, <2>6 DEF AnsweredNodes
<1> QED BY <1>1, <1>2

\* readBackEdgesByTriple: an edge the write landed is read, unless an end of its triple has no node.
LEMMA TriplesSettled ==
    ASSUME TablesInv, OneNodeEach(carried), NEW r, ReadInv(r), KindsKnown(r, 5), NEW e \in EdgeIds, PgEdge(e) # Tombstone,
           ~(db.edges[e] \in KeyedTriples(r) /\ db.edges[e].kind \in r.tripleKinds)
    PROVE  /\ PgEdge(e) \notin r.cs.triples
           /\ \A t \in r.cs.oidTriples : r.cs.landed /\ Means(t, PgEdge(e)) => t \in Deferred(r)
<1>1. PgEdge(e) = db.edges[e] /\ IsEdge(db.edges[e])
  BY DEF PgEdge, Present, TablesInv
<1>2. ASSUME PgEdge(e) \in r.cs.triples  PROVE FALSE
  <2>1. db.edges[e] \in KeyedTriples(r)
    BY <1>1, <1>2 DEF KeyedTriples
  <2>2. db.edges[e].kind \in TripleKinds(r.cs) /\ Landed(r.cs)
    BY <1>1, <1>2 DEF TripleKinds, Landed
  <2> QED BY <2>1, <2>2 DEF KindsKnown
<1>3. ASSUME NEW t \in r.cs.oidTriples, r.cs.landed, Means(t, PgEdge(e)), t \notin Deferred(r)  PROVE FALSE
  <2>1. t.start \in r.cs.oids /\ t.end \in r.cs.oids
    BY DEF ReadInv, KeysInv
  <2>2. r.oidToIDs[t.start] # {} /\ r.oidToIDs[t.end] # {}
    BY <1>3 DEF Deferred
  <2>3. /\ t.kind = db.edges[e].kind /\ <<t.start, db.edges[e].start>> \in carried
        /\ <<t.end, db.edges[e].end>> \in carried
    BY <1>1, <1>3 DEF Means
  <2>4. db.edges[e].start \in r.oidToIDs[t.start]
    <3>1. PICK m : m \in r.oidToIDs[t.start]
      BY <2>2
    <3>2. <<t.start, m>> \in carried
      BY <2>1, <3>1 DEF ReadInv
    <3>3. m = db.edges[e].start
      BY <2>3, <3>2, OneCarrier
    <3> QED BY <3>1, <3>3
  <2>5. db.edges[e].end \in r.oidToIDs[t.end]
    <3>1. PICK m : m \in r.oidToIDs[t.end]
      BY <2>2
    <3>2. <<t.end, m>> \in carried
      BY <2>1, <3>1 DEF ReadInv
    <3>3. m = db.edges[e].end
      BY <2>3, <3>2, OneCarrier
    <3> QED BY <3>1, <3>3
  <2>6. db.edges[e] \in Pairs(r.oidToIDs[t.start], r.oidToIDs[t.end], t.kind)
    BY <1>1, <2>3, <2>4, <2>5 DEF Pairs, IsEdge
  <2>7. db.edges[e] \in KeyedTriples(r)
    BY <2>6 DEF KeyedTriples
  <2>8. db.edges[e].kind \in TripleKinds(r.cs) /\ Landed(r.cs)
    BY <1>3, <2>3 DEF TripleKinds, Landed
  <2> QED BY <2>7, <2>8 DEF KindsKnown
<1> QED BY <1>2, <1>3

\* rekeyedTripleKeys: a node that can be named for an object id carries it or did.
LEMMA NameableCarried ==
    ASSUME ViewInv, NEW r, ReadInv(r), NEW o \in r.cs.oids, NEW n \in Nameable(r, o)
    PROVE  <<o, n>> \in carried
<1>1. o # NoOID
  BY DEF ReadInv, KeysInv
<1>2. CASE r.oidToIDs[o] # {}
  BY <1>2 DEF Nameable, ReadInv
<1>3. CASE r.oidToIDs[o] = {}
  <2>1. n \in NodesByObjectID(snap, o)
    BY <1>3 DEF Nameable
  <2>2. ViewNode(n) # Tombstone /\ ViewNode(n).oid = o
    BY <2>1, ViewNodes
  <2> QED BY <1>1, <2>2, ViewBorn DEF NodeBorn
<1> QED BY <1>2, <1>3

\* A landed edge whose triple was deferred: asked for by both ends, by one, or given up.
LEMMA RekeyedSettled ==
    ASSUME TablesInv, ViewInv, OneNodeEach(carried), NEW r, ReadInv(r), KindsKnown(r, 9), NEW r1,
           r1.fanouts = Fanouts(r, "start") \cup Fanouts(r, "end"), r1.unnameable <=> Unnameable(r) # {},
           NEW e \in EdgeIds, PgEdge(e) # Tombstone, db.edges[e] \in r.asked => EdgeExcused(e, ViewEdge(e)),
           ~(db.edges[e] \in RekeyedTriples(r) /\ db.edges[e].kind \in r.tripleKinds),
           NEW t \in Deferred(r), r.cs.landed, Means(t, PgEdge(e))
    PROVE  Awaited(r1, 10, t, PgEdge(e)) \/ EdgeExcused(e, ViewEdge(e))
<1>1. PgEdge(e) = db.edges[e] /\ IsEdge(db.edges[e])
  BY DEF PgEdge, Present, TablesInv
<1>2. t \in r.cs.oidTriples /\ t.start \in r.cs.oids /\ t.end \in r.cs.oids
  BY DEF Deferred, ReadInv, KeysInv
<1>3. /\ t.kind = db.edges[e].kind /\ <<t.start, db.edges[e].start>> \in carried
      /\ <<t.end, db.edges[e].end>> \in carried
  BY <1>1 DEF Means
<1>4. t.kind \in r.tripleKinds
  <2>1. t.kind \in TripleKinds(r.cs) /\ Landed(r.cs)
    BY <1>2 DEF TripleKinds, Landed
  <2> QED BY <2>1 DEF KindsKnown
<1>5. ASSUME NEW o \in r.cs.oids, NEW n, <<o, n>> \in carried, Nameable(r, o) # {}  PROVE n \in Nameable(r, o)
  <2>1. PICK m : m \in Nameable(r, o)
    BY <1>5
  <2>2. <<o, m>> \in carried
    BY <2>1, NameableCarried
  <2>3. m = n
    BY <1>5, <2>2, OneCarrier
  <2> QED BY <2>1, <2>3
<1>6. /\ Nameable(r, t.start) # {} => db.edges[e].start \in Nameable(r, t.start)
      /\ Nameable(r, t.end) # {} => db.edges[e].end \in Nameable(r, t.end)
  BY <1>2, <1>3, <1>5
<1>7. CASE t \in Unnameable(r)
  BY <1>7 DEF Awaited
<1>8. CASE t \in TwoEnded(r)
  <2>1. db.edges[e] \in Pairs(Nameable(r, t.start), Nameable(r, t.end), t.kind)
    BY <1>1, <1>3, <1>6, <1>8 DEF Pairs, IsEdge, TwoEnded
  <2>2. db.edges[e] \in RekeyedTriples(r) \/ db.edges[e] \in r.asked
    BY <1>8, <2>1 DEF RekeyedTriples
  <2> QED BY <1>3, <1>4, <2>2
<1>9. ASSUME NEW side \in {"start", "end"}, t \in OneEnded(r, side)  PROVE Awaited(r1, 10, t, PgEdge(e))
  <2> DEFINE f == [side |-> side, kind |-> t.kind,
                   ids |-> UNION {Nameable(r, u[side]) : u \in {u \in OneEnded(r, side) : u.kind = t.kind}}]
  <2>1. f \in Fanouts(r, side)
    BY <1>9 DEF Fanouts
  <2>2. f \in r1.fanouts
    BY <2>1
  <2>3. db.edges[e][side] \in Nameable(r, t[side])
    BY <1>6, <1>9 DEF OneEnded
  <2>4. db.edges[e][side] \in f.ids
    BY <1>9, <2>3
  <2>5. f.side = side /\ f.kind = db.edges[e].kind
    BY <1>3
  <2> HIDE DEF f
  <2>6. Meets(f, PgEdge(e))
    BY <1>1, <2>4, <2>5 DEF Meets
  <2> QED BY <2>2, <2>6 DEF Awaited
<1> QED BY <1>7, <1>8, <1>9 DEF Unnameable
-----------------------------------------------------------------------------
(***************************************************************************)
(* The places in order.  Next: what a place leaves, sent or not.            *)
(***************************************************************************)
Now == TablesInv /\ ViewInv /\ (~ObjectIdsMove => OneNodeEach(carried))

\* What a query leaves alone.
Only(r, r1, fields) == \A f \in ReaderFields \ fields : r1[f] = r[f]

LEMMA MoreIsAnswered ==
    ASSUME NEW r, NEW r1, MoreRead(r, r1)
    PROVE  AnsweredNodes(r) \subseteq AnsweredNodes(r1) /\ AnsweredEdges(r) \subseteq AnsweredEdges(r1) /\ r1.cs = r.cs
BY DEF MoreRead, AnsweredNodes, AnsweredEdges

LEMMA SameIsMore ==
    ASSUME NEW r, ReadInv(r)
    PROVE  MoreRead(r, r)
BY DEF MoreRead, ReadInv

\* A place that is about nodes.
LEMMA NodePlace ==
    ASSUME Now, NEW r, NEW r1, NEW k \in {1, 2, 7, 11}, ReaderInv(r, k), MoreRead(r, r1),
           Only(r, r1, {"nodes", "absentNodes", "oidToIDs"}), k > 2 => r1.oidToIDs = r.oidToIDs,
           k = 1 => r.cs.nodes \subseteq AnsweredNodes(r1),
           k = 2 => /\ \A n : Live(db.nodes, n) /\ db.nodes[n].oid \in r.cs.oids => n \in AnsweredNodes(r1)
                    /\ Quiet(r.cs) => Deferred(r1) = {},
           k = 7 => CandidateNodes(r) \subseteq AnsweredNodes(r1)
    PROVE  ReaderInv(r1, k + 1)
<1>1. ReadInv(r) /\ RaceInv(r, k) /\ (~ObjectIdsMove => LeftInv(r, k)) /\ TablesInv /\ ViewInv
  BY DEF ReaderInv, Now
<1>2. /\ r1.cs = r.cs /\ r1.edges = r.edges /\ r1.absentEdges = r.absentEdges /\ r1.tripleKinds = r.tripleKinds
      /\ r1.asked = r.asked /\ r1.fanouts = r.fanouts /\ r1.unnameable = r.unnameable /\ r1.overCap = r.overCap
      /\ AnsweredEdges(r1) = AnsweredEdges(r)
  BY DEF Only, ReaderFields, AnsweredEdges
<1>3. AnsweredNodes(r) \subseteq AnsweredNodes(r1)
  BY MoreIsAnswered
<1>4. ReadInv(r1)
  BY <1>1, ReadMore
<1>5. k > 2 => Deferred(r1) = Deferred(r)
  BY <1>2 DEF Deferred
<1>6. RaceInv(r1, k + 1)
  BY <1>1, <1>2, <1>5 DEF RaceInv, Quiet
<1>7. ASSUME ~ObjectIdsMove  PROVE LeftInv(r1, k + 1)
  <2>1. LeftNodes(r, k) /\ LeftEdges(r, k) /\ KindsKnown(r, k) /\ OneNodeEach(carried)
    BY <1>1, <1>7 DEF LeftInv, Now
  <2>2. ASSUME NEW n \in NodeIds \ AnsweredNodes(r1)
        PROVE  /\ k = 1 => n \notin r.cs.nodes
               /\ k = 2 => ~(PgNode(n) # Tombstone /\ PgNode(n).oid \in r.cs.oids)
               /\ k = 7 => /\ ~(ViewNode(n) # Tombstone /\ ViewNode(n).oid \in r.cs.oids)
                           /\ ~Filtered(r.cs, ViewNode(n), PgNode(n))
    <3>1. k = 2 => ~(PgNode(n) # Tombstone /\ PgNode(n).oid \in r.cs.oids)
      BY <1>1 DEF PgNode, Present, Live, TablesInv
    <3>2. CASE k = 7 /\ ViewNode(n) # Tombstone
      BY <1>1, <1>3, <2>1, <2>2, <3>2, CandidatesSettled
    <3>3. CASE ViewNode(n) = Tombstone
      BY <3>1, <3>3 DEF Filtered
    <3> QED BY <3>1, <3>2, <3>3
  <2>3. LeftNodes(r1, k + 1)
    BY <1>2, <1>3, <2>1, <2>2, NodesStay
  <2>4. \A t, now : Awaited(r, k, t, now) => Awaited(r1, k + 1, t, now)
    BY <1>2, AwaitedStay
  <2>5. LeftEdges(r1, k + 1)
    <3>1. EdgesSettled(r, r1, k)
      BY <1>2, <2>4 DEF EdgesSettled
    <3> QED BY <1>2, <2>1, <3>1, EdgesStay
  <2>6. KindsKnown(r1, k + 1)
    BY <1>2, <2>1 DEF KindsKnown
  <2> QED BY <2>3, <2>5, <2>6 DEF LeftInv
<1> QED BY <1>4, <1>6, <1>7 DEF ReaderInv

\* A place that is about edges.
LEMMA EdgePlace ==
    ASSUME Now, NEW r, NEW r1, NEW k \in {3, 5, 8}, ReaderInv(r, k), MoreRead(r, r1),
           Only(r, r1, {"edges", "absentEdges", "asked", "absentTriples"}),
           \A e \in EdgeIds \ AnsweredEdges(r1) : PgEdge(e) \in r1.asked => PgEdge(e) \in r.asked,
           k = 3 => r.cs.edges \subseteq AnsweredEdges(r1),
           k = 5 => \A e : Live(db.edges, e) /\ db.edges[e] \in KeyedTriples(r) /\ db.edges[e].kind \in r.tripleKinds
                             => e \in AnsweredEdges(r1),
           k = 8 => CandidateEdges(r) \subseteq AnsweredEdges(r1)
    PROVE  ReaderInv(r1, k + 1)
<1>1. ReadInv(r) /\ RaceInv(r, k) /\ (~ObjectIdsMove => LeftInv(r, k)) /\ TablesInv /\ ViewInv
  BY DEF ReaderInv, Now
<1>2. /\ r1.cs = r.cs /\ r1.nodes = r.nodes /\ r1.absentNodes = r.absentNodes /\ r1.tripleKinds = r.tripleKinds
      /\ r1.oidToIDs = r.oidToIDs /\ r1.fanouts = r.fanouts /\ r1.unnameable = r.unnameable /\ r1.overCap = r.overCap
      /\ AnsweredNodes(r1) = AnsweredNodes(r)
  BY DEF Only, ReaderFields, AnsweredNodes
<1>3. AnsweredEdges(r) \subseteq AnsweredEdges(r1)
  BY MoreIsAnswered
<1>4. ReadInv(r1)
  BY <1>1, ReadMore
<1>5. Deferred(r1) = Deferred(r)
  BY <1>2 DEF Deferred
<1>6. RaceInv(r1, k + 1)
  BY <1>1, <1>2, <1>5 DEF RaceInv, Quiet
<1>7. ASSUME ~ObjectIdsMove  PROVE LeftInv(r1, k + 1)
  <2>1. LeftNodes(r, k) /\ LeftEdges(r, k) /\ KindsKnown(r, k) /\ OneNodeEach(carried)
    BY <1>1, <1>7 DEF LeftInv, Now
  <2>2. LeftNodes(r1, k + 1)
    BY <1>2, <2>1, NodesStay
  <2>3. ASSUME NEW e \in EdgeIds \ AnsweredEdges(r1)
        PROVE  /\ k = 3 => e \notin r.cs.edges
               /\ k = 5 => ~(PgEdge(e) # Tombstone /\ PgEdge(e) \in r.cs.triples)
               /\ k = 8 => ~(ViewEdge(e) # Tombstone /\ ViewEdge(e).kind \in UNION r.cs.edgeCriteria)
               /\ \A t \in r.cs.oidTriples :
                     PgEdge(e) # Tombstone /\ r.cs.landed /\ Means(t, PgEdge(e)) /\ Awaited(r, k, t, PgEdge(e)) =>
                       Awaited(r1, k + 1, t, PgEdge(e)) \/ EdgeExcused(e, ViewEdge(e))
    <3>1. k = 8 => ~(ViewEdge(e) # Tombstone /\ ViewEdge(e).kind \in UNION r.cs.edgeCriteria)
      BY <1>1, EdgeCandidates
    <3>2. CASE k # 5
      <4>1. \A t, now : Awaited(r, k, t, now) => Awaited(r1, k + 1, t, now)
        BY <1>2, <3>2, AwaitedStay
      <4> QED BY <3>1, <3>2, <4>1
    <3>3. CASE k = 5 /\ PgEdge(e) # Tombstone
      <4>1. Live(db.edges, e)
        BY <1>1, <3>3 DEF PgEdge, Present, Live, TablesInv
      <4>2. ~(db.edges[e] \in KeyedTriples(r) /\ db.edges[e].kind \in r.tripleKinds)
        BY <3>3, <4>1
      <4>3. KindsKnown(r, 5)
        BY <2>1, <3>3
      <4>4. /\ PgEdge(e) \notin r.cs.triples
            /\ \A t \in r.cs.oidTriples : r.cs.landed /\ Means(t, PgEdge(e)) => t \in Deferred(r)
        BY <1>1, <2>1, <3>3, <4>2, <4>3, TriplesSettled
      <4>5. \A now : \A t \in Deferred(r) : Awaited(r1, 6, t, now)
        BY <1>5 DEF Awaited
      <4> QED BY <3>3, <4>4, <4>5
    <3> QED BY <3>2, <3>3
  <2>4. LeftEdges(r1, k + 1)
    <3>1. EdgesSettled(r, r1, k)
      BY <2>3 DEF EdgesSettled
    <3>2. k \in 1 .. 11
      OBVIOUS
    <3> QED BY <1>2, <1>3, <2>1, <3>1, <3>2, EdgesStay
  <2>5. KindsKnown(r1, k + 1)
    <3>1. k = 3 \/ k > 4
      OBVIOUS
    <3> QED BY <1>2, <2>1, <3>1 DEF KindsKnown
  <2> QED BY <2>2, <2>4, <2>5 DEF LeftInv
<1> QED BY <1>4, <1>6, <1>7 DEF ReaderInv

\* A place that resolves kinds.
LEMMA KindPlace ==
    ASSUME Now, NEW r, NEW r1, NEW k \in {4, 6}, ReaderInv(r, k), DOMAIN r1 = ReaderFields,
           Only(r, r1, {"tripleKinds", "criteriaKinds"}), k = 6 => r1.tripleKinds = r.tripleKinds,
           k = 4 /\ Landed(r.cs) => TripleKinds(r.cs) \subseteq r1.tripleKinds
    PROVE  ReaderInv(r1, k + 1)
<1>1. ReadInv(r) /\ RaceInv(r, k) /\ (~ObjectIdsMove => LeftInv(r, k)) /\ TablesInv /\ ViewInv
  BY DEF ReaderInv, Now
<1>2. /\ r1.cs = r.cs /\ r1.nodes = r.nodes /\ r1.absentNodes = r.absentNodes /\ r1.edges = r.edges
      /\ r1.absentEdges = r.absentEdges /\ r1.absentTriples = r.absentTriples /\ r1.discovered = r.discovered
      /\ r1.asked = r.asked /\ r1.oidToIDs = r.oidToIDs
      /\ r1.fanouts = r.fanouts /\ r1.unnameable = r.unnameable /\ r1.overCap = r.overCap
      /\ AnsweredNodes(r1) = AnsweredNodes(r) /\ AnsweredEdges(r1) = AnsweredEdges(r)
  BY DEF Only, ReaderFields, AnsweredNodes, AnsweredEdges
<1>3. ReadInv(r1)
  BY <1>1, <1>2 DEF ReadInv
<1>4. Deferred(r1) = Deferred(r)
  BY <1>2 DEF Deferred
<1>5. RaceInv(r1, k + 1)
  BY <1>1, <1>2, <1>4 DEF RaceInv, Quiet
<1>6. ASSUME ~ObjectIdsMove  PROVE LeftInv(r1, k + 1)
  <2>1. LeftNodes(r, k) /\ LeftEdges(r, k) /\ KindsKnown(r, k)
    BY <1>1, <1>6 DEF LeftInv
  <2>2. LeftNodes(r1, k + 1)
    BY <1>2, <2>1, NodesStay
  <2>3. \A t, now : Awaited(r, k, t, now) => Awaited(r1, k + 1, t, now)
    BY <1>2, AwaitedStay
  <2>4. LeftEdges(r1, k + 1)
    <3>1. EdgesSettled(r, r1, k)
      BY <1>2, <2>3 DEF EdgesSettled
    <3> QED BY <1>2, <2>1, <3>1, EdgesStay
  <2>5. KindsKnown(r1, k + 1)
    BY <1>2, <2>1 DEF KindsKnown
  <2> QED BY <2>2, <2>4, <2>5 DEF LeftInv
<1> QED BY <1>3, <1>5, <1>6 DEF ReaderInv

\* The place of the deferred triples: by both ends, by one, or given up.
LEMMA RekeyedPlace ==
    ASSUME Now, NEW r, NEW r1, ReaderInv(r, 9), MoreRead(r, r1),
           Only(r, r1, {"edges", "asked", "absentTriples", "fanouts", "unnameable"}),
           \A e \in EdgeIds \ AnsweredEdges(r1) : PgEdge(e) \in r1.asked => PgEdge(e) \in r.asked,
           r1.fanouts = Fanouts(r, "start") \cup Fanouts(r, "end"), r1.unnameable <=> Unnameable(r) # {},
           \A e : Live(db.edges, e) /\ db.edges[e] \in RekeyedTriples(r) /\ db.edges[e].kind \in r.tripleKinds
                    => e \in AnsweredEdges(r1)
    PROVE  ReaderInv(r1, 10)
<1>1. ReadInv(r) /\ RaceInv(r, 9) /\ (~ObjectIdsMove => LeftInv(r, 9)) /\ TablesInv /\ ViewInv
  BY DEF ReaderInv, Now
<1>2. /\ r1.cs = r.cs /\ r1.nodes = r.nodes /\ r1.absentNodes = r.absentNodes /\ r1.tripleKinds = r.tripleKinds
      /\ r1.oidToIDs = r.oidToIDs /\ r1.overCap = r.overCap /\ AnsweredNodes(r1) = AnsweredNodes(r)
  BY DEF Only, ReaderFields, AnsweredNodes
<1>3. AnsweredEdges(r) \subseteq AnsweredEdges(r1)
  BY MoreIsAnswered
<1>4. ReadInv(r1)
  BY <1>1, ReadMore
<1>5. Deferred(r1) = Deferred(r)
  BY <1>2 DEF Deferred
<1>6. RaceInv(r1, 10)
  <2>1. ASSUME Deferred(r) = {}  PROVE r1.fanouts = {} /\ ~r1.unnameable
    <3>1. OneEnded(r, "start") = {} /\ OneEnded(r, "end") = {}
      BY <2>1 DEF OneEnded
    <3>2. Unnameable(r) = {}
      BY <2>1 DEF Unnameable
    <3> QED BY <3>1, <3>2 DEF Fanouts
  <2>2. ~r1.overCap
    BY <1>1, <1>2 DEF RaceInv
  <2> QED BY <1>1, <1>2, <1>5, <2>1, <2>2 DEF RaceInv
<1>7. ASSUME ~ObjectIdsMove  PROVE LeftInv(r1, 10)
  <2>1. LeftNodes(r, 9) /\ LeftEdges(r, 9) /\ KindsKnown(r, 9) /\ OneNodeEach(carried)
    BY <1>1, <1>7 DEF LeftInv, Now
  <2>2. LeftNodes(r1, 10)
    <3>1. 9 \in 1 .. 11 /\ 9 + 1 = 10
      OBVIOUS
    <3> QED BY <1>2, <2>1, <3>1, NodesStay
  <2>3. ASSUME NEW e \in EdgeIds \ AnsweredEdges(r1), NEW t \in r.cs.oidTriples, PgEdge(e) # Tombstone, r.cs.landed,
               Means(t, PgEdge(e)), Awaited(r, 9, t, PgEdge(e))
        PROVE  Awaited(r1, 10, t, PgEdge(e)) \/ EdgeExcused(e, ViewEdge(e))
    <3>1. t \in Deferred(r)
      BY <1>1, <2>3 DEF Awaited, RaceInv
    <3>2. Live(db.edges, e) /\ PgEdge(e) = db.edges[e]
      BY <1>1, <2>3 DEF PgEdge, Present, Live, TablesInv
    <3>3. ~(db.edges[e] \in RekeyedTriples(r) /\ db.edges[e].kind \in r.tripleKinds)
      BY <2>3, <3>2
    <3>4. db.edges[e] \in r.asked => EdgeExcused(e, ViewEdge(e))
      BY <1>3, <2>1, <2>3, <3>2 DEF LeftEdges
    <3> QED BY <1>1, <2>1, <2>3, <3>1, <3>3, <3>4, RekeyedSettled
  <2>4. EdgesSettled(r, r1, 9)
    BY <2>3 DEF EdgesSettled
  <2>5. LeftEdges(r1, 10)
    <3>1. 9 \in 1 .. 11 /\ 9 + 1 = 10
      OBVIOUS
    <3> QED BY <1>2, <1>3, <2>1, <2>4, <3>1, EdgesStay
  <2>6. KindsKnown(r1, 10)
    BY <1>2, <2>1 DEF KindsKnown
  <2> QED BY <2>2, <2>5, <2>6 DEF LeftInv
<1> QED BY <1>4, <1>6, <1>7 DEF ReaderInv

\* The place of the fan-outs: every edge at a named end, or over the cap.
LEMMA FanoutPlace ==
    ASSUME Now, NEW r, NEW r1, ReaderInv(r, 10), MoreRead(r, r1),
           Only(r, r1, {"edges", "overCap", "discovered"}),
           r.fanouts = {} => ~r1.overCap,
           \A e, f : Live(db.edges, e) /\ f \in r.fanouts /\ Meets(f, db.edges[e])
                       => r1.overCap \/ e \in AnsweredEdges(r1)
    PROVE  ReaderInv(r1, 11)
<1>1. ReadInv(r) /\ RaceInv(r, 10) /\ (~ObjectIdsMove => LeftInv(r, 10)) /\ TablesInv /\ ViewInv
  BY DEF ReaderInv, Now
<1>2. /\ r1.cs = r.cs /\ r1.nodes = r.nodes /\ r1.absentNodes = r.absentNodes /\ r1.tripleKinds = r.tripleKinds
      /\ r1.oidToIDs = r.oidToIDs /\ r1.fanouts = r.fanouts /\ r1.unnameable = r.unnameable /\ r1.asked = r.asked
      /\ AnsweredNodes(r1) = AnsweredNodes(r)
  BY DEF Only, ReaderFields, AnsweredNodes
<1>3. AnsweredEdges(r) \subseteq AnsweredEdges(r1)
  BY MoreIsAnswered
<1>4. ReadInv(r1)
  BY <1>1, ReadMore
<1>5. Deferred(r1) = Deferred(r)
  BY <1>2 DEF Deferred
<1>6. RaceInv(r1, 11)
  BY <1>1, <1>2, <1>5 DEF RaceInv
<1>7. ASSUME ~ObjectIdsMove  PROVE LeftInv(r1, 11)
  <2>1. LeftNodes(r, 10) /\ LeftEdges(r, 10) /\ KindsKnown(r, 10)
    BY <1>1, <1>7 DEF LeftInv
  <2>2. LeftNodes(r1, 11)
    <3>1. 10 \in 1 .. 11 /\ 10 + 1 = 11
      OBVIOUS
    <3> QED BY <1>2, <2>1, <3>1, NodesStay
  <2>3. ASSUME NEW e \in EdgeIds \ AnsweredEdges(r1), NEW t \in r.cs.oidTriples, PgEdge(e) # Tombstone,
               Awaited(r, 10, t, PgEdge(e))
        PROVE  Awaited(r1, 11, t, PgEdge(e))
    <3>1. ~r.overCap
      BY <1>1 DEF RaceInv
    <3>2. Live(db.edges, e) /\ PgEdge(e) = db.edges[e]
      BY <1>1, <2>3 DEF PgEdge, Present, Live, TablesInv
    <3>3. CASE r.unnameable
      BY <1>2, <3>3 DEF Awaited
    <3>4. CASE \E f \in r.fanouts : Meets(f, PgEdge(e))
      BY <2>3, <3>2, <3>4 DEF Awaited
    <3> QED BY <2>3, <3>1, <3>3, <3>4 DEF Awaited
  <2>4. EdgesSettled(r, r1, 10)
    BY <1>2, <2>3 DEF EdgesSettled
  <2>5. LeftEdges(r1, 11)
    <3>1. 10 \in 1 .. 11 /\ 10 + 1 = 11
      OBVIOUS
    <3> QED BY <1>2, <1>3, <2>1, <2>4, <3>1, EdgesStay
  <2>6. KindsKnown(r1, 11)
    BY <1>2, <2>1 DEF KindsKnown
  <2> QED BY <2>2, <2>5, <2>6 DEF LeftInv
<1> QED BY <1>4, <1>6, <1>7 DEF ReaderInv

\* A query with nothing to ask is not sent, and nothing is lost by that.
LEMMA SkipKeeps ==
    ASSUME Now, NEW r, NEW i \in 1 .. 11, ReaderInv(r, i), ~HasQuery(Stages[i], r)
    PROVE  ReaderInv(r, i + 1)
<1>1. ReadInv(r) /\ RaceInv(r, i) /\ TablesInv /\ ViewInv
  BY DEF ReaderInv, Now
<1>2. MoreRead(r, r) /\ DOMAIN r = ReaderFields
  BY <1>1, SameIsMore DEF ReadInv
<1>3. \A fields : Only(r, r, fields)
  BY DEF Only
<1>4. CASE i = 1
  <2>1. r.cs.nodes = {}
    BY <1>4, Places DEF HasQuery
  <2> QED BY <1>2, <1>3, <1>4, <2>1, NodePlace
<1>5. CASE i = 2
  <2>1. r.cs.oids = {}
    BY <1>5, Places DEF HasQuery
  <2>2. r.cs.oidTriples = {}
    BY <1>1, <2>1 DEF ReadInv, KeysInv
  <2>3. Deferred(r) = {}
    BY <2>2 DEF Deferred
  <2> QED BY <1>2, <1>3, <1>5, <2>1, <2>3, NodePlace
<1>6. CASE i = 3
  <2>1. r.cs.edges = {}
    BY <1>6, Places DEF HasQuery
  <2> QED BY <1>2, <1>3, <1>6, <2>1, EdgePlace
<1>7. CASE i = 4
  <2>1. r.tripleKinds = TripleKinds(r.cs)
    BY <1>7, Places DEF HasQuery
  <2> QED BY <1>2, <1>3, <1>7, <2>1, KindPlace
<1>8. CASE i = 5
  <2>1. KeyedTriples(r) = {}
    BY <1>8, Places DEF HasQuery
  <2> QED BY <1>2, <1>3, <1>8, <2>1, EdgePlace
<1>9. CASE i = 6
  BY <1>2, <1>3, <1>9, KindPlace
<1>10. CASE i = 7
  <2>1. UnansweredNodes(r, CandidateNodes(r)) = {}
    BY <1>10, Places DEF HasQuery
  <2>2. CandidateNodes(r) \subseteq AnsweredNodes(r)
    BY <2>1 DEF UnansweredNodes, AnsweredNodes
  <2> QED BY <1>2, <1>3, <1>10, <2>2, NodePlace
<1>11. CASE i = 8
  <2>1. UnansweredEdges(r, CandidateEdges(r)) = {}
    BY <1>11, Places DEF HasQuery
  <2>2. CandidateEdges(r) \subseteq AnsweredEdges(r)
    BY <2>1 DEF UnansweredEdges, AnsweredEdges
  <2> QED BY <1>2, <1>3, <1>11, <2>2, EdgePlace
<1>12. CASE i = 9
  <2>1. Deferred(r) = {}
    BY <1>12, Places DEF HasQuery
  <2>2. TwoEnded(r) = {} /\ OneEnded(r, "start") = {} /\ OneEnded(r, "end") = {} /\ Unnameable(r) = {}
    BY <2>1 DEF TwoEnded, OneEnded, Unnameable
  <2>3. RekeyedTriples(r) = {} /\ Fanouts(r, "start") = {} /\ Fanouts(r, "end") = {}
    BY <2>2 DEF RekeyedTriples, Fanouts
  <2>4. r.fanouts = {} /\ ~r.unnameable
    BY <1>1, <1>12 DEF RaceInv
  <2> QED BY <1>2, <1>3, <1>12, <2>2, <2>3, <2>4, RekeyedPlace
<1>13. CASE i = 10
  <2>1. r.fanouts = {}
    BY <1>13, Places DEF HasQuery
  <2>2. ~r.overCap
    BY <1>1, <1>13 DEF RaceInv
  <2> QED BY <1>2, <1>3, <1>13, <2>1, <2>2, FanoutPlace
<1>14. CASE i = 11
  BY <1>2, <1>3, <1>14, NodePlace
<1> QED BY <1>4, <1>5, <1>6, <1>7, <1>8, <1>9, <1>10, <1>11, <1>12, <1>13, <1>14
-----------------------------------------------------------------------------
(***************************************************************************)
(* A query is sent and the next one with something to ask is waited for.    *)
(***************************************************************************)

\* Where the reader waits does not matter to what it has read.
LEMMA AnyPlace ==
    ASSUME NEW r, NEW r1, NEW k, DOMAIN r1 = ReaderFields, Only(r, r1, {"pc"}), ReaderInv(r, k)
    PROVE  ReaderInv(r1, k)
<1>1. /\ r1.cs = r.cs /\ r1.nodes = r.nodes /\ r1.edges = r.edges /\ r1.absentNodes = r.absentNodes
      /\ r1.absentEdges = r.absentEdges /\ r1.absentTriples = r.absentTriples /\ r1.oidToIDs = r.oidToIDs
      /\ r1.tripleKinds = r.tripleKinds /\ r1.asked = r.asked /\ r1.fanouts = r.fanouts /\ r1.discovered = r.discovered
      /\ r1.unnameable = r.unnameable /\ r1.overCap = r.overCap
  BY DEF Only, ReaderFields
<1>2. AnsweredNodes(r1) = AnsweredNodes(r) /\ AnsweredEdges(r1) = AnsweredEdges(r) /\ Deferred(r1) = Deferred(r)
  BY <1>1 DEF AnsweredNodes, AnsweredEdges, Deferred
<1>3. ReadInv(r1)
  BY <1>1 DEF ReadInv, ReaderInv
<1>4. RaceInv(r1, k)
  BY <1>1, <1>2 DEF RaceInv, ReaderInv
<1>5. ASSUME ~ObjectIdsMove  PROVE LeftInv(r1, k)
  <2>1. LeftInv(r, k)
    BY <1>5 DEF ReaderInv
  <2>2. \A n, row : NodeAsked(r1, k, n, row) <=> NodeAsked(r, k, n, row)
    BY <1>1 DEF NodeAsked
  <2>3. \A t, now : Awaited(r1, k, t, now) <=> Awaited(r, k, t, now)
    BY <1>1, <1>2 DEF Awaited
  <2>4. \A e, row : EdgeAsked(r1, k, e, row) <=> EdgeAsked(r, k, e, row)
    BY <1>1, <2>3 DEF EdgeAsked
  <2> QED BY <1>1, <1>2, <2>1, <2>2, <2>4 DEF LeftInv, LeftNodes, LeftEdges, KindsKnown
<1> QED BY <1>3, <1>4, <1>5 DEF ReaderInv

\* From: nothing is lost over the places that are passed by.
LEMMA NextPlace ==
    ASSUME Now, NEW r, NEW k0 \in 0 .. 11, NEW pc, pc = IF k0 = 0 THEN "start" ELSE Stages[k0], ReaderInv(r, k0 + 1)
    PROVE  \E k \in 1 .. 12 : From(pc, r).pc = Stages[k] /\ ReaderInv(From(pc, r), k)
<1>1. DOMAIN r = ReaderFields
  BY DEF ReaderInv, ReadInv
<1>2. PICK k \in (k0 + 1) .. 12 : /\ From(pc, r).pc = Stages[k] /\ HasQuery(Stages[k], r)
                                  /\ \A i \in (k0 + 1) .. (k - 1) : ~HasQuery(Stages[i], r)
  BY <1>1, NextQuery
<1>3. DOMAIN From(pc, r) = ReaderFields /\ \A f \in ReaderFields \ {"pc"} : From(pc, r)[f] = r[f]
  BY <1>1, NextQuery
<1> DEFINE Lost == {i \in (k0 + 1) .. k : ~ReaderInv(r, i)}
<1>4. Lost = {}
  <2> SUFFICES ASSUME Lost # {}  PROVE FALSE
    OBVIOUS
  <2> DEFINE m == Min(Lost)
  <2>1. Lost \in SUBSET Nat
    OBVIOUS
  <2> HIDE DEF Lost
  <2>2. m \in Lost /\ \A i \in Lost : m <= i
    BY <2>1, LeastNatural
  <2> HIDE DEF m
  <2>3. m \in (k0 + 1) .. k /\ ~ReaderInv(r, m) /\ m # k0 + 1
    BY <2>2 DEF Lost
  <2>4. m - 1 \in (k0 + 1) .. (k - 1) /\ m - 1 \in 1 .. 11 /\ m - 1 \in (k0 + 1) .. k /\ ~(m <= m - 1) /\ (m - 1) + 1 = m
    BY <2>3
  <2>5. m - 1 \notin Lost
    BY <2>2, <2>4
  <2>6. ReaderInv(r, m - 1)
    BY <2>4, <2>5 DEF Lost
  <2>7. ~HasQuery(Stages[m - 1], r)
    BY <1>2, <2>4
  <2>8. ReaderInv(r, (m - 1) + 1)
    BY <2>4, <2>6, <2>7, SkipKeeps
  <2> QED BY <2>3, <2>4, <2>8
<1>5. ReaderInv(r, k)
  BY <1>4
<1>6. ReaderInv(From(pc, r), k)
  BY <1>3, <1>5, AnyPlace DEF Only
<1> QED BY <1>2, <1>6

\* Nothing of the database, the change sets or the view moves.
Unmoved == UNCHANGED <<db, registered, changes, snap, carried, skipped>>

LEMMA UnmovedReader ==
    ASSUME Unmoved, NEW r, NEW k, ReaderInv(r, k)
    PROVE  ReaderInv(r, k)'
<1>1. /\ db' = db /\ registered' = registered /\ changes' = changes /\ snap' = snap /\ carried' = carried
      /\ skipped' = skipped
  BY DEF Unmoved
<1>2. \A n, row : (NodeBorn(n, row)' <=> NodeBorn(n, row)) /\ (NodeExcused(n, row)' <=> NodeExcused(n, row))
  BY <1>1 DEF NodeBorn, NodeExcused, NamedById, PgNode, Present
<1>3. \A e, row : (EdgeBorn(e, row)' <=> EdgeBorn(e, row)) /\ (EdgeExcused(e, row)' <=> EdgeExcused(e, row))
  BY <1>1 DEF EdgeBorn, EdgeExcused, EdgeNamed, Means, PgEdge, Present, Buried
<1>4. /\ \A n : Buried(n)' <=> Buried(n)
      /\ \A n : ViewNode(n)' = ViewNode(n) /\ PgNode(n)' = PgNode(n)
      /\ \A e : ViewEdge(e)' = ViewEdge(e) /\ PgEdge(e)' = PgEdge(e)
  BY <1>1 DEF Buried, ViewNode, ViewEdge, PgNode, PgEdge
<1>5. \A cs : KeysInv(cs)' <=> KeysInv(cs)
  BY <1>1 DEF KeysInv, Placed
<1>6. ReadInv(r)'
  BY <1>1, <1>2, <1>3, <1>4, <1>5 DEF ReadInv, ReaderInv
<1>7. RaceInv(r, k)'
  BY DEF RaceInv, ReaderInv
<1>8. ASSUME ~ObjectIdsMove  PROVE LeftInv(r, k)'
  <2>1. LeftNodes(r, k) /\ LeftEdges(r, k) /\ KindsKnown(r, k)
    BY <1>8 DEF ReaderInv, LeftInv
  <2>2. ASSUME NEW n, NEW row  PROVE NodeAsked(r, k, n, row)' <=> NodeAsked(r, k, n, row)
    BY <1>1, <1>4 DEF NodeAsked, NamedById
  <2>3. ASSUME NEW e, NEW row  PROVE EdgeAsked(r, k, e, row)' <=> EdgeAsked(r, k, e, row)
    BY <1>1, <1>4 DEF EdgeAsked, Means, Awaited
  <2>4. LeftNodes(r, k)'
    BY <1>2, <1>4, <2>1, <2>2 DEF LeftNodes
  <2>5. LeftEdges(r, k)'
    BY <1>3, <1>4, <2>1, <2>3 DEF LeftEdges
  <2>6. KindsKnown(r, k)'
    BY <2>1 DEF KindsKnown
  <2> QED BY <2>4, <2>5, <2>6 DEF LeftInv
<1> QED BY <1>6, <1>7, <1>8 DEF ReaderInv

\* The reader that waits for a query.
LEMMA ReaderAt ==
    ASSUME ReadBackInv, NEW k \in 1 .. 12, reader.pc = Stages[k]
    PROVE  Now /\ ReaderInv(reader, k) /\ Serving /\ reader # NoReader
<1>1. reader # NoReader
  BY PlacesDiffer DEF NoReader
<1>2. PICK j \in 1 .. 12 : reader.pc = Stages[j] /\ ReaderInv(reader, j)
  BY <1>1 DEF ReadBackInv
<1>3. j = k
  BY <1>2, PlacesDiffer
<1> QED BY <1>1, <1>2, <1>3 DEF ReadBackInv, Now

LEMMA QuerySent ==
    ASSUME ReadBackInv, NEW k \in 1 .. 11, NEW next, reader.pc = Stages[k], ReaderInv(next, k + 1),
           reader' = From(Stages[k], next),
           UNCHANGED <<db, registered, changes, commits, snap, fallback, carried, skipped>>
    PROVE  ReadBackInv'
<1>1. Now /\ Serving
  BY ReaderAt
<1>2. PICK new : new = reader'
  OBVIOUS
<1>3. PICK j \in 1 .. 12 : new.pc = Stages[j] /\ ReaderInv(new, j)
  <2>1. k \in 0 .. 11 /\ Stages[k] = IF k = 0 THEN "start" ELSE Stages[k]
    OBVIOUS
  <2>2. \E j \in 1 .. 12 : From(Stages[k], next).pc = Stages[j] /\ ReaderInv(From(Stages[k], next), j)
    BY <1>1, <2>1, NextPlace
  <2> QED BY <1>2, <2>2
<1>4. ReaderInv(new, j)'
  BY <1>3, UnmovedReader DEF Unmoved
<1>5. reader'.pc = Stages[j] /\ ReaderInv(reader, j)' /\ reader' # NoReader
  BY <1>2, <1>3, <1>4, PlacesDiffer DEF NoReader
<1>6. /\ ReadBackConstants /\ (~ObjectIdsMove => OneNodeEach(carried)) /\ TablesInv /\ ViewInv
      /\ (\A cs \in changes : KeysInv(cs)) /\ FallbackNeedsARace
  BY DEF ReadBackInv
<1>7. TablesInv' /\ (~ObjectIdsMove => OneNodeEach(carried')) /\ FallbackNeedsARace' /\ Serving'
  BY <1>1, <1>6 DEF TablesInv, FallbackNeedsARace, Serving
<1>8. ViewInv'
  BY <1>6 DEF ViewInv, NodeBorn, EdgeBorn, ViewNode, ViewEdge
<1>9. \A cs \in changes' : KeysInv(cs)'
  BY <1>6 DEF KeysInv, Placed
<1> QED BY <1>5, <1>6, <1>7, <1>8, <1>9 DEF ReadBackInv

\* readBackNodesByID over the keys, the candidates and the ends found: each finds what it is asked for.
LEMMA NodeQueries ==
    ASSUME ReadBackInv, ReadNodesByID \/ RereadCandidateNodes \/ RereadEndpoints
    PROVE  ReadBackInv'
<1>1. ASSUME NEW k \in {1, 7, 11}, NEW ids, reader.pc = Stages[k], reader' = From(Stages[k], ReadNodes(reader, ids)),
             UNCHANGED <<db, registered, changes, commits, snap, fallback, carried, skipped>>,
             \A n \in ids : n \in NodeIds /\ db.nodes[n] # Unborn,
             k = 1 => reader.cs.nodes \subseteq ids,
             k = 7 => CandidateNodes(reader) \subseteq AnsweredNodes(reader) \cup ids
      PROVE  ReadBackInv'
  <2>1. k \in 1 .. 12 /\ k \in 1 .. 11 /\ k \in {1, 2, 7, 11}
    OBVIOUS
  <2>2. Now /\ ReaderInv(reader, k)
    BY <1>1, <2>1, ReaderAt
  <2>3. PICK r : r = reader
    OBVIOUS
  <2>4. PICK next : next = ReadNodes(r, ids)
    OBVIOUS
  <2>5. ReadInv(r) /\ TablesInv
    BY <2>2, <2>3 DEF ReaderInv, Now
  <2>6. /\ MoreRead(r, next) /\ AnsweredNodes(next) = AnsweredNodes(r) \cup ids
        /\ \A f \in ReaderFields \ {"nodes", "absentNodes"} : next[f] = r[f]
    BY <1>1, <2>4, <2>5, NodesReadById
  <2>7. Only(r, next, {"nodes", "absentNodes", "oidToIDs"}) /\ next.oidToIDs = r.oidToIDs
    BY <2>6 DEF Only, ReaderFields
  <2>8. ReaderInv(next, k + 1)
    BY <1>1, <2>1, <2>2, <2>3, <2>6, <2>7, NodePlace
  <2>9. reader' = From(Stages[k], next)
    BY <1>1, <2>3, <2>4
  <2> QED BY <1>1, <2>1, <2>8, <2>9, QuerySent
<1>2. CASE ReadNodesByID
  <2>1. reader.pc = Stages[1] /\ reader' = From(Stages[1], ReadNodes(reader, reader.cs.nodes))
        /\ UNCHANGED <<db, registered, changes, commits, snap, fallback, carried, skipped>>
    BY <1>2, Places DEF ReadNodesByID, Step
  <2>2. ReaderInv(reader, 1)
    BY <2>1, ReaderAt
  <2>3. \A n \in reader.cs.nodes : n \in NodeIds /\ db.nodes[n] # Unborn
    BY <2>2 DEF ReaderInv, ReadInv, KeysInv
  <2> QED BY <1>1, <2>1, <2>3
<1>3. CASE RereadCandidateNodes
  <2> DEFINE ids == UnansweredNodes(reader, CandidateNodes(reader))
  <2>1. reader.pc = Stages[7] /\ reader' = From(Stages[7], ReadNodes(reader, ids))
        /\ UNCHANGED <<db, registered, changes, commits, snap, fallback, carried, skipped>>
    BY <1>3, Places DEF RereadCandidateNodes, Step
  <2>2. \A n \in ids : n \in NodeIds /\ db.nodes[n] # Unborn
    <3>1. ViewInv
      BY DEF ReadBackInv
    <3>2. \A n \in ids : ViewNode(n) # Tombstone
      BY <3>1, Candidates DEF UnansweredNodes
    <3> QED BY <3>1, <3>2, ViewBorn DEF NodeBorn
  <2>3. CandidateNodes(reader) \subseteq AnsweredNodes(reader) \cup ids
    BY DEF UnansweredNodes, AnsweredNodes
  <2> HIDE DEF ids
  <2> QED BY <1>1, <2>1, <2>2, <2>3
<1>4. CASE RereadEndpoints
  <2> DEFINE ids == UnansweredNodes(reader, reader.discovered)
  <2>1. reader.pc = Stages[11] /\ reader' = From(Stages[11], ReadNodes(reader, ids))
        /\ UNCHANGED <<db, registered, changes, commits, snap, fallback, carried, skipped>>
    BY <1>4, Places DEF RereadEndpoints, Step
  <2>2. ReaderInv(reader, 11)
    BY <2>1, ReaderAt
  <2>3. \A n \in ids : n \in NodeIds /\ db.nodes[n] # Unborn
    BY <2>2 DEF ReaderInv, ReadInv, UnansweredNodes
  <2> HIDE DEF ids
  <2> QED BY <1>1, <2>1, <2>3
<1> QED BY <1>2, <1>3, <1>4

\* readBackEdgesByID over the keys and the candidates.
LEMMA EdgeQueries ==
    ASSUME ReadBackInv, ReadEdgesByID \/ RereadCandidateEdges
    PROVE  ReadBackInv'
<1>1. ASSUME NEW k \in {3, 8}, NEW ids, reader.pc = Stages[k], reader' = From(Stages[k], ReadEdges(reader, ids)),
             UNCHANGED <<db, registered, changes, commits, snap, fallback, carried, skipped>>,
             \A e \in ids : e \in EdgeIds /\ db.edges[e] # Unborn,
             k = 3 => reader.cs.edges \subseteq ids,
             k = 8 => CandidateEdges(reader) \subseteq AnsweredEdges(reader) \cup ids
      PROVE  ReadBackInv'
  <2>1. k \in 1 .. 12 /\ k \in 1 .. 11 /\ k \in {3, 5, 8} /\ k # 5
    OBVIOUS
  <2>2. Now /\ ReaderInv(reader, k)
    BY <1>1, <2>1, ReaderAt
  <2>3. PICK r : r = reader
    OBVIOUS
  <2>4. PICK next : next = ReadEdges(r, ids)
    OBVIOUS
  <2>5. ReadInv(r) /\ TablesInv
    BY <2>2, <2>3 DEF ReaderInv, Now
  <2>6. /\ MoreRead(r, next) /\ AnsweredEdges(next) = AnsweredEdges(r) \cup ids
        /\ \A f \in ReaderFields \ {"edges", "absentEdges"} : next[f] = r[f]
    BY <1>1, <2>4, <2>5, EdgesReadById
  <2>7. Only(r, next, {"edges", "absentEdges", "asked", "absentTriples"}) /\ next.asked = r.asked
    BY <2>6 DEF Only, ReaderFields
  <2>8. ReaderInv(next, k + 1)
    BY <1>1, <2>1, <2>2, <2>3, <2>6, <2>7, EdgePlace
  <2>9. reader' = From(Stages[k], next)
    BY <1>1, <2>3, <2>4
  <2> QED BY <1>1, <2>1, <2>8, <2>9, QuerySent
<1>2. CASE ReadEdgesByID
  <2>1. reader.pc = Stages[3] /\ reader' = From(Stages[3], ReadEdges(reader, reader.cs.edges))
        /\ UNCHANGED <<db, registered, changes, commits, snap, fallback, carried, skipped>>
    BY <1>2, Places DEF ReadEdgesByID, Step
  <2>2. ReaderInv(reader, 3)
    BY <2>1, ReaderAt
  <2>3. \A e \in reader.cs.edges : e \in EdgeIds /\ db.edges[e] # Unborn
    BY <2>2 DEF ReaderInv, ReadInv, KeysInv
  <2> QED BY <1>1, <2>1, <2>3
<1>3. CASE RereadCandidateEdges
  <2> DEFINE ids == UnansweredEdges(reader, CandidateEdges(reader))
  <2>1. reader.pc = Stages[8] /\ reader' = From(Stages[8], ReadEdges(reader, ids))
        /\ UNCHANGED <<db, registered, changes, commits, snap, fallback, carried, skipped>>
    BY <1>3, Places DEF RereadCandidateEdges, Step
  <2>2. \A e \in ids : e \in EdgeIds /\ db.edges[e] # Unborn
    <3>1. ViewInv
      BY DEF ReadBackInv
    <3>2. \A e \in ids : ViewEdge(e) # Tombstone
      BY <3>1, EdgeCandidates DEF UnansweredEdges
    <3> QED BY <3>1, <3>2, ViewBorn, RowsAndMarks DEF EdgeBorn
  <2>3. CandidateEdges(reader) \subseteq AnsweredEdges(reader) \cup ids
    BY DEF UnansweredEdges, AnsweredEdges
  <2> HIDE DEF ids
  <2> QED BY <1>1, <2>1, <2>2, <2>3
<1> QED BY <1>2, <1>3

\* resolveKindIDs: the kinds of an edge that landed are registered.
LEMMA KindQueries ==
    ASSUME ReadBackInv, ResolveTripleKinds \/ ResolveCriteriaKinds
    PROVE  ReadBackInv'
<1>1. CASE ResolveTripleKinds
  <2>1. PICK r : r = reader
    OBVIOUS
  <2>2. PICK next : next = [r EXCEPT !.tripleKinds = Resolved(TripleKinds(r.cs))]
    OBVIOUS
  <2>3. r.pc = Stages[4] /\ reader' = From(Stages[4], next)
        /\ UNCHANGED <<db, registered, changes, commits, snap, fallback, carried, skipped>>
    BY <1>1, <2>1, <2>2, Places DEF ResolveTripleKinds, Step
  <2>4. Now /\ ReaderInv(r, 4)
    BY <2>1, <2>3, ReaderAt
  <2>5. DOMAIN r = ReaderFields /\ KeysInv(r.cs)
    BY <2>4 DEF ReaderInv, ReadInv
  <2>6. /\ DOMAIN next = ReaderFields /\ Only(r, next, {"tripleKinds", "criteriaKinds"})
        /\ next.tripleKinds = Resolved(TripleKinds(r.cs))
    BY <2>2, <2>5 DEF Only, ReaderFields
  <2>7. Landed(r.cs) => TripleKinds(r.cs) \subseteq next.tripleKinds
    BY <2>5, <2>6 DEF KeysInv, Resolved
  <2>8. 4 \in {4, 6} /\ 4 \in 1 .. 11
    OBVIOUS
  <2>9. ReaderInv(next, 4 + 1)
    BY <2>4, <2>6, <2>7, <2>8, KindPlace
  <2> QED BY <2>1, <2>3, <2>8, <2>9, QuerySent
<1>2. CASE ResolveCriteriaKinds
  <2>1. PICK r : r = reader
    OBVIOUS
  <2>2. PICK next : next = [r EXCEPT !.criteriaKinds = Resolved(CriteriaKinds(r.cs))]
    OBVIOUS
  <2>3. r.pc = Stages[6] /\ reader' = From(Stages[6], next)
        /\ UNCHANGED <<db, registered, changes, commits, snap, fallback, carried, skipped>>
    BY <1>2, <2>1, <2>2, Places DEF ResolveCriteriaKinds, Step
  <2>4. Now /\ ReaderInv(r, 6)
    BY <2>1, <2>3, ReaderAt
  <2>5. DOMAIN r = ReaderFields
    BY <2>4 DEF ReaderInv, ReadInv
  <2>6. /\ DOMAIN next = ReaderFields /\ Only(r, next, {"tripleKinds", "criteriaKinds"})
        /\ next.tripleKinds = r.tripleKinds
    BY <2>2, <2>5 DEF Only, ReaderFields
  <2>7. 6 \in {4, 6} /\ 6 \in 1 .. 11
    OBVIOUS
  <2>8. ReaderInv(next, 6 + 1)
    BY <2>4, <2>6, <2>7, KindPlace
  <2> QED BY <2>1, <2>3, <2>7, <2>8, QuerySent
<1> QED BY <1>1, <1>2

\* readBackNodesByObjectID: every node that carries one of the object ids.
LEMMA ObjectIdQuery ==
    ASSUME ReadBackInv, ReadNodesByObjectID
    PROVE  ReadBackInv'
<1>1. PICK r : r = reader
  OBVIOUS
<1>2. PICK to : to = [oid \in r.cs.oids |-> NodesUnder(db.nodes, oid)]
  OBVIOUS
<1>3. PICK found : found = Found(db.nodes, UNION Range(to))
  OBVIOUS
<1>4. PICK next : next = [r EXCEPT !.nodes = Over(found, @), !.oidToIDs = to]
  OBVIOUS
<1>5. r.pc = Stages[2] /\ reader' = From(Stages[2], next)
      /\ UNCHANGED <<db, registered, changes, commits, snap, fallback, carried, skipped>>
  BY <1>1, <1>2, <1>3, <1>4, Places DEF ReadNodesByObjectID, Step
<1>6. Now /\ ReaderInv(r, 2)
  BY <1>1, <1>5, ReaderAt
<1>7. DOMAIN r = ReaderFields /\ KeysInv(r.cs) /\ TablesInv /\ ReadInv(r)
  BY <1>6 DEF ReaderInv, ReadInv, Now
<1>8. /\ DOMAIN next = ReaderFields /\ Only(r, next, {"nodes", "absentNodes", "oidToIDs"})
      /\ next.nodes = Over(found, r.nodes) /\ next.oidToIDs = to /\ next.absentNodes = r.absentNodes
  BY <1>4, <1>7 DEF Only, ReaderFields
<1>9. /\ next.cs = r.cs /\ next.edges = r.edges /\ next.absentEdges = r.absentEdges
      /\ next.absentTriples = r.absentTriples /\ next.discovered = r.discovered
  BY <1>8 DEF Only, ReaderFields
<1>10. /\ DOMAIN to = r.cs.oids
       /\ \A o \in r.cs.oids : \A n : n \in to[o] <=> Live(db.nodes, n) /\ db.nodes[n].oid = o
  BY <1>2, UnderMeans
<1>11. \A n : n \in UNION Range(to) <=> Live(db.nodes, n) /\ db.nodes[n].oid \in r.cs.oids
  BY <1>10 DEF Range
<1>12. /\ \A n : n \in DOMAIN found <=> Live(db.nodes, n) /\ db.nodes[n].oid \in r.cs.oids
       /\ \A n \in DOMAIN found : found[n] = db.nodes[n]
  BY <1>3, <1>11, FoundRows
<1>13. /\ DOMAIN next.nodes = DOMAIN found \cup DOMAIN r.nodes
       /\ \A n \in DOMAIN found : next.nodes[n] = db.nodes[n]
       /\ \A n \in DOMAIN r.nodes \ DOMAIN found : next.nodes[n] = r.nodes[n]
  BY <1>8, <1>12 DEF Over
<1>14. \A o \in r.cs.oids : \A n \in to[o] : n \in DOMAIN next.nodes /\ <<o, n>> \in carried
  <2> SUFFICES ASSUME NEW o \in r.cs.oids, NEW n \in to[o]  PROVE n \in DOMAIN next.nodes /\ <<o, n>> \in carried
    OBVIOUS
  <2>1. Live(db.nodes, n) /\ db.nodes[n].oid = o /\ o # NoOID
    BY <1>7, <1>10 DEF KeysInv
  <2> QED BY <1>7, <1>12, <1>13, <2>1, FreshNode
<1>15. MoreRead(r, next)
  <2>1. DOMAIN next.oidToIDs = r.cs.oids /\ \A o \in r.cs.oids : next.oidToIDs[o] = to[o]
    BY <1>8, <1>10
  <2> QED BY <1>7, <1>8, <1>9, <1>12, <1>13, <1>14, <2>1 DEF MoreRead, ReadInv
<1>16. \A n : Live(db.nodes, n) /\ db.nodes[n].oid \in r.cs.oids => n \in AnsweredNodes(next)
  BY <1>12, <1>13 DEF AnsweredNodes
<1>17. ASSUME Quiet(r.cs)  PROVE Deferred(next) = {}
  <2> SUFFICES ASSUME NEW t \in r.cs.oidTriples  PROVE to[t.start] # {} /\ to[t.end] # {}
    BY <1>8, <1>9 DEF Deferred
  <2>1. t.start \in r.cs.oids /\ t.end \in r.cs.oids /\ NodesUnder(db.nodes, t.start) # {} /\ NodesUnder(db.nodes, t.end) # {}
    BY <1>7, <1>17 DEF KeysInv, Placed
  <2> QED BY <1>2, <2>1
<1>18. 2 \in {1, 2, 7, 11} /\ 2 \in 1 .. 11
  OBVIOUS
<1>19. ReaderInv(next, 2 + 1)
  BY <1>6, <1>8, <1>15, <1>16, <1>17, <1>18, NodePlace
<1> QED BY <1>1, <1>5, <1>18, <1>19, QuerySent

\* readBackEdgesByTriple, for the keys and for the re-keyed.
LEMMA TripleQueries ==
    ASSUME ReadBackInv, ReadEdgesByTriple \/ ReadRekeyedTriples
    PROVE  ReadBackInv'
<1>1. \A starts, ends, k : \A t \in Pairs(starts, ends, k) : IsEdge(t)
  BY DEF Pairs, IsEdge
<1>2. CASE ReadEdgesByTriple
  <2>1. PICK r : r = reader
    OBVIOUS
  <2>2. PICK keys : keys = KeyedTriples(r)
    OBVIOUS
  <2>3. PICK next : next = ReadTriples(r, keys)
    OBVIOUS
  <2>4. r.pc = Stages[5] /\ reader' = From(Stages[5], next)
        /\ UNCHANGED <<db, registered, changes, commits, snap, fallback, carried, skipped>>
    BY <1>2, <2>1, <2>2, <2>3, Places DEF ReadEdgesByTriple, Step
  <2>5. Now /\ ReaderInv(r, 5)
    BY <2>1, <2>4, ReaderAt
  <2>6. ReadInv(r) /\ TablesInv /\ ViewInv
    BY <2>5 DEF ReaderInv, Now
  <2>7. \A t \in keys : IsEdge(t)
    BY <1>1, <2>2, <2>6 DEF KeyedTriples, ReadInv, KeysInv
  <2>8. /\ MoreRead(r, next)
        /\ \A e : Live(db.edges, e) /\ db.edges[e] \in keys /\ db.edges[e].kind \in r.tripleKinds => e \in DOMAIN next.edges
        /\ \A e \in EdgeIds \ AnsweredEdges(next) : PgEdge(e) \in next.asked => PgEdge(e) \in r.asked
        /\ \A f \in ReaderFields \ {"edges", "asked", "absentTriples"} : next[f] = r[f]
    BY <2>3, <2>6, <2>7, TriplesRead
  <2>9. Only(r, next, {"edges", "absentEdges", "asked", "absentTriples"})
    BY <2>8 DEF Only
  <2>10. \A e : Live(db.edges, e) /\ db.edges[e] \in KeyedTriples(r) /\ db.edges[e].kind \in r.tripleKinds
                  => e \in AnsweredEdges(next)
    BY <2>2, <2>8 DEF AnsweredEdges
  <2>11. 5 \in {3, 5, 8} /\ 5 \in 1 .. 11
    OBVIOUS
  <2>12. ReaderInv(next, 5 + 1)
    BY <2>5, <2>8, <2>9, <2>10, <2>11, EdgePlace
  <2> QED BY <2>1, <2>4, <2>11, <2>12, QuerySent
<1>3. CASE ReadRekeyedTriples
  <2>1. PICK r : r = reader
    OBVIOUS
  <2>2. PICK keys : keys = RekeyedTriples(r)
    OBVIOUS
  <2>3. PICK read : read = ReadTriples(r, keys)
    OBVIOUS
  <2>4. PICK next : next = [read EXCEPT !.fanouts = Fanouts(r, "start") \cup Fanouts(r, "end"),
                                        !.unnameable = Unnameable(r) # {}]
    OBVIOUS
  <2>5. r.pc = Stages[9] /\ reader' = From(Stages[9], next)
        /\ UNCHANGED <<db, registered, changes, commits, snap, fallback, carried, skipped>>
    BY <1>3, <2>1, <2>2, <2>3, <2>4, Places DEF ReadRekeyedTriples, Step
  <2>6. Now /\ ReaderInv(r, 9)
    BY <2>1, <2>5, ReaderAt
  <2>7. ReadInv(r) /\ TablesInv /\ ViewInv
    BY <2>6 DEF ReaderInv, Now
  <2>8. \A t \in keys : IsEdge(t)
    BY <1>1, <2>2 DEF RekeyedTriples
  <2>9. /\ MoreRead(r, read)
        /\ \A e : Live(db.edges, e) /\ db.edges[e] \in keys /\ db.edges[e].kind \in r.tripleKinds => e \in DOMAIN read.edges
        /\ \A e \in EdgeIds \ AnsweredEdges(read) : PgEdge(e) \in read.asked => PgEdge(e) \in r.asked
        /\ \A f \in ReaderFields \ {"edges", "asked", "absentTriples"} : read[f] = r[f]
    BY <2>3, <2>7, <2>8, TriplesRead
  <2>10. DOMAIN read = ReaderFields
    BY <2>9 DEF MoreRead
  <2>11. /\ DOMAIN next = ReaderFields /\ next.fanouts = Fanouts(r, "start") \cup Fanouts(r, "end")
         /\ (next.unnameable <=> Unnameable(r) # {})
         /\ \A f \in ReaderFields \ {"fanouts", "unnameable"} : next[f] = read[f]
    BY <2>4, <2>10 DEF ReaderFields
  <2>12. /\ next.cs = read.cs /\ next.nodes = read.nodes /\ next.absentNodes = read.absentNodes
         /\ next.edges = read.edges /\ next.absentEdges = read.absentEdges /\ next.absentTriples = read.absentTriples
         /\ next.oidToIDs = read.oidToIDs /\ next.discovered = read.discovered /\ next.asked = read.asked
    BY <2>11 DEF ReaderFields
  <2>13. MoreRead(r, next) /\ AnsweredEdges(next) = AnsweredEdges(read)
    BY <2>9, <2>11, <2>12 DEF MoreRead, AnsweredEdges
  <2>14. Only(r, next, {"edges", "asked", "absentTriples", "fanouts", "unnameable"})
    BY <2>9, <2>11 DEF Only
  <2>15. /\ \A e \in EdgeIds \ AnsweredEdges(next) : PgEdge(e) \in next.asked => PgEdge(e) \in r.asked
         /\ \A e : Live(db.edges, e) /\ db.edges[e] \in RekeyedTriples(r) /\ db.edges[e].kind \in r.tripleKinds
                     => e \in AnsweredEdges(next)
    BY <2>2, <2>9, <2>12, <2>13 DEF AnsweredEdges
  <2>16. ReaderInv(next, 10)
    BY <2>6, <2>11, <2>13, <2>14, <2>15, RekeyedPlace
  <2>17. 9 \in 1 .. 11 /\ 9 + 1 = 10
    OBVIOUS
  <2> QED BY <2>1, <2>5, <2>16, <2>17, QuerySent
<1> QED BY <1>2, <1>3

\* readBackEdgesByEndpoint: every edge of a group, or the group is over the cap.
LEMMA FanoutQuery ==
    ASSUME ReadBackInv, ReadFanouts
    PROVE  ReadBackInv'
<1>1. PICK r : r = reader
  OBVIOUS
<1>2. PICK within : within = {f \in r.fanouts : Cardinality(FanoutEdges(f)) <= FanoutCap}
  OBVIOUS
<1>3. PICK rows : rows = Found(db.edges, UNION {FanoutEdges(f) : f \in within})
  OBVIOUS
<1>4. PICK next : next = [r EXCEPT !.edges = Over(rows, @), !.overCap = within # r.fanouts,
                                   !.discovered = UNION {{rows[e].start, rows[e].end} : e \in DOMAIN rows}]
  OBVIOUS
<1>5. r.pc = Stages[10] /\ reader' = From(Stages[10], next)
      /\ UNCHANGED <<db, registered, changes, commits, snap, fallback, carried, skipped>>
  BY <1>1, <1>2, <1>3, <1>4, Places DEF ReadFanouts, Step
<1>6. Now /\ ReaderInv(r, 10)
  BY <1>1, <1>5, ReaderAt
<1>7. DOMAIN r = ReaderFields /\ TablesInv /\ ReadInv(r)
  BY <1>6 DEF ReaderInv, ReadInv, Now
<1>8. /\ DOMAIN next = ReaderFields /\ Only(r, next, {"edges", "overCap", "discovered"})
      /\ next.edges = Over(rows, r.edges) /\ (next.overCap <=> within # r.fanouts)
      /\ next.discovered = UNION {{rows[e].start, rows[e].end} : e \in DOMAIN rows}
  BY <1>4, <1>7 DEF Only, ReaderFields
<1>9. /\ next.cs = r.cs /\ next.nodes = r.nodes /\ next.absentNodes = r.absentNodes /\ next.absentEdges = r.absentEdges
      /\ next.absentTriples = r.absentTriples /\ next.oidToIDs = r.oidToIDs
  BY <1>8 DEF Only, ReaderFields
<1>10. \A e, f : e \in FanoutEdges(f) <=> Live(db.edges, e) /\ Meets(f, db.edges[e])
  BY LiveRows DEF FanoutEdges, Meets
<1>11. /\ \A e : e \in DOMAIN rows <=> Live(db.edges, e) /\ \E f \in within : e \in FanoutEdges(f)
       /\ \A e \in DOMAIN rows : rows[e] = db.edges[e]
  BY <1>3, FoundRows
<1>12. /\ DOMAIN next.edges = DOMAIN rows \cup DOMAIN r.edges
       /\ \A e \in DOMAIN rows : next.edges[e] = db.edges[e]
       /\ \A e \in DOMAIN r.edges \ DOMAIN rows : next.edges[e] = r.edges[e]
  BY <1>8, <1>11 DEF Over
<1>13. \A n \in next.discovered : n \in NodeIds /\ db.nodes[n] # Unborn
  <2> SUFFICES ASSUME NEW e \in DOMAIN rows, NEW n \in {rows[e].start, rows[e].end}
               PROVE  n \in NodeIds /\ db.nodes[n] # Unborn
    BY <1>8
  <2>1. Live(db.edges, e) /\ rows[e] = db.edges[e] /\ e \in EdgeIds
    BY <1>7, <1>11 DEF Live, TablesInv
  <2>2. Live(db.nodes, n)
    BY <1>7, <2>1 DEF TablesInv
  <2> QED BY <1>7, <2>2 DEF Live, TablesInv
<1>14. MoreRead(r, next)
  BY <1>7, <1>8, <1>9, <1>11, <1>12, <1>13 DEF MoreRead, ReadInv
<1>15. r.fanouts = {} => ~next.overCap
  BY <1>2, <1>8
<1>16. ASSUME NEW e, NEW f, Live(db.edges, e), f \in r.fanouts, Meets(f, db.edges[e]), ~next.overCap
       PROVE  e \in AnsweredEdges(next)
  BY <1>8, <1>10, <1>11, <1>12, <1>16 DEF AnsweredEdges
<1>17. ReaderInv(next, 11)
  BY <1>6, <1>8, <1>14, <1>15, <1>16, FanoutPlace
<1>18. 10 \in 1 .. 11 /\ 10 + 1 = 11
  OBVIOUS
<1> QED BY <1>1, <1>5, <1>17, <1>18, QuerySent
-----------------------------------------------------------------------------
(***************************************************************************)
(* An apply begins.  What its change set excused is now asked for.          *)
(***************************************************************************)

\* From the start of a read-back its first query is waited for, in every state.
StartKeeps ==
    Now => \A r : ReaderInv(r, 1) =>
             \E k \in 1 .. 12 : From("start", r).pc = Stages[k] /\ ReaderInv(From("start", r), k)
LEMMA StartIsKept == StartKeeps
<1> SUFFICES ASSUME Now, NEW r, ReaderInv(r, 1)
             PROVE  \E k \in 1 .. 12 : From("start", r).pc = Stages[k] /\ ReaderInv(From("start", r), k)
  BY DEF StartKeeps
<1>1. 0 \in 0 .. 11 /\ "start" = (IF 0 = 0 THEN "start" ELSE Stages[0]) /\ 0 + 1 = 1
  OBVIOUS
<1> QED BY <1>1, NextPlace
LEMMA StartIsKeptNext == StartKeeps'
BY StartIsKept, PTL

\* The database and the view stay while a change set is taken.
Taken(cs) == changes' = changes \ {cs} /\ UNCHANGED <<db, registered, snap, carried, skipped>>

LEMMA TakenKeeps ==
    ASSUME ReadBackInv, NEW cs, Taken(cs)
    PROVE  /\ TablesInv' /\ ViewInv' /\ (~ObjectIdsMove => OneNodeEach(carried'))
           /\ \A c \in changes' : KeysInv(c)'
           /\ \A c : KeysInv(c) => KeysInv(c)'
           /\ \A n : ViewNode(n)' = ViewNode(n) /\ PgNode(n)' = PgNode(n)
           /\ \A e : ViewEdge(e)' = ViewEdge(e) /\ PgEdge(e)' = PgEdge(e)
<1>1. /\ db' = db /\ registered' = registered /\ snap' = snap /\ carried' = carried /\ changes' \subseteq changes
  BY DEF Taken
<1>2. /\ TablesInv /\ ViewInv /\ (~ObjectIdsMove => OneNodeEach(carried)) /\ \A c \in changes : KeysInv(c)
  BY DEF ReadBackInv
<1>3. \A c : KeysInv(c) => KeysInv(c)'
  BY <1>1 DEF KeysInv, Placed
<1>4. TablesInv'
  BY <1>1, <1>2 DEF TablesInv
<1>5. ViewInv'
  BY <1>1, <1>2 DEF ViewInv, NodeBorn, EdgeBorn, ViewNode, ViewEdge
<1>6. /\ \A n : ViewNode(n)' = ViewNode(n) /\ PgNode(n)' = PgNode(n)
      /\ \A e : ViewEdge(e)' = ViewEdge(e) /\ PgEdge(e)' = PgEdge(e)
  BY <1>1 DEF ViewNode, ViewEdge, PgNode, PgEdge
<1> QED BY <1>1, <1>2, <1>3, <1>4, <1>5, <1>6

\* What was excused still is, or the change set that was taken names it.
LEMMA NodeTaken ==
    ASSUME NEW cs, Taken(cs), ~cs.opaque, NEW n, NEW row, NodeExcused(n, row)
    PROVE  \/ NodeExcused(n, row)'
           \/ /\ NodeNamed(cs, n, row, PgNode(n))
              /\ Rekeyed(row, PgNode(n)) => NamedById(n)' \/ n \in cs.nodes
<1>1. db' = db /\ changes' = changes \ {cs} /\ PgNode(n)' = PgNode(n)
  BY DEF Taken, PgNode
<1>2. Rekeyed(row, PgNode(n)) => NamedById(n)' \/ n \in cs.nodes
  BY <1>1 DEF NodeExcused, NamedById
<1>3. CASE row = PgNode(n)
  BY <1>1, <1>3 DEF NodeExcused, Rekeyed
<1>4. CASE NodeNamed(cs, n, row, PgNode(n))
  BY <1>2, <1>4
<1>5. CASE \E c \in changes \ {cs} : NodeNamed(c, n, row, PgNode(n))
  <2>1. CASE n \in cs.nodes
    BY <1>2, <2>1 DEF NodeNamed
  <2>2. CASE n \notin cs.nodes
    BY <1>1, <1>2, <1>5, <2>2 DEF NodeExcused
  <2> QED BY <2>1, <2>2
<1> QED BY <1>3, <1>4, <1>5 DEF NodeExcused

LEMMA EdgeTaken ==
    ASSUME NEW cs, Taken(cs), NEW e, NEW row, EdgeExcused(e, row)
    PROVE  EdgeExcused(e, row)' \/ EdgeNamed(cs, e, row, PgEdge(e))
<1>1. /\ db' = db /\ changes' = changes \ {cs} /\ carried' = carried /\ skipped' = skipped
      /\ PgEdge(e)' = PgEdge(e) /\ \A n : Buried(n)' <=> Buried(n)
  BY DEF Taken, PgEdge, Buried
<1>2. CASE \E c \in changes \ {cs} : EdgeNamed(c, e, row, PgEdge(e))
  BY <1>1, <1>2 DEF EdgeExcused, EdgeNamed, Means
<1>3. CASE EdgeNamed(cs, e, row, PgEdge(e))
  BY <1>3
<1>4. CASE ~\E c \in changes : EdgeNamed(c, e, row, PgEdge(e))
  BY <1>1, <1>4 DEF EdgeExcused
<1> QED BY <1>2, <1>3, <1>4

LEMMA EmptyNames ==
    ASSUME NEW cs, DOMAIN cs = DOMAIN NoKeys, EmptyChanges(cs)
    PROVE  /\ cs.nodes = {} /\ cs.oids = {} /\ cs.edges = {} /\ cs.triples = {} /\ cs.oidTriples = {}
           /\ cs.nodeCriteria = {} /\ cs.edgeCriteria = {}
<1> DEFINE Fields == {"nodes", "oids", "edges", "triples", "oidTriples", "nodeCriteria", "edgeCriteria"}
<1>1. \A f \in Fields : cs[f] = NoKeys[f]
  BY DEF EmptyChanges, Names
<1> QED BY <1>1, NoKeysFields

\* A read-back that begins asks for all that its change set names.
LEMMA BeginsRight ==
    ASSUME ReadBackInv, NEW cs \in changes, Serving, reader = NoReader, Taken(cs), ~cs.opaque,
           reader' = BeginReadBack(cs), fallback' = fallback
    PROVE  ReadBackInv'
<1>1. /\ TablesInv' /\ ViewInv' /\ (~ObjectIdsMove => OneNodeEach(carried')) /\ (\A c \in changes' : KeysInv(c)')
      /\ KeysInv(cs)'
      /\ \A n : ViewNode(n)' = ViewNode(n) /\ PgNode(n)' = PgNode(n)
      /\ \A e : ViewEdge(e)' = ViewEdge(e) /\ PgEdge(e)' = PgEdge(e)
  BY TakenKeeps DEF ReadBackInv
<1>2. PICK r : r = [pc |-> "start", cs |-> cs, nodes |-> Empty, edges |-> Empty,
                   absentNodes |-> {}, absentEdges |-> {}, absentTriples |-> {}, oidToIDs |-> [oid \in cs.oids |-> {}],
                   tripleKinds |-> TripleKinds(cs) \cap KindTable(snap),
                   criteriaKinds |-> CriteriaKinds(cs) \cap KindTable(snap),
                   asked |-> {}, fanouts |-> {}, discovered |-> {}, unnameable |-> FALSE, overCap |-> FALSE]
  OBVIOUS
<1>3. /\ DOMAIN r = ReaderFields /\ r.cs = cs /\ r.nodes = Empty /\ r.edges = Empty /\ r.absentNodes = {}
      /\ r.absentEdges = {} /\ r.absentTriples = {} /\ r.asked = {} /\ r.fanouts = {} /\ r.discovered = {}
      /\ ~r.unnameable /\ ~r.overCap /\ DOMAIN r.oidToIDs = cs.oids /\ \A o \in cs.oids : r.oidToIDs[o] = {}
  BY <1>2 DEF ReaderFields
<1>4. DOMAIN Empty = {}
  BY DEF Empty
<1>5. AnsweredNodes(r) = {} /\ AnsweredEdges(r) = {}
  BY <1>3, <1>4 DEF AnsweredNodes, AnsweredEdges
<1>6. ReadInv(r)'
  BY <1>1, <1>3, <1>4 DEF ReadInv
<1>7. RaceInv(r, 1)
  BY <1>3 DEF RaceInv
<1>8. ASSUME ~ObjectIdsMove  PROVE LeftInv(r, 1)'
  <2>1. ASSUME NEW n \in NodeIds  PROVE NodeExcused(n, ViewNode(n))' \/ NodeAsked(r, 1, n, ViewNode(n))'
    <3>1. PICK row : row = ViewNode(n)
      OBVIOUS
    <3>2. PICK now : now = PgNode(n)
      OBVIOUS
    <3>3. row = ViewNode(n)' /\ now = PgNode(n)' /\ NodeExcused(n, row)
      BY <1>1, <1>8, <3>1, <3>2 DEF ReadBackInv
    <3>4. CASE NodeNamed(cs, n, row, now) /\ (Rekeyed(row, now) => NamedById(n)' \/ n \in cs.nodes)
      BY <1>3, <3>3, <3>4 DEF NodeNamed, NodeAsked
    <3> QED BY <3>2, <3>3, <3>4, NodeTaken
  <2>2. ASSUME NEW e \in EdgeIds  PROVE EdgeExcused(e, ViewEdge(e))' \/ EdgeAsked(r, 1, e, ViewEdge(e))'
    <3>1. PICK row : row = ViewEdge(e)
      OBVIOUS
    <3>2. PICK now : now = PgEdge(e)
      OBVIOUS
    <3>3. row = ViewEdge(e)' /\ now = PgEdge(e)' /\ EdgeExcused(e, row) /\ carried' = carried
      BY <1>1, <1>8, <3>1, <3>2 DEF ReadBackInv, Taken
    <3>4. CASE EdgeNamed(cs, e, row, now)
      <4>1. \A t, x : Awaited(r, 1, t, x)
        BY DEF Awaited
      <4>2. \A t : Means(t, now)' <=> Means(t, now)
        BY <3>3 DEF Means
      <4>3. EdgeAsked(r, 1, e, row)'
        BY <1>3, <3>3, <3>4, <4>1, <4>2 DEF EdgeNamed, EdgeAsked
      <4> QED BY <3>3, <4>3
    <3> QED BY <3>2, <3>3, <3>4, EdgeTaken
  <2>3. KindsKnown(r, 1)
    BY DEF KindsKnown
  <2> QED BY <1>3, <1>5, <2>1, <2>2, <2>3 DEF LeftInv, LeftNodes, LeftEdges
<1>9. ReaderInv(r, 1)'
  BY <1>6, <1>7, <1>8 DEF ReaderInv
<1>10. PICK new : new = reader'
  OBVIOUS
<1>11. new = From("start", r)'
  <2>1. new = From("start", r)
    BY <1>2, <1>10 DEF BeginReadBack
  <2>2. snap' = snap
    BY DEF Taken
  <2>3. ASSUME NEW i  PROVE HasQuery(Stages[i], r)' <=> HasQuery(Stages[i], r)
    BY <2>2 DEF HasQuery, CandidateNodes, CriteriaNodes, CandidateEdges
  <2> QED BY <2>1, <2>3 DEF From
<1>12. Now'
  BY <1>1 DEF Now
<1>13. PICK k \in 1 .. 12 : new.pc = Stages[k] /\ ReaderInv(new, k)'
  BY <1>9, <1>11, <1>12, StartIsKeptNext DEF StartKeeps
<1>14. reader'.pc = Stages[k] /\ ReaderInv(reader, k)' /\ reader' # NoReader
  BY <1>10, <1>13, PlacesDiffer DEF NoReader
<1>15. Serving' /\ FallbackNeedsARace' /\ ReadBackConstants
  BY DEF Serving, FallbackNeedsARace, ReadBackInv
<1> QED BY <1>1, <1>14, <1>15 DEF ReadBackInv

\* Apply: a fallback, a write without a trace, or the begin of a read-back.
LEMMA ApplyKeeps ==
    ASSUME ReadBackInv, StartApply
    PROVE  ReadBackInv'
<1>1. PICK cs \in changes :
        /\ Serving /\ reader = NoReader /\ Taken(cs)
        /\ \/ cs.opaque /\ FallBack("recorded", cs)
           \/ ~cs.opaque /\ EmptyChanges(cs) /\ UNCHANGED <<reader, fallback>>
           \/ ~cs.opaque /\ ~EmptyChanges(cs) /\ reader' = BeginReadBack(cs) /\ UNCHANGED fallback
  BY DEF StartApply, Taken
<1>2. /\ TablesInv' /\ ViewInv' /\ (~ObjectIdsMove => OneNodeEach(carried')) /\ (\A c \in changes' : KeysInv(c)')
      /\ \A n : ViewNode(n)' = ViewNode(n)
      /\ \A e : ViewEdge(e)' = ViewEdge(e)
  BY <1>1, TakenKeeps
<1>3. ReadBackConstants /\ FallbackNeedsARace
  BY DEF ReadBackInv
<1>4. CASE FallBack("recorded", cs)
  <2>1. reader' = NoReader /\ fallback'.cause = "recorded"
    BY <1>4 DEF FallBack
  <2>2. ~Serving' /\ FallbackNeedsARace'
    BY <2>1 DEF Serving, NotFallen, FallbackNeedsARace
  <2> QED BY <1>2, <1>3, <2>1, <2>2 DEF ReadBackInv
<1>5. CASE ~cs.opaque /\ EmptyChanges(cs) /\ UNCHANGED <<reader, fallback>>
  <2>1. /\ cs.nodes = {} /\ cs.oids = {} /\ cs.edges = {} /\ cs.triples = {} /\ cs.oidTriples = {}
        /\ cs.nodeCriteria = {} /\ cs.edgeCriteria = {}
    <3>1. DOMAIN cs = DOMAIN NoKeys
      BY DEF ReadBackInv, KeysInv
    <3> QED BY <1>5, <3>1, EmptyNames
  <2>2. /\ \A n, row, now : ~NodeNamed(cs, n, row, now)
        /\ \A e, row, now : ~EdgeNamed(cs, e, row, now)
    BY <1>5, <2>1 DEF NodeNamed, EdgeNamed, Filtered
  <2>3. ASSUME ~ObjectIdsMove, NEW n \in NodeIds  PROVE NodeExcused(n, ViewNode(n))'
    <3>1. PICK row : row = ViewNode(n)
      OBVIOUS
    <3>2. row = ViewNode(n)' /\ NodeExcused(n, row)
      BY <1>1, <1>2, <2>3, <3>1 DEF ReadBackInv
    <3>3. NodeExcused(n, row)'
      BY <1>1, <1>5, <2>2, <3>2, NodeTaken
    <3> QED BY <3>2, <3>3
  <2>4. ASSUME ~ObjectIdsMove, NEW e \in EdgeIds  PROVE EdgeExcused(e, ViewEdge(e))'
    <3>1. PICK row : row = ViewEdge(e)
      OBVIOUS
    <3>2. row = ViewEdge(e)' /\ EdgeExcused(e, row)
      BY <1>1, <1>2, <2>4, <3>1 DEF ReadBackInv
    <3>3. EdgeExcused(e, row)'
      BY <1>1, <2>2, <3>2, EdgeTaken
    <3> QED BY <3>2, <3>3
  <2>5. reader' = NoReader /\ FallbackNeedsARace' /\ Serving'
    BY <1>1, <1>3, <1>5 DEF FallbackNeedsARace, Serving
  <2> QED BY <1>2, <1>3, <2>3, <2>4, <2>5 DEF ReadBackInv
<1>6. CASE ~cs.opaque /\ ~EmptyChanges(cs) /\ reader' = BeginReadBack(cs) /\ UNCHANGED fallback
  BY <1>1, <1>6, BeginsRight
<1> QED BY <1>1, <1>4, <1>5, <1>6

\* A query that fails is a fallback.
LEMMA FailureKeeps ==
    ASSUME ReadBackInv, ReadBackFails
    PROVE  ReadBackInv'
<1>1. /\ fallback'.cause = "readBackFailed" /\ reader' = NoReader
      /\ UNCHANGED <<db, registered, changes, commits, snap, carried, skipped>>
  BY DEF ReadBackFails, FallBack
<1>2. ~Serving' /\ FallbackNeedsARace'
  BY <1>1 DEF Serving, NotFallen, FallbackNeedsARace
<1>3. /\ ReadBackConstants /\ (~ObjectIdsMove => OneNodeEach(carried)) /\ TablesInv /\ ViewInv
      /\ (\A cs \in changes : KeysInv(cs))
  BY DEF ReadBackInv
<1>4. TablesInv' /\ (~ObjectIdsMove => OneNodeEach(carried'))
  BY <1>1, <1>3 DEF TablesInv
<1>5. ViewInv'
  BY <1>1, <1>3 DEF ViewInv, NodeBorn, EdgeBorn, ViewNode, ViewEdge
<1>6. \A cs \in changes' : KeysInv(cs)'
  BY <1>1, <1>3 DEF KeysInv, Placed
<1> QED BY <1>1, <1>2, <1>3, <1>4, <1>5, <1>6 DEF ReadBackInv
-----------------------------------------------------------------------------
(***************************************************************************)
(* What was read is published.                                             *)
(***************************************************************************)

\* A walk from a node meets edges the view has a row for, which begin or end there.
LEMMA WalkRows ==
    ASSUME ViewInv, NEW n, NEW near, NEW far, <<near, far>> \in Directions, NEW x \in WalkEdges(snap, n, near, far)
    PROVE  LET row == ViewEdge(x[3])
           IN  row # Tombstone /\ row[near] = n /\ x = <<row[far], row.kind, x[3]>>
<1>1. ViewSound(snap)
  BY DEF ViewInv
<1>2. Alive(snap, n)
  BY DEF WalkEdges
<1>3. PICK e : EdgeStateByID(snap, e) # Tombstone /\ EdgeStateByID(snap, e)[near] = n
               /\ x = <<EdgeStateByID(snap, e)[far], EdgeStateByID(snap, e).kind, e>>
  BY <1>1, <1>2, WalkMeets
<1>4. EdgeStateByID(snap, e) = ViewEdge(e)
  BY <1>3 DEF EdgeStateByID, ViewEdge, RowIn, Delta
<1>5. x[3] = e
  BY <1>3
<1> QED BY <1>3, <1>4, <1>5

\* tombstoneNodeWithCascade, tombstoneAbsentTriple: an edge they bury is gone.
GoneEdges(r) == r.absentEdges \cup (UNION {CascadeOf(n) : n \in r.absentNodes}) \cup (UNION {TripleEdges(t) : t \in r.absentTriples})
LEMMA GoneIsGone ==
    ASSUME TablesInv, ViewInv, NEW r, ReadInv(r), NEW e \in GoneEdges(r)
    PROVE  e \in EdgeIds /\ db.edges[e] = Tombstone
<1>1. <<"start", "end">> \in Directions /\ <<"end", "start">> \in Directions
  BY DEF Directions
<1>2. CASE e \in r.absentEdges
  BY <1>2 DEF ReadInv
<1>3. ASSUME NEW n \in r.absentNodes, e \in CascadeOf(n)  PROVE e \in EdgeIds /\ db.edges[e] = Tombstone
  <2>1. PICK x \in OutEdges(snap, n) \cup InEdges(snap, n) : e = x[3]
    BY <1>3 DEF CascadeOf
  <2>2. ViewEdge(e) # Tombstone /\ (ViewEdge(e).start = n \/ ViewEdge(e).end = n)
    BY <1>1, <2>1, WalkRows DEF OutEdges, InEdges
  <2>3. e \in EdgeIds /\ db.edges[e] \in {ViewEdge(e), Tombstone} /\ IsEdge(ViewEdge(e))
    BY <2>2, ViewBorn DEF EdgeBorn
  <2>4. Buried(n)
    BY DEF ReadInv
  <2>5. ~Live(db.nodes, n)
    BY <2>4 DEF Buried, Live
  <2>6. db.edges[e] = ViewEdge(e) => Live(db.edges, e)
    BY <2>3, RowsAndMarks DEF Live, TablesInv
  <2> QED BY <2>2, <2>3, <2>5, <2>6 DEF TablesInv
<1>4. ASSUME NEW t \in r.absentTriples, e \in TripleEdges(t)  PROVE e \in EdgeIds /\ db.edges[e] = Tombstone
  <2>1. PICK x \in OutEdges(snap, t.start) : x[1] = t.end /\ x[2] = t.kind /\ e = x[3]
    BY <1>4 DEF TripleEdges
  <2>2. ViewEdge(e) # Tombstone /\ ViewEdge(e).start = t.start /\ x = <<ViewEdge(e).end, ViewEdge(e).kind, e>>
    BY <1>1, <2>1, WalkRows DEF OutEdges
  <2>3. ViewEdge(e).end = t.end /\ ViewEdge(e).kind = t.kind
    BY <2>1, <2>2
  <2>4. e \in EdgeIds /\ IsEdge(ViewEdge(e)) /\ IsEdge(t)
    BY <2>2, ViewBorn DEF EdgeBorn, ReadInv
  <2>5. ViewEdge(e) = t
    BY <2>2, <2>3, <2>4 DEF IsEdge
  <2> QED BY <2>4, <2>5 DEF ReadInv
<1> QED BY <1>2, <1>3, <1>4 DEF GoneEdges

\* buildApplySegment: the rows of the view after it.
LEMMA PublishedRows ==
    ASSUME ViewInv, NEW r, snap' = WithSegment(snap, ReadSegment(r))
    PROVE  /\ ViewSound(snap') /\ snap'.base = snap.base
           /\ \A n : ViewNode(n)' = IF n \in DOMAIN r.nodes THEN r.nodes[n]
                                    ELSE IF n \in r.absentNodes THEN Tombstone ELSE ViewNode(n)
           /\ \A e : ViewEdge(e)' = IF e \in DOMAIN r.edges THEN r.edges[e]
                                    ELSE IF e \in GoneEdges(r) THEN Tombstone ELSE ViewEdge(e)
<1> DEFINE seg == ReadSegment(r)
           lostNodes == [n \in r.absentNodes |-> Tombstone]
           lostEdges == [e \in GoneEdges(r) |-> Tombstone]
<1>1. seg.nodes = Over(r.nodes, lostNodes) /\ seg.edges = Over(r.edges, lostEdges)
  BY DEF ReadSegment, NewSegment, GoneEdges
<1>2. /\ DOMAIN lostNodes = r.absentNodes /\ \A n \in r.absentNodes : lostNodes[n] = Tombstone
      /\ DOMAIN lostEdges = GoneEdges(r) /\ \A e \in GoneEdges(r) : lostEdges[e] = Tombstone
  OBVIOUS
<1> HIDE DEF seg, lostNodes, lostEdges
<1>3. /\ DOMAIN seg.nodes = DOMAIN r.nodes \cup r.absentNodes
      /\ \A n \in DOMAIN seg.nodes : seg.nodes[n] = IF n \in DOMAIN r.nodes THEN r.nodes[n] ELSE Tombstone
  BY <1>1, <1>2 DEF Over
<1>4. /\ DOMAIN seg.edges = DOMAIN r.edges \cup GoneEdges(r)
      /\ \A e \in DOMAIN seg.edges : seg.edges[e] = IF e \in DOMAIN r.edges THEN r.edges[e] ELSE Tombstone
  BY <1>1, <1>2 DEF Over
<1>5. ViewSound(snap) /\ IsSeq(snap.segs) /\ BaseSound(snap.base) /\ snap.delta = MergeSegments(snap.segs)
  BY ViewFields DEF ViewInv, ViewSound
<1>6. IsSeq(Append(snap.segs, seg))
  BY <1>5, AppendFacts
<1>7. snap' = ViewOf(snap.base, Append(snap.segs, seg))
  BY DEF WithSegment, seg
<1>8. ViewSound(snap') /\ snap'.base = snap.base /\ snap'.delta = MergeSegments(Append(snap.segs, seg))
  BY <1>5, <1>6, <1>7, ViewOfFields
<1>9. snap'.delta.nodes = Over(seg.nodes, snap.delta.nodes) /\ snap'.delta.edges = Over(seg.edges, snap.delta.edges)
  BY <1>5, <1>8, MergeAppend
<1>10. /\ DOMAIN snap'.delta.nodes = DOMAIN seg.nodes \cup DOMAIN snap.delta.nodes
       /\ \A n \in DOMAIN snap'.delta.nodes : snap'.delta.nodes[n] = IF n \in DOMAIN seg.nodes THEN seg.nodes[n] ELSE snap.delta.nodes[n]
  BY <1>9 DEF Over
<1>11. /\ DOMAIN snap'.delta.edges = DOMAIN seg.edges \cup DOMAIN snap.delta.edges
       /\ \A e \in DOMAIN snap'.delta.edges : snap'.delta.edges[e] = IF e \in DOMAIN seg.edges THEN seg.edges[e] ELSE snap.delta.edges[e]
  BY <1>9 DEF Over
<1>12. ASSUME NEW n  PROVE ViewNode(n)' = IF n \in DOMAIN r.nodes THEN r.nodes[n]
                                          ELSE IF n \in r.absentNodes THEN Tombstone ELSE ViewNode(n)
  BY <1>3, <1>8, <1>10 DEF ViewNode, RowIn
<1>13. ASSUME NEW e  PROVE ViewEdge(e)' = IF e \in DOMAIN r.edges THEN r.edges[e]
                                          ELSE IF e \in GoneEdges(r) THEN Tombstone ELSE ViewEdge(e)
  BY <1>4, <1>8, <1>11 DEF ViewEdge, RowIn
<1> QED BY <1>8, <1>12, <1>13

\* Publishing: every row is then right, or a change set still to be applied excuses it.
LEMMA PublishKeeps ==
    ASSUME ReadBackInv, Publish
    PROVE  ReadBackInv'
<1>1. PICK r : r = reader
  OBVIOUS
<1>2. Now /\ ReaderInv(r, 12) /\ Serving
  <2>1. 12 \in 1 .. 12 /\ reader.pc = Stages[12]
    BY Places DEF Publish
  <2> QED BY <1>1, <2>1, ReaderAt
<1>3. /\ ReadBackConstants /\ (~ObjectIdsMove => OneNodeEach(carried)) /\ TablesInv /\ ViewInv
      /\ (\A cs \in changes : KeysInv(cs)) /\ FallbackNeedsARace
  BY DEF ReadBackInv
<1>4. db' = db /\ registered' = registered /\ changes' = changes /\ carried' = carried
  BY DEF Publish
<1>5. TablesInv' /\ (\A cs \in changes' : KeysInv(cs)') /\ (~ObjectIdsMove => OneNodeEach(carried'))
  BY <1>3, <1>4 DEF TablesInv, KeysInv, Placed
<1>6. CASE MustFallBack(r)
  <2>1. snap' = snap /\ reader' = NoReader /\ fallback'.cause \in {"unnameable", "overCap"} /\ fallback'.raced = r.cs.raced
    BY <1>1, <1>6 DEF Publish, FallBack
  <2>2. r.cs.raced
    BY <1>2, <1>6 DEF ReaderInv, RaceInv, MustFallBack, Quiet
  <2>3. ViewInv'
    BY <1>3, <1>4, <2>1 DEF ViewInv, NodeBorn, EdgeBorn, ViewNode, ViewEdge
  <2>4. ~Serving' /\ FallbackNeedsARace'
    BY <2>1, <2>2 DEF Serving, NotFallen, FallbackNeedsARace
  <2> QED BY <1>3, <1>5, <2>1, <2>3, <2>4 DEF ReadBackInv
<1>7. CASE ~MustFallBack(r)
  <2>1. /\ snap' = WithSegment(snap, ReadSegment(r)) /\ reader' = NoReader /\ fallback' = fallback
        /\ skipped' = (skipped \/ (r.cs.incomplete /\ r.cs.landed /\ (r.unnameable \/ r.overCap)))
    BY <1>1, <1>7 DEF Publish
  <2>2. ReadInv(r)
    BY <1>2 DEF ReaderInv
  <2>3. /\ ViewSound(snap') /\ snap'.base = snap.base
        /\ \A n : ViewNode(n)' = IF n \in DOMAIN r.nodes THEN r.nodes[n]
                                 ELSE IF n \in r.absentNodes THEN Tombstone ELSE ViewNode(n)
        /\ \A e : ViewEdge(e)' = IF e \in DOMAIN r.edges THEN r.edges[e]
                                 ELSE IF e \in GoneEdges(r) THEN Tombstone ELSE ViewEdge(e)
    BY <1>3, <2>1, PublishedRows
  <2>4. ASSUME NEW n  PROVE NodeBorn(n, ViewNode(n))'
    <3>1. PICK row : row = ViewNode(n)'
      OBVIOUS
    <3>2. NodeBorn(n, Tombstone) /\ NodeBorn(n, ViewNode(n)) /\ \A m \in DOMAIN r.nodes : NodeBorn(m, r.nodes[m])
      BY <1>3, <2>2, ViewBorn DEF NodeBorn, ReadInv
    <3>3. NodeBorn(n, row)
      BY <2>3, <3>1, <3>2
    <3>4. NodeBorn(n, row)'
      BY <1>4, <3>3 DEF NodeBorn
    <3> QED BY <3>1, <3>4
  <2>5. ASSUME NEW e  PROVE EdgeBorn(e, ViewEdge(e))'
    <3>1. PICK row : row = ViewEdge(e)'
      OBVIOUS
    <3>2. EdgeBorn(e, Tombstone) /\ EdgeBorn(e, ViewEdge(e)) /\ \A m \in DOMAIN r.edges : EdgeBorn(m, r.edges[m])
      BY <1>3, <2>2, ViewBorn DEF EdgeBorn, ReadInv
    <3>3. EdgeBorn(e, row)
      BY <2>3, <3>1, <3>2
    <3>4. EdgeBorn(e, row)'
      BY <1>4, <3>3 DEF EdgeBorn
    <3> QED BY <3>1, <3>4
  <2>6. ViewInv'
    BY <2>3, <2>4, <2>5 DEF ViewInv
  <2>7. ASSUME ~ObjectIdsMove, NEW n \in NodeIds  PROVE NodeExcused(n, ViewNode(n))'
    <3>1. PICK row : row = ViewNode(n)'
      OBVIOUS
    <3>2. NodeExcused(n, row)
      <4>1. CASE n \in DOMAIN r.nodes
        BY <2>2, <2>3, <3>1, <4>1 DEF ReadInv
      <4>2. CASE n \notin DOMAIN r.nodes /\ n \in r.absentNodes
        <5>1. row = Tombstone /\ PgNode(n) = Tombstone
          BY <2>2, <2>3, <3>1, <4>2 DEF ReadInv, Buried, PgNode, Present
        <5> QED BY <5>1 DEF NodeExcused, Rekeyed
      <4>3. CASE n \notin AnsweredNodes(r)
        <5>1. row = ViewNode(n)
          BY <2>3, <3>1, <4>3 DEF AnsweredNodes
        <5>2. NodeExcused(n, row) \/ NodeAsked(r, 12, n, row)
          BY <1>2, <2>7, <4>3, <5>1 DEF ReaderInv, LeftInv, LeftNodes
        <5> QED BY <5>2 DEF NodeAsked
      <4> QED BY <4>1, <4>2, <4>3 DEF AnsweredNodes
    <3>3. NodeExcused(n, row)'
      BY <1>4, <3>2 DEF NodeExcused, NamedById, PgNode
    <3> QED BY <3>1, <3>3
  <2>8. ASSUME ~ObjectIdsMove, NEW e \in EdgeIds  PROVE EdgeExcused(e, ViewEdge(e))'
    <3>1. PICK row : row = ViewEdge(e)'
      OBVIOUS
    <3>2. EdgeExcused(e, row) \/ (skipped' /\ row = Tombstone)
      <4>1. CASE e \in DOMAIN r.edges
        BY <2>2, <2>3, <3>1, <4>1 DEF ReadInv
      <4>2. CASE e \notin DOMAIN r.edges /\ e \in GoneEdges(r)
        <5>1. db.edges[e] = Tombstone
          BY <1>3, <2>2, <4>2, GoneIsGone
        <5>2. row = Tombstone /\ PgEdge(e) = Tombstone
          BY <2>3, <3>1, <4>2, <5>1 DEF PgEdge, Present
        <5> QED BY <5>2 DEF EdgeExcused
      <4>3. CASE e \notin DOMAIN r.edges /\ e \notin GoneEdges(r)
        <5>1. row = ViewEdge(e) /\ e \notin AnsweredEdges(r)
          BY <2>3, <3>1, <4>3 DEF AnsweredEdges, GoneEdges
        <5>2. EdgeExcused(e, row) \/ EdgeAsked(r, 12, e, row)
          BY <1>2, <2>8, <5>1 DEF ReaderInv, LeftInv, LeftEdges
        <5>3. ASSUME EdgeAsked(r, 12, e, row), row # PgEdge(e)  PROVE skipped' /\ row = Tombstone
          <6>1. PgEdge(e) # Tombstone /\ r.cs.landed /\ (r.unnameable \/ r.overCap)
            BY <5>3 DEF EdgeAsked, Awaited
          <6>2. r.cs.incomplete
            BY <1>7, <6>1 DEF MustFallBack
          <6>3. row # Tombstone => db.edges[e] \in {row, Tombstone} /\ IsEdge(row)
            BY <1>3, <5>1, ViewBorn DEF EdgeBorn
          <6>4. row = Tombstone
            BY <5>3, <6>1, <6>3, RowsAndMarks DEF PgEdge, Present
          <6> QED BY <2>1, <6>1, <6>2, <6>4
        <5> QED BY <5>2, <5>3 DEF EdgeExcused
      <4> QED BY <4>1, <4>2, <4>3
    <3>3. EdgeExcused(e, row)'
      <4>1. skipped => skipped'
        BY <2>1
      <4>2. PgEdge(e)' = PgEdge(e) /\ \A n : Buried(n)' <=> Buried(n)
        BY <1>4 DEF PgEdge, Buried
      <4>3. \A cs, now : EdgeNamed(cs, e, row, now)' <=> EdgeNamed(cs, e, row, now)
        BY <1>4 DEF EdgeNamed, Means
      <4> QED BY <1>4, <3>2, <4>1, <4>2, <4>3 DEF EdgeExcused
    <3> QED BY <3>1, <3>3
  <2>9. Serving' /\ FallbackNeedsARace'
    BY <1>2, <1>3, <2>1 DEF Serving, FallbackNeedsARace
  <2> QED BY <1>3, <1>5, <2>1, <2>6, <2>7, <2>8, <2>9 DEF ReadBackInv
<1> QED BY <1>6, <1>7
-----------------------------------------------------------------------------
\* The rows loaded at start are PostgreSQL's, and the view is built of them.
LEMMA ReadBackStarts ==
    ASSUME ReadBackConstants, ReadInit
    PROVE  ReadBackInv
<1>1. /\ db.nodes = [n \in NodeIds |-> IF n \in DOMAIN Base0.nodes THEN Base0.nodes[n] ELSE Unborn]
      /\ db.edges = [e \in EdgeIds |-> IF e \in DOMAIN Base0.edges THEN Base0.edges[e] ELSE Unborn]
      /\ changes = {} /\ reader = NoReader /\ fallback = NotFallen /\ carried = Carriers(db.nodes)
      /\ snap = NewView(BuildBase(Base0.nodes, Base0.edges, registered))
  BY DEF ReadInit
<1>2. /\ DOMAIN Base0.nodes \subseteq NodeIds /\ DOMAIN Base0.edges \subseteq EdgeIds
      /\ \A n \in DOMAIN Base0.nodes : IsNode(Base0.nodes[n]) /\ Base0.nodes[n] \notin {Unborn, Tombstone}
      /\ \A e \in DOMAIN Base0.edges : /\ IsEdge(Base0.edges[e]) /\ Base0.edges[e] \notin {Unborn, Tombstone}
                                       /\ Base0.edges[e].start \in DOMAIN Base0.nodes
                                       /\ Base0.edges[e].end \in DOMAIN Base0.nodes
      /\ OneNodeEach(Carriers(Base0.nodes))
  BY RowsAndMarks DEF ReadBackConstants
<1>3. /\ DOMAIN db.nodes = NodeIds /\ DOMAIN db.edges = EdgeIds
      /\ \A n \in NodeIds : db.nodes[n] = IF n \in DOMAIN Base0.nodes THEN Base0.nodes[n] ELSE Unborn
      /\ \A e \in EdgeIds : db.edges[e] = IF e \in DOMAIN Base0.edges THEN Base0.edges[e] ELSE Unborn
  BY <1>1
<1>4. /\ \A n : Live(db.nodes, n) <=> n \in DOMAIN Base0.nodes
      /\ \A e : Live(db.edges, e) <=> e \in DOMAIN Base0.edges
  BY <1>2, <1>3 DEF Live
<1>5. TablesInv
  BY <1>1, <1>2, <1>3, <1>4 DEF TablesInv
<1>6. OneNodeEach(carried)
  <2>1. \A n : n \in DOMAIN Rows(Base0.nodes) <=> n \in DOMAIN Base0.nodes
    BY <1>2, LiveRows DEF Live
  <2>2. carried \subseteq Carriers(Base0.nodes)
    BY <1>1, <1>2, <1>3, <1>4, <2>1, LiveRows DEF Carriers
  <2> QED BY <1>2, <2>2 DEF OneNodeEach
<1> DEFINE base == BuildBase(Base0.nodes, Base0.edges, registered)
<1>7. /\ base.nodes = Base0.nodes /\ DOMAIN base.edges = DOMAIN Base0.edges
      /\ \A e \in DOMAIN Base0.edges : base.edges[e] = Base0.edges[e]
  BY <1>2 DEF BuildBase, Restrict
<1> HIDE DEF base
<1>8. BaseSound(base)
  BY <1>2, <1>7 DEF BaseSound
<1>9. ViewSound(snap) /\ snap.base = base /\ DOMAIN snap.delta.nodes = {} /\ DOMAIN snap.delta.edges = {}
  BY <1>1, <1>8, BaseAlone DEF base
<1>10. /\ \A n : ViewNode(n) = IF n \in DOMAIN Base0.nodes THEN Base0.nodes[n] ELSE Tombstone
       /\ \A e : ViewEdge(e) = IF e \in DOMAIN Base0.edges THEN Base0.edges[e] ELSE Tombstone
  BY <1>7, <1>9 DEF ViewNode, ViewEdge, RowIn
<1>11. /\ \A n \in NodeIds : ViewNode(n) = PgNode(n)
       /\ \A e \in EdgeIds : ViewEdge(e) = PgEdge(e)
  BY <1>2, <1>3, <1>10 DEF PgNode, PgEdge, Present
<1>12. ASSUME NEW n  PROVE NodeBorn(n, ViewNode(n))
  <2>1. CASE n \in DOMAIN Base0.nodes
    <3>1. Live(db.nodes, n) /\ db.nodes[n] = ViewNode(n)
      BY <1>2, <1>3, <1>4, <1>10, <2>1
    <3> QED BY <1>5, <3>1, FreshNode
  <2>2. CASE n \notin DOMAIN Base0.nodes
    BY <1>10, <2>2 DEF NodeBorn
  <2> QED BY <2>1, <2>2
<1>13. ASSUME NEW e  PROVE EdgeBorn(e, ViewEdge(e))
  <2>1. CASE e \in DOMAIN Base0.edges
    <3>1. Live(db.edges, e) /\ db.edges[e] = ViewEdge(e)
      BY <1>2, <1>3, <1>4, <1>10, <2>1
    <3> QED BY <1>5, <3>1, FreshEdge
  <2>2. CASE e \notin DOMAIN Base0.edges
    BY <1>10, <2>2 DEF EdgeBorn
  <2> QED BY <2>1, <2>2
<1>14. ViewInv
  BY <1>9, <1>12, <1>13 DEF ViewInv
<1>15. /\ \A n \in NodeIds : NodeExcused(n, ViewNode(n))
       /\ \A e \in EdgeIds : EdgeExcused(e, ViewEdge(e))
  BY <1>11 DEF NodeExcused, EdgeExcused, Rekeyed
<1>16. FallbackNeedsARace
  BY <1>1 DEF FallbackNeedsARace, NotFallen
<1> QED BY <1>1, <1>5, <1>6, <1>14, <1>15, <1>16 DEF ReadBackInv

\* Nothing happens.
LEMMA StutterKeeps ==
    ASSUME ReadBackInv, UNCHANGED readVars
    PROVE  ReadBackInv'
<1>1. /\ db' = db /\ registered' = registered /\ changes' = changes /\ snap' = snap /\ carried' = carried
      /\ skipped' = skipped /\ reader' = reader /\ fallback' = fallback
  BY DEF readVars
<1>2. /\ ReadBackConstants /\ (~ObjectIdsMove => OneNodeEach(carried)) /\ TablesInv /\ ViewInv
      /\ (\A cs \in changes : KeysInv(cs)) /\ FallbackNeedsARace
  BY DEF ReadBackInv
<1>3. TablesInv' /\ (~ObjectIdsMove => OneNodeEach(carried')) /\ FallbackNeedsARace' /\ (Serving' <=> Serving)
  BY <1>1, <1>2 DEF TablesInv, FallbackNeedsARace, Serving
<1>4. ViewInv'
  BY <1>1, <1>2 DEF ViewInv, NodeBorn, EdgeBorn, ViewNode, ViewEdge
<1>5. \A cs \in changes' : KeysInv(cs)'
  BY <1>1, <1>2 DEF KeysInv, Placed
<1>6. ASSUME reader # NoReader  PROVE Serving /\ \E k \in 1 .. 12 : reader'.pc = Stages[k] /\ ReaderInv(reader, k)'
  <2>1. PICK k \in 1 .. 12 : reader.pc = Stages[k] /\ ReaderInv(reader, k)
    BY <1>6 DEF ReadBackInv
  <2>2. PICK r : r = reader
    OBVIOUS
  <2>3. ReaderInv(r, k)'
    BY <1>1, <2>1, <2>2, UnmovedReader DEF Unmoved
  <2>4. ReaderInv(reader, k)'
    BY <1>1, <2>2, <2>3
  <2>5. Serving
    BY <1>6 DEF ReadBackInv
  <2> QED BY <1>1, <2>1, <2>4, <2>5
<1>7. ASSUME ~ObjectIdsMove, Serving, reader = NoReader
      PROVE  /\ \A n \in NodeIds : NodeExcused(n, ViewNode(n))'
             /\ \A e \in EdgeIds : EdgeExcused(e, ViewEdge(e))'
  <2>1. /\ \A n \in NodeIds : NodeExcused(n, ViewNode(n))
        /\ \A e \in EdgeIds : EdgeExcused(e, ViewEdge(e))
    BY <1>7 DEF ReadBackInv
  <2>2. \A n : NodeExcused(n, ViewNode(n))' <=> NodeExcused(n, ViewNode(n))
    BY <1>1 DEF NodeExcused, NamedById, PgNode, ViewNode
  <2>3. \A e : EdgeExcused(e, ViewEdge(e))' <=> EdgeExcused(e, ViewEdge(e))
    BY <1>1 DEF EdgeExcused, EdgeNamed, Means, PgEdge, ViewEdge, Buried
  <2> QED BY <2>1, <2>2, <2>3
<1> QED BY <1>1, <1>2, <1>3, <1>4, <1>5, <1>6, <1>7 DEF ReadBackInv

\* Every step.
LEMMA ReadBackSteps ==
    ASSUME ReadBackInv, [ReadNext]_readVars
    PROVE  ReadBackInv'
<1>1. CASE Writer
  BY <1>1, WriterKeeps
<1>2. CASE StartApply
  BY <1>2, ApplyKeeps
<1>3. CASE ReadNodesByID \/ RereadCandidateNodes \/ RereadEndpoints
  BY <1>3, NodeQueries
<1>4. CASE ReadNodesByObjectID
  BY <1>4, ObjectIdQuery
<1>5. CASE ReadEdgesByID \/ RereadCandidateEdges
  BY <1>5, EdgeQueries
<1>6. CASE ResolveTripleKinds \/ ResolveCriteriaKinds
  BY <1>6, KindQueries
<1>7. CASE ReadEdgesByTriple \/ ReadRekeyedTriples
  BY <1>7, TripleQueries
<1>8. CASE ReadFanouts
  BY <1>8, FanoutQuery
<1>9. CASE ReadBackFails
  BY <1>9, FailureKeeps
<1>10. CASE Publish
  BY <1>10, PublishKeeps
<1>11. CASE UNCHANGED readVars
  BY <1>11, StutterKeeps
<1> QED BY <1>1, <1>2, <1>3, <1>4, <1>5, <1>6, <1>7, <1>8, <1>9, <1>10, <1>11 DEF ReadNext

\* With nothing left to apply nothing is excused, so that what is seen is PostgreSQL's.
LEMMA NothingExcused ==
    ASSUME ReadBackInv, ~ObjectIdsMove, Serving, changes = {}, reader = NoReader
    PROVE  /\ VisibleNodes(snap) = Rows(db.nodes)
           /\ LET edges == {<<db.edges[e].start, db.edges[e].end, db.edges[e].kind, e>> : e \in DOMAIN Rows(db.edges)}
              IN  VisibleEdges(snap) \subseteq edges /\ (~skipped => edges \subseteq VisibleEdges(snap))
<1>1. TablesInv /\ ViewInv /\ ViewSound(snap)
  BY DEF ReadBackInv, ViewInv
<1>2. \A n \in NodeIds : ViewNode(n) = PgNode(n)
  BY DEF ReadBackInv, NodeExcused
<1>3. ASSUME NEW n  PROVE Alive(snap, n) <=> Live(db.nodes, n)
  <2>1. Alive(snap, n) <=> ViewNode(n) # Tombstone
    BY <1>1, ViewNodes
  <2>2. CASE n \in NodeIds
    <3>1. PgNode(n) # Tombstone <=> Live(db.nodes, n)
      BY <1>1, <2>2 DEF PgNode, Present, Live, TablesInv
    <3> QED BY <1>2, <2>1, <2>2, <3>1
  <2>3. CASE n \notin NodeIds
    BY <1>1, <2>1, <2>3, ViewBorn DEF NodeBorn, Live, TablesInv
  <2> QED BY <2>2, <2>3
<1>4. ASSUME NEW n, Live(db.nodes, n)  PROVE NodeRow(snap, n) = db.nodes[n]
  <2>1. n \in NodeIds /\ PgNode(n) = db.nodes[n] /\ db.nodes[n] # Tombstone
    BY <1>1, <1>4 DEF Live, TablesInv, PgNode, Present
  <2>2. ViewNode(n) = db.nodes[n] /\ ViewNode(n) # Tombstone
    BY <1>2, <2>1
  <2> QED BY <1>1, <2>2, ViewNodes
<1>5. VisibleNodes(snap) = Rows(db.nodes)
  <2>1. \A n : n \in AliveNodes(snap) <=> n \in DOMAIN Rows(db.nodes)
    BY <1>1, <1>3, AliveMeans, LiveRows
  <2>2. AliveNodes(snap) = DOMAIN Rows(db.nodes)
    BY <2>1
  <2>3. \A n \in DOMAIN Rows(db.nodes) : Rows(db.nodes)[n] = db.nodes[n] /\ NodeRow(snap, n) = db.nodes[n]
    BY <1>4, LiveRows DEF Rows, Restrict
  <2>4. Rows(db.nodes) = [n \in DOMAIN Rows(db.nodes) |-> db.nodes[n]]
    BY DEF Rows, Restrict
  <2>5. VisibleNodes(snap) = [n \in DOMAIN Rows(db.nodes) |-> NodeRow(snap, n)]
    BY <2>2 DEF VisibleNodes
  <2>6. [n \in DOMAIN Rows(db.nodes) |-> NodeRow(snap, n)] = [n \in DOMAIN Rows(db.nodes) |-> db.nodes[n]]
    BY <2>3
  <2> QED BY <2>4, <2>5, <2>6
<1>6. ASSUME NEW e \in EdgeIds
      PROVE  \/ ViewEdge(e) = PgEdge(e)
             \/ PgEdge(e) = Tombstone /\ (Buried(ViewEdge(e).start) \/ Buried(ViewEdge(e).end))
             \/ skipped /\ ViewEdge(e) = Tombstone
  BY DEF ReadBackInv, EdgeExcused
<1>7. ASSUME NEW e  PROVE EdgeStateByID(snap, e) = IF ViewEdge(e) # Tombstone /\ Alive(snap, ViewEdge(e).start) /\ Alive(snap, ViewEdge(e).end)
                                                    THEN ViewEdge(e) ELSE Tombstone
  BY DEF EdgeStateByID, ViewEdge, RowIn, Delta
<1> DEFINE edges == {<<db.edges[e].start, db.edges[e].end, db.edges[e].kind, e>> : e \in DOMAIN Rows(db.edges)}
<1>8. ASSUME NEW t \in VisibleEdges(snap)  PROVE t \in edges
  <2>1. PICK e : EdgeStateByID(snap, e) # Tombstone
                 /\ t = <<EdgeStateByID(snap, e).start, EdgeStateByID(snap, e).end, EdgeStateByID(snap, e).kind, e>>
    BY <1>1, <1>8, SeenEdges
  <2>2. /\ ViewEdge(e) # Tombstone /\ EdgeStateByID(snap, e) = ViewEdge(e)
        /\ Alive(snap, ViewEdge(e).start) /\ Alive(snap, ViewEdge(e).end)
    BY <1>7, <2>1
  <2>3. e \in EdgeIds
    BY <1>1, <2>2, ViewBorn DEF EdgeBorn
  <2>4. ~Buried(ViewEdge(e).start) /\ ~Buried(ViewEdge(e).end)
    BY <1>3, <2>2 DEF Buried, Live
  <2>5. ViewEdge(e) = PgEdge(e)
    BY <1>6, <2>2, <2>3, <2>4
  <2>6. Live(db.edges, e) /\ ViewEdge(e) = db.edges[e]
    BY <1>1, <2>2, <2>3, <2>5 DEF PgEdge, Present, Live, TablesInv
  <2>7. e \in DOMAIN Rows(db.edges)
    BY <2>6, LiveRows
  <2> QED BY <2>1, <2>2, <2>6, <2>7
<1>9. ASSUME ~skipped, NEW t \in edges  PROVE t \in VisibleEdges(snap)
  <2>1. PICK e \in DOMAIN Rows(db.edges) : t = <<db.edges[e].start, db.edges[e].end, db.edges[e].kind, e>>
    BY <1>9
  <2>2. Live(db.edges, e) /\ e \in EdgeIds
    BY <1>1, <2>1, LiveRows DEF Live, TablesInv
  <2>3. PgEdge(e) = db.edges[e] /\ db.edges[e] # Tombstone
    BY <2>2 DEF PgEdge, Present, Live
  <2>4. ViewEdge(e) = db.edges[e]
    BY <1>6, <1>9, <2>2, <2>3
  <2>5. Alive(snap, db.edges[e].start) /\ Alive(snap, db.edges[e].end)
    BY <1>1, <1>3, <2>2 DEF TablesInv
  <2>6. EdgeStateByID(snap, e) = db.edges[e]
    BY <1>7, <2>3, <2>4, <2>5
  <2> QED BY <1>1, <2>1, <2>3, <2>6, SeenEdges
<1> QED BY <1>5, <1>8, <1>9

\* What the run checks of a state.
LEMMA ReadBackInvConverges ==
    ASSUME ReadBackInv
    PROVE  ReadBackConverges
<1>1. FallbackNeedsARace
  BY DEF ReadBackInv
<1>2. ASSUME ~ObjectIdsMove, Serving, changes = {}, reader = NoReader
      PROVE  LET edges == {<<db.edges[e].start, db.edges[e].end, db.edges[e].kind, e>> : e \in DOMAIN Rows(db.edges)}
             IN  /\ VisibleNodes(snap) = Rows(db.nodes)
                 /\ IF skipped THEN VisibleEdges(snap) \subseteq edges ELSE VisibleEdges(snap) = edges
  <2> DEFINE edges == {<<db.edges[e].start, db.edges[e].end, db.edges[e].kind, e>> : e \in DOMAIN Rows(db.edges)}
  <2>1. /\ VisibleNodes(snap) = Rows(db.nodes)
        /\ VisibleEdges(snap) \subseteq edges /\ (~skipped => edges \subseteq VisibleEdges(snap))
    BY <1>2, NothingExcused
  <2> HIDE DEF edges
  <2>2. IF skipped THEN VisibleEdges(snap) \subseteq edges ELSE VisibleEdges(snap) = edges
    BY <2>1
  <2> QED BY <2>1, <2>2 DEF edges
<1>3. ~ObjectIdsMove => ReadMeansCurrent
  BY <1>2 DEF ReadMeansCurrent
<1> QED BY <1>1, <1>3 DEF ReadBackConverges

\* Read-back converges, for every graph, writers, filters and fan-out cap: when every committed
\* write has been applied and the engine never fell back, the view is PostgreSQL's graph, whatever
\* committed between the queries of the applies and in whatever order they ran, as long as an
\* object id stays with its node; and an edge that cannot be named ends serving only after a race.
THEOREM ReadBackAlwaysConverges == ReadBackConstants /\ ReadSpec => []ReadBackConverges
<1>1. ReadBackConstants /\ ReadInit => ReadBackInv
  BY ReadBackStarts
<1>2. ReadBackInv /\ [ReadNext]_readVars => ReadBackInv'
  BY ReadBackSteps
<1>3. ReadBackInv => ReadBackConverges
  BY ReadBackInvConverges
<1> QED BY <1>1, <1>2, <1>3, PTL DEF ReadSpec
=============================================================================
