----------------------------- MODULE Traverse ------------------------------
(***************************************************************************)
(* AllShortestPaths over one view: the dispatch between a search per pair   *)
(* and one full BFS per element of the small side, the bidirectional search *)
(* with its pooled distance buffers, the depth-first enumeration, and the   *)
(* one-length rule of allShortestPaths.  A path is [nodes, kinds]; dense    *)
(* ids ascend.  A distance buffer keeps its marks across queries: a mark is *)
(* valid only while it equals the epoch, which wraps at EpochMod.           *)
(***************************************************************************)
EXTENDS Integers, Sequences, FiniteSets, FiniteSetsExt, SequencesExt

CONSTANTS
    NodeIds,            \* dense ids
    Graphs,             \* sets of edges [from, to, kind]
    Queries,            \* [roots, rootsAll, terms, termsAll, kinds, mode, depth, limit, excludeSelf, memory]
    PairBudget, SideBudget,
    MaxDist,            \* the largest distance the buffer's int8 holds
    EpochMod,           \* the epoch counter's modulus
    ScratchBytes,       \* what one distance buffer costs
    PathBytes           \* what a path of n nodes costs: 12 n + 48


NoLimit == 0
VARIABLES
    graph, q,
    st,                 \* new, pairs, bfs, merge, then done | tooLarge | cancelled | memory
    todo,               \* the pairs still to visit, in output order
    cur,                \* the bidirectional search of one pair
    scF, scT, scTmp,    \* strategy A's distance buffers
    dists,              \* strategy B: the buffer of each small-side element
    sink,               \* the paths found, in order
    best,               \* shortestLevel: the length admitted so far, 0 before the first
    used, reserved,     \* memBudget
    cancelled           \* the request's context is done

vars == <<graph, q, st, todo, cur, scF, scT, scTmp, dists, sink, best, used, reserved, cancelled>>
NoSearch == [r |-> 0, t |-> 0, frontF |-> {}, frontB |-> {}, levF |-> 0, levB |-> 0, d |-> -1, depth |-> 0]

(***************************************************************************)
(* Distance buffers.                                                       *)
(***************************************************************************)
FreshScratch == [mark |-> [n \in NodeIds |-> 0], dist |-> [n \in NodeIds |-> 0], epoch |-> 0]
PooledScratch == [mark |-> [n \in NodeIds |-> 1], dist |-> [n \in NodeIds |-> 1], epoch |-> EpochMod - 1]
Reset(sc) ==
    IF (sc.epoch + 1) % EpochMod = 0
    THEN [sc EXCEPT !.mark = [n \in NodeIds |-> 0], !.epoch = 1]
    ELSE [sc EXCEPT !.epoch = @ + 1]
Seen(sc, n) == sc.mark[n] = sc.epoch
Int8(d) == ((d + MaxDist + 1) % (2 * (MaxDist + 1))) - (MaxDist + 1)
SetAll(sc, S, d) == [sc EXCEPT !.mark = [n \in NodeIds |-> IF n \in S THEN sc.epoch ELSE @[n]],
                               !.dist = [n \in NodeIds |-> IF n \in S THEN Int8(d) ELSE @[n]]]

(* A node's (neighbour, kind) pairs of an admitted kind, on one side. *)
Adjacent(u, forward) ==
    {<<IF forward THEN e.to ELSE e.from, e.kind>> :
        e \in {x \in graph : x.kind \in q.kinds /\ (IF forward THEN x.from ELSE x.to) = u}}
Neighbours(front, forward) == {p[1] : p \in UNION {Adjacent(u, forward) : u \in front}}
NextFrontier(sc, front, forward) == {w \in Neighbours(front, forward) : ~Seen(sc, w)}

(* The frontiers of a breadth-first search, the seed's first. *)
RECURSIVE Frontiers(_, _, _, _)
Frontiers(fs, reached, forward, maxDepth) ==
    LET next == Neighbours(Last(fs), forward) \ reached
    IN  IF Len(fs) > maxDepth \/ next = {} THEN fs
        ELSE Frontiers(Append(fs, next), reached \cup next, forward, maxDepth)
BfsFrom(seed, forward, maxDepth, sc) ==
    LET fresh == Reset(sc)
        stale == {n \in NodeIds : Seen(fresh, n)}
        fs == Frontiers(<<{seed}>>, {seed} \cup stale, forward, maxDepth)
        level == [n \in NodeIds |-> {i \in DOMAIN fs : n \in fs[i]}]
    IN  [fresh EXCEPT !.mark = [n \in NodeIds |-> IF level[n] # {} THEN fresh.epoch ELSE @[n]],
                      !.dist = [n \in NodeIds |-> IF level[n] # {} THEN Int8(Min(level[n]) - 1) ELSE @[n]]]

(***************************************************************************)
(* The depth-first enumerations: every walk along the hops a search admits, *)
(* stored (reversed where it was walked backward) until the cap or the      *)
(* memory limit.  The order among one pair's paths is the adjacency's.      *)
(***************************************************************************)
Charge(n) == PathBytes * n
OverLimit(u) == q.memory > 0 /\ reserved + u > q.memory

(* A hop of a shortest path: at the root's pace, and with exactly enough room left to the terminal. *)
OnShortest(f, t, d, u, w) ==
    Seen(f, w) /\ f.dist[w] = f.dist[u] + 1 /\ Seen(t, w) /\ t.dist[w] = d - f.dist[w]

Hops(forward) == UNION {{[at |-> n, to |-> p[1], kind |-> p[2]] : p \in Adjacent(n, forward)} : n \in NodeIds}
Extended(p, hops) == {[nodes |-> Append(p.nodes, h.to), kinds |-> Append(p.kinds, h.kind)] : h \in {x \in hops : x.at = Last(p.nodes)}}
RECURSIVE Trails(_, _, _)
Trails(walks, hops, stop) ==
    IF walks = {} THEN {}
    ELSE {p \in walks : Last(p.nodes) \in stop /\ Len(p.nodes) >= 2}
         \cup Trails(UNION {Extended(p, hops) : p \in {x \in walks : Last(x.nodes) \notin stop}}, hops, stop)
Backward(p) == [nodes |-> Reverse(p.nodes), kinds |-> Reverse(p.kinds)]

Store(p, acc, cap) ==
    IF acc.full \/ acc.over THEN acc
    ELSE IF OverLimit(acc.used + Charge(Len(p.nodes))) THEN [acc EXCEPT !.over = TRUE]
    ELSE [out |-> Append(acc.out, p), used |-> acc.used + Charge(Len(p.nodes)),
          full |-> cap > 0 /\ Len(acc.out) + 1 = cap, over |-> FALSE]
Collected(paths, cap, out, u) ==
    FoldSet(LAMBDA p, acc : Store(p, acc, cap), [out |-> out, used |-> u, full |-> FALSE, over |-> FALSE], paths)

StartAt(n) == {[nodes |-> <<n>>, kinds |-> <<>>]}
PairEnumerate(r, t, d, f, b, cap, out, u) ==
    Collected(Trails(StartAt(r), {h \in Hops(TRUE) : Seen(f, h.at) /\ OnShortest(f, b, d, h.at, h.to)}, {t}), cap, out, u)
Enumerate(from, sc, cap, out, u, forward) ==
    LET closer == {h \in Hops(forward) : Seen(sc, h.at) /\ Seen(sc, h.to) /\ sc.dist[h.to] = sc.dist[h.at] - 1}
        found == Trails(StartAt(from), closer, {n \in NodeIds : Seen(sc, n) /\ sc.dist[n] = 0})
    IN  Collected(IF forward THEN found ELSE {Backward(p) : p \in found}, cap, out, u)

(* pathCap: an absolute target against everything collected so far. *)
CapReached == q.limit > 0 /\ Len(sink) >= q.limit
PathCap == IF q.mode = "one" /\ (q.limit = 0 \/ Len(sink) + 1 < q.limit) THEN Len(sink) + 1 ELSE q.limit

(***************************************************************************)
(* Dispatch.                                                               *)
(***************************************************************************)
Ids(S) == SetToSortSeq(S, <)
PairSeq(rs, ts) == FlattenSeq([i \in DOMAIN rs |-> [j \in DOMAIN ts |-> <<rs[i], ts[j]>>]])
RootSide == ~q.rootsAll /\ Cardinality(q.roots) <= SideBudget
TermSide == ~q.termsAll /\ Cardinality(q.terms) <= SideBudget
ByPairs == ~q.rootsAll /\ ~q.termsAll /\ Cardinality(q.roots) * Cardinality(q.terms) <= PairBudget
SmallSide == IF RootSide THEN q.roots ELSE q.terms
DepthRepresentable == q.depth <= MaxDist

Dispatch ==
    /\ st = "new"
    /\ LET cost == ScratchBytes * Cardinality(SmallSide)
           declined == ~DepthRepresentable \/ (~ByPairs /\ ~RootSide /\ ~TermSide)
           unfit == ~ByPairs /\ ~declined /\ q.memory > 0 /\ cost > q.memory
       IN  /\ st' = CASE cancelled -> "cancelled"
                      [] ~cancelled /\ (declined \/ unfit) -> "tooLarge"
                      [] ~cancelled /\ ~declined /\ ByPairs -> "pairs"
                      [] OTHER -> "bfs"
           /\ reserved' = IF st' = "bfs" THEN cost ELSE reserved
    /\ todo' = PairSeq(Ids(q.roots), Ids(q.terms))
    /\ UNCHANGED <<graph, q, cur, scF, scT, scTmp, dists, sink, best, used, cancelled>>

CancelRequest ==
    /\ ~cancelled /\ st \in {"new", "pairs", "bfs", "merge"}
    /\ cancelled' = TRUE
    /\ UNCHANGED <<graph, q, st, todo, cur, scF, scT, scTmp, dists, sink, best, used, reserved>>

(***************************************************************************)
(* shortestLevel.admit: a strictly shorter pair starts the result over.     *)
(***************************************************************************)
Admits(d) == d >= 1 /\ (q.mode # "all" \/ best = 0 \/ d <= best)
StartsOver(d) == q.mode = "all" /\ (best = 0 \/ d < best)
\* Broken on purpose: the discarded paths' bytes stay charged.
UsedAfterKept(d) == used
UsedAfter(d) == IF StartsOver(d) THEN 0 ELSE used
SinkAfter(d) == IF StartsOver(d) THEN <<>> ELSE sink
\* Broken on purpose: a limit reached at a longer length ends the search.
FinalAlways(d) == TRUE
Final(d) == q.mode # "all" \/ d = 1

(* One admitted pair, d hops apart, handed to an enumeration. *)
FullAt(d) == q.limit > 0 /\ Len(SinkAfter(d)) >= q.limit
Cap == IF q.mode = "one" THEN PathCap ELSE q.limit
Collect(d, found) ==
    /\ best' = IF q.mode = "all" THEN d ELSE best
    /\ \/ /\ FullAt(d)
          /\ sink' = SinkAfter(d) /\ used' = UsedAfter(d)
          /\ st' = IF Final(d) THEN "done" ELSE st
       \/ /\ ~FullAt(d)
          /\ \E acc \in {found} :
                /\ sink' = acc.out /\ used' = acc.used
                /\ st' = IF acc.over THEN "memory" ELSE st

(***************************************************************************)
(* Strategy A: pairs in ascending order, a bidirectional search each.       *)
(***************************************************************************)
PairDepth == IF q.mode = "all" /\ best > 0 /\ best < q.depth THEN best ELSE q.depth

AtPair == st = "pairs" /\ cur = NoSearch /\ todo # <<>> /\ ~cancelled
IsSelf == Head(todo)[1] = Head(todo)[2]
LimitMet == q.mode # "all" /\ CapReached

StartPair ==
    /\ AtPair /\ ~IsSelf /\ ~LimitMet
    /\ LET r == Head(todo)[1]
           t == Head(todo)[2]
       IN  /\ scF' = SetAll(Reset(scF), {r}, 0)
           /\ scTmp' = SetAll(Reset(scTmp), {t}, 0)
           /\ cur' = [r |-> r, t |-> t, frontF |-> {r}, frontB |-> {t}, levF |-> 0, levB |-> 0,
                      d |-> -1, depth |-> PairDepth]
    /\ todo' = Tail(todo)
    /\ UNCHANGED <<graph, q, st, scT, dists, sink, best, used, reserved, cancelled>>

(* A self pair has no path: it is excluded, or its search answers at once. *)
SkipSelf ==
    /\ AtPair /\ IsSelf /\ (q.excludeSelf \/ ~LimitMet)
    /\ todo' = Tail(todo)
    /\ UNCHANGED <<graph, q, st, cur, scF, scT, scTmp, dists, sink, best, used, reserved, cancelled>>

StopAtLimit ==
    /\ AtPair /\ LimitMet /\ ~(q.excludeSelf /\ IsSelf)
    /\ st' = "done"
    /\ UNCHANGED <<graph, q, todo, cur, scF, scT, scTmp, dists, sink, best, used, reserved, cancelled>>

PairsCancelled ==
    /\ st = "pairs" /\ cur = NoSearch /\ todo # <<>> /\ cancelled
    /\ st' = "cancelled"
    /\ UNCHANGED <<graph, q, todo, cur, scF, scT, scTmp, dists, sink, best, used, reserved, cancelled>>

(* One level of pairShortest, on the smaller frontier. *)
SearchLimit == IF cur.d >= 0 /\ cur.d < cur.depth THEN cur.d ELSE cur.depth
Searching == cur.frontF # {} /\ cur.frontB # {} /\ cur.levF + cur.levB < SearchLimit
Meet(there, next, lev) ==
    {lev + there.dist[w] : w \in {n \in next : Seen(there, n)}} \cup (IF cur.d >= 0 THEN {cur.d} ELSE {})
Shorter(S) == IF S = {} THEN -1 ELSE Min(S)
ExpandLevel ==
    /\ st = "pairs" /\ cur # NoSearch /\ Searching
    /\ IF Cardinality(cur.frontF) <= Cardinality(cur.frontB)
       THEN LET next == NextFrontier(scF, cur.frontF, TRUE)
            IN  /\ scF' = SetAll(scF, next, cur.levF + 1)
                /\ cur' = [cur EXCEPT !.frontF = next, !.levF = @ + 1, !.d = Shorter(Meet(scTmp, next, cur.levF + 1))]
                /\ UNCHANGED scTmp
       ELSE LET next == NextFrontier(scTmp, cur.frontB, FALSE)
            IN  /\ scTmp' = SetAll(scTmp, next, cur.levB + 1)
                /\ cur' = [cur EXCEPT !.frontB = next, !.levB = @ + 1, !.d = Shorter(Meet(scF, next, cur.levB + 1))]
                /\ UNCHANGED scF
    /\ UNCHANGED <<graph, q, st, todo, scT, dists, sink, best, used, reserved, cancelled>>

(* The search is over: both sides are searched again to that depth, and the pair's paths collected. *)
SettlePair ==
    /\ st = "pairs" /\ cur # NoSearch /\ ~Searching
    /\ cur' = NoSearch
    /\ \/ cur.d < 0 /\ UNCHANGED <<scF, scT, st, sink, best, used>>
       \/ /\ cur.d >= 0
          /\ \E f \in {BfsFrom(cur.r, TRUE, cur.d, scF)}, b \in {BfsFrom(cur.t, FALSE, cur.d, scT)} :
                /\ scF' = f /\ scT' = b
                /\ IF Admits(cur.d)
                   THEN Collect(cur.d, PairEnumerate(cur.r, cur.t, cur.d, f, b, Cap, SinkAfter(cur.d), UsedAfter(cur.d)))
                   ELSE UNCHANGED <<st, sink, best, used>>
    /\ UNCHANGED <<graph, q, todo, scTmp, dists, reserved, cancelled>>

(***************************************************************************)
(* Strategy B: one BFS per small-side element, in any order; then the pairs *)
(* in ascending order.                                                     *)
(***************************************************************************)
SearchElement(e) ==
    /\ st = "bfs" /\ e \in SmallSide \ DOMAIN dists
    /\ IF cancelled THEN st' = "cancelled" /\ UNCHANGED dists
       ELSE /\ st' = IF SmallSide = DOMAIN dists \cup {e} THEN "merge" ELSE st
            /\ \E sc \in {FreshScratch, PooledScratch} :
                  dists' = [x \in DOMAIN dists \cup {e} |-> IF x = e THEN BfsFrom(e, RootSide, q.depth, sc) ELSE dists[x]]
    /\ UNCHANGED <<graph, q, todo, cur, scF, scT, scTmp, sink, best, used, reserved, cancelled>>

(* cancel.step asks the context only once per many iterations: it may be asked at any of them. *)
MergeCancelled ==
    /\ st = "merge" /\ cancelled
    /\ st' = "cancelled"
    /\ UNCHANGED <<graph, q, todo, cur, scF, scT, scTmp, dists, sink, best, used, reserved, cancelled>>

MergePair ==
    /\ st = "merge" /\ todo # <<>>
    /\ LET r == Head(todo)[1]
           t == Head(todo)[2]
           sc == dists[IF RootSide THEN r ELSE t]
           from == IF RootSide THEN t ELSE r
           full == q.mode # "all" /\ CapReached
       IN  /\ todo' = Tail(todo)
           /\ IF (q.excludeSelf /\ r = t) \/ ~Seen(sc, from) THEN UNCHANGED <<st, sink, best, used>>
              ELSE IF full THEN st' = "done" /\ UNCHANGED <<sink, best, used>>
              ELSE IF q.mode = "all" /\ ~Admits(sc.dist[from]) THEN UNCHANGED <<st, sink, best, used>>
              ELSE Collect(sc.dist[from], Enumerate(from, sc, Cap, SinkAfter(sc.dist[from]), UsedAfter(sc.dist[from]), ~RootSide))
    /\ UNCHANGED <<graph, q, cur, scF, scT, scTmp, dists, reserved, cancelled>>

Finish ==
    /\ st \in {"pairs", "merge"} /\ cur = NoSearch /\ todo = <<>>
    /\ st' = "done"
    /\ UNCHANGED <<graph, q, todo, cur, scF, scT, scTmp, dists, sink, best, used, reserved, cancelled>>

Init ==
    /\ graph \in Graphs /\ q \in Queries
    /\ st = "new" /\ todo = <<>> /\ cur = NoSearch
    /\ scF = PooledScratch /\ scT = FreshScratch /\ scTmp = FreshScratch
    /\ dists = [x \in {} |-> FreshScratch]
    /\ sink = <<>> /\ best = 0 /\ used = 0 /\ reserved = 0 /\ cancelled = FALSE

Next == \/ Dispatch \/ CancelRequest \/ StartPair \/ SkipSelf \/ StopAtLimit \/ PairsCancelled \/ ExpandLevel \/ SettlePair
        \/ (\E e \in NodeIds : SearchElement(e)) \/ MergeCancelled \/ MergePair \/ Finish
Spec == Init /\ [][Next]_vars /\ WF_vars(Next)

(***************************************************************************)
(* The reference: every simple walk of a root, and from them the answer.    *)
(***************************************************************************)
EndsOf(path) == <<path.nodes[1], Last(path.nodes)>>
WalksFrom(r) ==
    LET all[i \in 0..q.depth] ==
            IF i = 0 THEN {[nodes |-> <<r>>, kinds |-> <<>>]}
            ELSE UNION {{[nodes |-> Append(p.nodes, a[1]), kinds |-> Append(p.kinds, a[2])] :
                            a \in {x \in Adjacent(Last(p.nodes), TRUE) : x[1] \notin ToSet(p.nodes)}} : p \in all[i - 1]}
    IN  UNION {all[i] : i \in 1..q.depth}
Shortest(paths) == {p \in paths : \A o \in paths : Len(p.nodes) <= Len(o.nodes)}
Answer ==
    LET walks == {p \in UNION {WalksFrom(r) : r \in q.roots} : Last(p.nodes) \in q.terms}
    IN  IF q.mode = "all" THEN Shortest(walks)
        ELSE UNION {Shortest({p \in walks : EndsOf(p) = e}) : e \in {EndsOf(p) : p \in walks}}
Before(a, b) == a[1] < b[1] \/ (a[1] = b[1] /\ a[2] < b[2])

(***************************************************************************)
(* Properties.                                                             *)
(***************************************************************************)
(* A traversal that is answered returns shortest paths only, each once,     *)
(* ordered by root and terminal, as many as there are or as the limit       *)
(* allows: the same for both strategies, whichever frontier moved first,    *)
(* at the depth limit, on cycles and through parallel edges.                *)
ServedPathsAreTheShortest ==
    st = "done" =>
        LET answer == Answer
            size == Cardinality(IF q.mode = "one" THEN {EndsOf(p) : p \in answer} ELSE answer)
        IN  /\ IsInjective(sink)
            /\ ToSet(sink) \subseteq answer
            /\ \A i \in 1..(Len(sink) - 1) : ~Before(EndsOf(sink[i + 1]), EndsOf(sink[i]))
            /\ q.mode = "one" => \A i, j \in DOMAIN sink : i # j => EndsOf(sink[i]) # EndsOf(sink[j])
            /\ Len(sink) = IF q.limit = NoLimit THEN size ELSE Min({q.limit, size})

(* The memory charged to a query is what its result and its buffers hold:   *)
(* a result started over releases what the discarded paths were charged,    *)
(* and the limit is never exceeded.                                         *)
ChargedIsHeld ==
    /\ used = FoldSeq(LAMBDA p, n : n + Charge(Len(p.nodes)), 0, sink)
    /\ q.memory > 0 => reserved + used <= q.memory

(* Every traversal ends: served, declined, cancelled or out of memory. *)
TraversalEnds == <>(st \in {"done", "tooLarge", "cancelled", "memory"})
=============================================================================
