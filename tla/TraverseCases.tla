---- MODULE TraverseCases ----
(* What instances of Traverse draw on: chains with shortcuts and cycles, and parallel edges of two kinds. *)
EXTENDS Integers, Sequences

(* A query: endpoint sets, unconstrained ones flagged; kinds admitted; mode all | perPair | one. *)
Query(roots, rootsAll, terms, termsAll, kinds, mode, depth, limit, excludeSelf, memory) ==
    [roots |-> roots, rootsAll |-> rootsAll, terms |-> terms, termsAll |-> termsAll, kinds |-> kinds, mode |-> mode,
     depth |-> depth, limit |-> limit, excludeSelf |-> excludeSelf, memory |-> memory]

E(a, b, k) == [from |-> a, to |-> b, kind |-> k]
Chain == {E(1, 2, 1), E(2, 3, 1), E(3, 4, 1)}
ChainGraphs == {Chain \cup X : X \in SUBSET {E(4, 5, 1), E(2, 5, 1)}}
LongGraphs == {Chain \cup X : X \in SUBSET {E(4, 5, 1), E(1, 3, 1), E(2, 5, 1), E(4, 2, 1)}}
ParallelGraphs == SUBSET {E(1, 2, 1), E(1, 2, 2), E(2, 3, 1), E(1, 3, 2), E(3, 1, 1), E(1, 1, 1)}

FewQueries == {Query({1, 2}, FALSE, {4, 5}, FALSE, {1}, m, 3, l, FALSE, 0) : m \in {"all", "perPair"}, l \in {1, 9}}
LongQueries ==
    {Query(e[1], FALSE, e[2], FALSE, {1}, m, d, l, FALSE, 0) :
        e \in {<<{1}, {5}>>, <<{1, 2}, {4, 5}>>, <<{1, 4}, {1, 5}>>}, m \in {"all", "perPair", "one"}, d \in {2, 3, 4}, l \in {0, 1}}
    \cup {Query(1 .. 5, TRUE, {5}, FALSE, {1}, m, 3, l, TRUE, 0) : m \in {"all", "one"}, l \in {0, 2}}
ParallelQueries ==
    {Query(e[1], e[2], e[3], e[4], ks, m, 2, l, x, b) :
        e \in {<<{1}, FALSE, {3}, FALSE>>, <<{1, 2}, FALSE, 1 .. 3, TRUE>>, <<1 .. 3, TRUE, {3}, FALSE>>, <<1 .. 3, TRUE, 1 .. 3, TRUE>>},
        ks \in {{1}, {1, 2}}, m \in {"all", "perPair", "one"}, l \in {0, 1}, x \in BOOLEAN, b \in {0, 8}}
====
