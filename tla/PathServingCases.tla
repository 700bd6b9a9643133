---- MODULE PathServingCases ----
(* What instances of PathServing draw on: a diamond with a chord, small enough that every   *)
(* row an answer needs can be deleted, changed or recreated at any point.      *)
EXTENDS Integers, Sequences

E(id, s, e, k) == [id |-> id, s |-> s, e |-> e, kind |-> k, ver |-> 1]
Db(nodes, edges) == [nodes |-> [n \in nodes |-> 1], edges |-> edges, foreign |-> FALSE]

Diamond == {E(1, 1, 2, 1), E(2, 2, 4, 1), E(3, 1, 3, 2), E(4, 3, 4, 1)}
Uneven == {E(1, 1, 2, 1), E(2, 2, 4, 2), E(3, 3, 4, 1)}

Databases == {Db(1 .. 4, Diamond), [Db(1 .. 4, Uneven) EXCEPT !.foreign = TRUE]}

Id(v, n) == [t |-> "id", var |-> v, id |-> n]
Rel(v, ks) == [t |-> "kinds", var |-> v, kinds |-> ks]
Other == [t |-> "other"]

PathCriteria ==
    {<<Id("s", 1), Id("e", 4)>>, <<Id("s", 1), Id("e", 4), Rel("r", {1}), Rel("r", {2})>>,
     <<Id("s", 1), Id("e", 4), Rel("r", {})>>, <<Id("s", 1), Id("s", 2), Id("e", 4)>>, <<Id("s", 1), Id("e", 4), Other>>,
     <<Id("s", 1), Id("e", 1)>>, <<Id("s", 5), Id("e", 4)>>, <<Id("e", 4)>>}

Edges(roots, terms, kinds) == [roots |-> roots, terms |-> terms, kinds |-> kinds, how |-> "edge", harnesses |-> {}]
AllShortest(roots, terms, kinds, hs) == [roots |-> roots, terms |-> terms, kinds |-> kinds, how |-> "asp", harnesses |-> hs]

CypherQueries ==
    {<<AllShortest({1, 3}, {4}, {}, {"perPair"})>>, <<AllShortest({1, 3}, {4}, {}, {"overall", "perPair"})>>, <<AllShortest({1}, {4}, {}, {})>>,
     <<AllShortest({1}, {4}, {1}, {"overall"}), Edges({1, 2, 3}, {4}, {})>>,
     <<Edges({1, 3}, 1 .. 4, {1})>>, <<AllShortest({1}, {1, 4}, {}, {"overall"})>>,
     <<Edges({1}, {4}, {3})>>}

====
