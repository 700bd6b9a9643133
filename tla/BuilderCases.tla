---- MODULE BuilderCases ----
(* What instances of Builder draw on: three nodes, kinds 1 and 3 of a table with a gap. *)
EXTENDS Integers, Sequences, FiniteSets

E(i, s, e, k) == [id |-> i, s |-> s, e |-> e, kind |-> k]
G(ks, es) == [kinds |-> ks, edges |-> es]

KindSeqs == {<<{1}, {3}, {1, 3}>>, <<{1, 3}, {}, {3}>>}
EdgeSets == {{E(1, 1, 2, 1), E(2, 1, 3, 3), E(3, 2, 1, 3), E(4, 2, 2, 1)},
             {E(1, 3, 2, 3), E(2, 3, 1, 1), E(3, 1, 2, 3), E(4, 1, 2, 1)}}
AllGraphs == {G(ks, es) : ks \in KindSeqs, es \in EdgeSets}
TwoGraphs == {G(<<{1}, {3}, {1, 3}>>, {E(1, 3, 2, 3), E(2, 3, 1, 1), E(3, 1, 2, 1)}),
              G(<<{1}, {1}>>, {E(3, 1, 2, 1), E(4, 2, 1, 1), E(5, 1, 1, 3)})}
OneGraph == {G(<<{1}, {3}, {1, 3}>>, {E(1, 3, 2, 3), E(2, 3, 1, 1), E(3, 1, 2, 1)})}

EmptyGraph == G(<<>>, {})
NoForeign == {EmptyGraph}
SomeForeign == {EmptyGraph, [kinds |-> [n \in {9} |-> {1}], edges |-> {E(9, 9, 9, 1)}]}

K(var, ks, all) == [t |-> "kind", var |-> var, kinds |-> ks, all |-> all]
I(var, ids) == [t |-> "id", var |-> var, op |-> IF Cardinality(ids) = 1 THEN "=" ELSE "IN", ids |-> ids]
Not(var, id) == [t |-> "id", var |-> var, op |-> "<>", ids |-> {id}]
Other == [t |-> "other"]
KindSets == {{}, {1}, {3}, {1, 3}, {1, 7}}
IdSets == {{}, {1}, {2}, {1, 2}, {2, 3}, {8}}
NodeConjuncts == {K("n", ks, all) : ks \in KindSets, all \in BOOLEAN} \cup {I("n", ids) : ids \in IdSets} \cup {Other, I("s", {1}), Not("n", 1)}
RelConjuncts ==
    {K(v, ks, all) : v \in {"s", "e"}, ks \in {{1}, {1, 3}}, all \in BOOLEAN} \cup
    {K("r", ks, FALSE) : ks \in {{}, {1}, {3}, {7}}} \cup
    {I(v, ids) : v \in {"s", "e"}, ids \in {{}, {1}, {1, 2}, {2, 3}}} \cup {Other, I("r", {1}), Not("s", 1), K("n", {1}, FALSE)}

UpTo2(S) == {<<x>> : x \in S} \cup {<<x, y>> : x \in S, y \in S}
AllNodeCriteria == UpTo2(NodeConjuncts) \cup {<<x, I("n", {1, 2}), I("n", {2, 3})>> : x \in NodeConjuncts}
AllRelCriteria == UpTo2(RelConjuncts) \cup {<<I("s", {1, 2}), I("e", {2}), x>> : x \in RelConjuncts}
FewNodeCriteria == {<<K("n", {1}, FALSE)>>, <<K("n", {1}, FALSE), I("n", {1, 3})>>}
OneNodeCriteria == {<<K("n", {1}, FALSE)>>}
OneRelCriteria == {<<I("s", {1, 3})>>}
FewRelCriteria == {<<K("r", {1}, FALSE)>>, <<I("s", {1, 3})>>, <<I("e", {1, 2}), I("s", {1, 2, 3})>>}

By(v, asc) == [v |-> v, asc |-> asc]
NoOrders == {}
SomeOrders == {<<By("r", TRUE)>>, <<By("s", TRUE), By("r", FALSE)>>}

(* The three projections served, and two that look like them. *)
Column(f, v) == [f |-> f, v |-> v]
Step(v) == <<Column("id", v), Column("labels", v), Column("id", "r"), Column("type", "r")>>
AllProjections == {<<Column("id", "s"), Column("id", "e")>>, Step("e"), Step("s"), <<Column("id", "e"), Column("id", "s")>>,
                   <<Column("id", "e"), Column("labels", "s"), Column("id", "r"), Column("type", "r")>>}
====
