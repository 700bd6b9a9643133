---- MODULE AnchorsCases ----
(* What instances of Anchors draw on: two or three base nodes and one the delta may add. *)
EXTENDS PropIndex

S(s) == String(s)
Scalars == {Absent, Null, S(<<>>), S(<<1>>), S(<<2>>), S(<<1, 2>>), Number(<<1>>)}
Lists == {List(<<>>), List(<<S(<<1>>), S(<<1>>)>>), List(<<Number(<<1>>)>>), Object}
FewValues == {Absent, S(<<1>>), Number(<<1>>), List(<<S(<<1>>)>>)}

AllBases == {<<a, b>> : a \in Scalars \cup Lists, b \in {Absent, S(<<1>>), S(<<2, 1>>)}}
AllDeltas == {<<a, Untouched, b>> : a \in {Untouched, Tombstone, Absent, S(<<1>>), S(<<2>>)},
                                    b \in {Untouched, S(<<1>>), S(<<2, 1>>), Object, Null} \cup Lists}
FewBases == {<<a, b, S(<<2>>)>> : a \in FewValues, b \in {S(<<1>>), List(<<S(<<1>>)>>)}}
FewDeltas == {<<Untouched, a, Untouched, b>> : a \in {Untouched, Tombstone, S(<<1>>)}, b \in {Untouched, S(<<1>>), S(<<2, 1>>)}}

Str(op, form, needle, def) == [op |-> op, form |-> form, needle |-> needle, def |-> def]
Regex(form, acc, def) == [op |-> "regex", form |-> form, accepted |-> acc, def |-> def]
ValueOr(ts) == [op |-> "value", terms |-> ts]
Term(v, e) == [val |-> v, element |-> e]
In(acc) == [op |-> "in", accepted |-> acc]
Id(n) == [op |-> "id", node |-> n]
Kind == [op |-> "kind"]

AllConjuncts ==
    {Str(op, "plain", n, <<>>) : op \in {"equals", "prefix", "suffix", "contains"}, n \in {<<1>>, <<2>>}} \cup
    {Str(op, "coalesce", n, d) : op \in {"equals", "prefix", "suffix", "contains"}, n \in {<<1>>, <<>>}, d \in {<<>>, <<1>>}} \cup
    {Str(op, "paren", n, <<>>) : op \in {"prefix", "suffix", "contains"}, n \in {<<1, 0>>, <<0, 1>>, <<0>>, <<1, -1, 2>>}} \cup
    {Regex("plain", {<<1>>, <<1, 2>>}, <<>>), Regex("coalesce", {<<>>, <<1>>}, <<>>), Regex("coalesce", {<<1>>}, <<2>>)} \cup
    {In({<<1>>}), In({<<1>>, <<1, 2>>})} \cup
    {ValueOr(<<Term(Number(<<1>>), FALSE)>>), ValueOr(<<Term(S(<<1>>), TRUE)>>),
     ValueOr(<<Term(S(<<1>>), TRUE), Term(S(<<2>>), TRUE)>>), ValueOr(<<Term(S(<<2>>), FALSE), Term(Number(<<1>>), TRUE)>>)}
FewConjuncts ==
    {Str("equals", "plain", <<1>>, <<>>), Str("suffix", "plain", <<1>>, <<>>), Str("contains", "coalesce", <<1>>, <<>>),
     Regex("plain", {<<1>>}, <<>>), ValueOr(<<Term(S(<<1>>), TRUE)>>), ValueOr(<<Term(Number(<<1>>), FALSE), Term(S(<<1>>), FALSE)>>),
     Id(1), Id(4), Kind}

OneKindSet == {{1, 2, 3}}
SomeKindSets == {{1}, {1, 2, 3, 4}}
NoHints == {{-1}}
SomeHints == {{1}, {1, 4}}
NoSeeds == {}
SomeSeeds == {{1}, {2, 3}}
====
