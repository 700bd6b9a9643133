----------------------------- MODULE PropIndex -----------------------------
(***************************************************************************)
(* The lazily built read indexes over ONE node property: the sorted string  *)
(* index, the exact-value postings, the type facts, and the delta postings  *)
(* an overlay adds to each.  A view is [base, delta]: base maps a           *)
(* base-resident node to its value of the property; delta says what the     *)
(* merged segments wrote for a node (Untouched: nothing).  A string is a    *)
(* sequence of letters.  Every index is a function of an immutable base or  *)
(* view, so building one once and keeping it is the same as this.           *)
(***************************************************************************)
EXTENDS Integers, Sequences, FiniteSets, FiniteSetsExt, SequencesExt

Val(t, s, e) == [s |-> s, e |-> e, t |-> t]
Absent    == Val("absent", <<>>, <<>>)      \* the node does not carry the property
Untouched == Val("untouched", <<>>, <<>>)   \* no segment wrote the node
Tombstone == Val("tombstone", <<>>, <<>>)
Null      == Val("null", <<>>, <<>>)
Object    == Val("object", <<9>>, <<>>)
String(s) == Val("string", s, <<>>)
Number(s) == Val("number", s, <<>>)         \* by its canonical spelling
List(e)   == Val("list", <<>>, e)

Overlay(v) == \E n \in DOMAIN v.delta : v.delta[n] # Untouched
Interned(v) == \E n \in DOMAIN v.base : v.base[n] # Absent
DeltaNodes(v) == {n \in DOMAIN v.delta : v.delta[n] \notin {Untouched, Tombstone, Absent}}

(* The value a live node carries now. *)
Alive(v, n) == IF v.delta[n] = Untouched THEN n \in DOMAIN v.base ELSE v.delta[n] # Tombstone
ValueOf(v, n) == IF v.delta[n] = Untouched THEN v.base[n] ELSE v.delta[n]

(***************************************************************************)
(* Strings.                                                                *)
(***************************************************************************)
StrLess(a, b) ==
    \E i \in 1..Len(b) : /\ i > Len(a) \/ a[i] < b[i]
                         /\ \A j \in 1..(i - 1) : j <= Len(a) /\ a[j] = b[j]
LessReversed(a, b) == StrLess(Reverse(a), Reverse(b))
IsInfix(x, s) == \E i \in 0..(Len(s) - Len(x)) : SubSeq(s, i + 1, i + Len(x)) = x
MatchString(s, match, operand) ==
    CASE match = "equals"   -> s = operand
      [] match = "prefix"   -> IsPrefix(operand, s)
      [] match = "suffix"   -> IsSuffix(operand, s)
      [] match = "contains" -> IsInfix(operand, s)

(* sort.Search: the bisection itself, which finds the first hit only over a sorted sequence. *)
Search(n, hit) ==
    LET bisect[i \in 0..n, j \in 0..n] ==
            IF i >= j THEN i
            ELSE LET h == (i + j) \div 2
                 IN  IF hit[h] THEN bisect[i, h] ELSE bisect[h + 1, j]
    IN  bisect[0, n]

(* The run of ids from position lo (0-based) up to the first that does not match. *)
RunFrom(ids, lo, matches) ==
    LET stops == {i \in (lo + 1)..Len(ids) : ids[i] \notin matches}
    IN  SubSeq(ids, lo + 1, IF stops = {} THEN Len(ids) ELSE Min(stops) - 1)

(***************************************************************************)
(* The base string index: the nodes carrying a string, ascending by value   *)
(* and ascending by the value read backward.                                *)
(***************************************************************************)
Present(v) == SetToSortSeq({n \in DOMAIN v.base : v.base[n].t = "string"}, <)
Forward(v) == SortSeq(Present(v), LAMBDA a, b : StrLess(v.base[a].s, v.base[b].s))
Backward(v) == SortSeq(Present(v), LAMBDA a, b : LessReversed(v.base[a].s, v.base[b].s))

NodesWithString(v, match, operand) ==
    LET str(n) == v.base[n].s
        rev == Backward(v)
        fwd == Forward(v)
    IN  CASE match = "contains" -> SelectSeq(Present(v), LAMBDA n : IsInfix(operand, str(n)))
          [] match = "suffix" ->
               RunFrom(rev, Search(Len(rev), [i \in 0..(Len(rev) - 1) |-> ~LessReversed(str(rev[i + 1]), operand)]),
                       {n \in ToSet(rev) : IsSuffix(operand, str(n))})
          [] OTHER ->
               RunFrom(fwd, Search(Len(fwd), [i \in 0..(Len(fwd) - 1) |-> ~StrLess(str(fwd[i + 1]), operand)]),
                       {n \in ToSet(fwd) : IsPrefix(operand, str(n)) /\ (match = "equals" => str(n) = operand)})

(***************************************************************************)
(* The delta's postings, and their union with the base's.                   *)
(***************************************************************************)
Ascending(S) == SetToSortSeq(S, <)
DeltaStrings(v) == Ascending({n \in DeltaNodes(v) : v.delta[n].t = "string"})
DeltaMatching(v, match, operand) ==
    SelectSeq(DeltaStrings(v), LAMBDA n : MatchString(v.delta[n].s, match, operand))
DeltaExact(v, val, element) ==
    Ascending({n \in DeltaNodes(v) : IF element
                                     THEN v.delta[n].t = "list" /\ val \in ToSet(v.delta[n].e)
                                     ELSE v.delta[n] = val})
DeltaCount(v) == Cardinality(DeltaNodes(v))

\* Broken on purpose: the delta's matches are appended to the base's, repeats and all.
UnionAppended(indexed, touched) == indexed \o touched
UnionDeltaTouched(indexed, touched) ==
    SelectSeq(indexed, LAMBDA n : n \notin ToSet(touched)) \o touched

NodesWithStringByName(v, match, operand) ==
    LET base == IF Interned(v) THEN NodesWithString(v, match, operand) ELSE <<>>
    IN  IF Overlay(v) THEN UnionDeltaTouched(base, DeltaMatching(v, match, operand)) ELSE base

PropCount(v) == Len(Present(v)) + (IF Overlay(v) THEN DeltaCount(v) ELSE 0)

(***************************************************************************)
(* The exact-value postings.  valueKey has no key for a list or an object.  *)
(***************************************************************************)
Keyable(val) == val.t \notin {"list", "object"}
BasePostings(v, val, element) ==
    Ascending({n \in DOMAIN v.base : IF element
                                     THEN v.base[n].t = "list" /\ val \in ToSet(v.base[n].e)
                                     ELSE v.base[n] = val})
ValuePostings(v, val, element) ==
    IF Overlay(v) THEN UnionDeltaTouched(BasePostings(v, val, element), DeltaExact(v, val, element))
    ELSE BasePostings(v, val, element)
ValuePostingCount(v, val, element) ==
    Len(BasePostings(v, val, element)) + (IF Overlay(v) THEN Len(DeltaExact(v, val, element)) ELSE 0)

(***************************************************************************)
(* Which JSON types the property takes, base and delta alike.               *)
(***************************************************************************)
NonString(val) == val.t \notin {"string", "null"}
NonStringList(val) ==
    /\ val.t # "null"
    /\ val.t = "list" => \E i \in DOMAIN val.e : val.e[i].t # "string"
BaseValues(v) == {v.base[n] : n \in DOMAIN v.base} \ {Absent}
DeltaValues(v) == {v.delta[n] : n \in DeltaNodes(v)}
StringValuesOnly(v) == \A val \in BaseValues(v) \cup DeltaValues(v) : ~NonString(val)
StringListValuesOnly(v) == \A val \in BaseValues(v) \cup DeltaValues(v) : ~NonStringList(val)

(***************************************************************************)
(* NodesMatchingString: the matcher runs once per distinct value.  FALSE in *)
(* .ok when the question cannot be answered from the index.                 *)
(***************************************************************************)
NodesMatchingString(v, accepted) ==
    LET base == Ascending({n \in DOMAIN v.base : v.base[n].t = "string" /\ v.base[n].s \in accepted})
        delta == SelectSeq(DeltaStrings(v), LAMBDA n : v.delta[n].s \in accepted)
    IN  CASE Interned(v) /\ \E val \in BaseValues(v) : NonString(val) \/ val = Null -> [ok |-> FALSE, ids |-> <<>>]
          [] Overlay(v) /\ \E val \in DeltaValues(v) : NonString(val) -> [ok |-> FALSE, ids |-> <<>>]
          [] OTHER -> [ok |-> TRUE, ids |-> IF Overlay(v) THEN UnionDeltaTouched(base, delta) ELSE base]

(***************************************************************************)
(* StringDistinctAtMost, which counts the distinct values of the base up to *)
(* a cap and remembers either the count or the lower bound it gave up at.   *)
(***************************************************************************)
NoMemo == [count |-> -1, atLeast |-> 0]
Distinct(v) == Cardinality({v.base[n].s : n \in ToSet(Present(v))})
StringDistinctAtMost(v, memo, cap) ==
    CASE memo.count >= 0 -> [memo |-> memo, exact |-> TRUE, n |-> memo.count]
      [] memo.count < 0 /\ memo.atLeast > cap -> [memo |-> memo, exact |-> FALSE, n |-> 0]
      [] memo.count < 0 /\ memo.atLeast <= cap /\ Distinct(v) > cap ->
           [memo |-> [memo EXCEPT !.atLeast = cap + 1], exact |-> FALSE, n |-> 0]
      [] OTHER -> [memo |-> [memo EXCEPT !.count = Distinct(v)], exact |-> TRUE, n |-> Distinct(v)]
=============================================================================
