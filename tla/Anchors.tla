------------------------------ MODULE Anchors ------------------------------
(***************************************************************************)
(* Planning and scanning one node symbol: each WHERE conjunct over the      *)
(* symbol alone is pushed down and may replace the candidates the symbol is *)
(* enumerated from (an id, an object id, an index lookup), and the anchor   *)
(* scan then visits the cheapest source and tests every candidate in full.  *)
(*                                                                         *)
(* A conjunct is a record.  op "equals", "prefix", "suffix", "contains",    *)
(* "regex" compares the property, spelt by form (plain, parenthesised or    *)
(* under COALESCE with a string default def), with needle or, for a regex,  *)
(* the set of accepted strings; "in" is membership in a list of strings;    *)
(* "value" a disjunction of equalities and list memberships; "id" and       *)
(* "kind" test the node.  Where LIKE does not escape the needle, AnyOne is  *)
(* its `_` and AnyRun its `%`.                                              *)
(***************************************************************************)
EXTENDS PropIndex

CONSTANTS
    Bases,              \* what the base may hold: functions from base nodes to values
    Deltas,             \* what the segments may have written: functions from nodes
    KindSets,           \* the nodes the kind "k" may have (the live ones among them)
    Conjuncts,          \* the conjuncts a query may push down
    EdgeHints,          \* endpoint sets of a mandatory step, or NoHint
    Seeds,              \* the nodes an OPTIONAL MATCH's mandatory rows may bind
    MaxConjuncts,       \* bound: conjuncts per query
    MaxQueries,         \* bound: queries against one view
    RegexAnchorMargin, ValueAnchorMargin


AnyOne == 0
AnyRun == -1
NoHint == {-1}
NoOID == <<-1>>

VARIABLES
    view, kindNodes,    \* the immutable snapshot
    named,              \* whether the property is "objectid"
    memo,               \* the distinct-value count kept with the snapshot
    nc,                 \* the symbol's NodeConstraint
    rejected,           \* Plan declined the query
    hint, seed,         \* the step's endpoint set; the OPTIONAL MATCH's seed
    queries

vars == <<view, kindNodes, named, memo, nc, rejected, hint, seed, queries>>

Nodes == DOMAIN view.delta
LiveNodes == {n \in Nodes : Alive(view, n)}
NodeCount == Cardinality({n \in Nodes : n \in DOMAIN view.base \/ Alive(view, n)})

EmptyConstraint == [kinds |-> FALSE, ids |-> {}, oid |-> NoOID, preds |-> {}, cand |-> <<>>, indexed |-> FALSE]

(***************************************************************************)
(* What a conjunct means: PostgreSQL compares the text of the value, except *)
(* for a bare equality, which is typed.                                     *)
(***************************************************************************)
Text(val) ==
    CASE val.t \in {"string", "number", "object"} -> val.s
      [] val.t = "list" -> <<9>> \o FlattenSeq([i \in DOMAIN val.e |-> val.e[i].s]) \o <<9>>
      [] OTHER -> NoOID
SubjectText(val, c) ==
    IF val.t \in {"null", "absent"} THEN (IF c.form = "coalesce" THEN c.def ELSE NoOID) ELSE Text(val)

RECURSIVE Like(_, _)
Like(p, s) ==
    IF p = <<>> THEN s = <<>>
    ELSE \/ Head(p) = AnyRun /\ (Like(Tail(p), s) \/ (s # <<>> /\ Like(p, Tail(s))))
         \/ Head(p) # AnyRun /\ s # <<>> /\ Head(p) \in {AnyOne, Head(s)} /\ Like(Tail(p), Tail(s))

(* likeNeedle: only a plain property gets its needle escaped. *)
LikeNeedle(c) == c.form # "plain"
LikePattern(c) ==
    CASE c.op = "prefix" -> c.needle \o <<AnyRun>>
      [] c.op = "suffix" -> <<AnyRun>> \o c.needle
      [] OTHER           -> <<AnyRun>> \o c.needle \o <<AnyRun>>
TextMatches(text, c) ==
    /\ text # NoOID
    /\ CASE c.op = "regex"  -> text \in c.accepted
         [] c.op = "equals" -> text = c.needle
         [] OTHER -> IF LikeNeedle(c) THEN Like(LikePattern(c), text) ELSE MatchString(text, c.op, c.needle)
TermHolds(val, t) ==
    IF t.element THEN val.t = "list" /\ \E i \in DOMAIN val.e : Text(val.e[i]) = Text(t.val) ELSE val = t.val
Holds(n, c) ==
    LET val == ValueOf(view, n)
    IN  CASE c.op = "id"   -> n = c.node
          [] c.op = "kind" -> n \in kindNodes
          [] c.op = "in"   -> val.t \notin {"null", "absent"} /\ Text(val) \in c.accepted
          [] c.op = "value" -> \E i \in DOMAIN c.terms : TermHolds(val, c.terms[i])
          [] c.op = "equals" /\ c.form # "coalesce" -> val = String(c.needle)
          [] OTHER -> TextMatches(SubjectText(val, c), c)

(***************************************************************************)
(* Pricing: what the symbol would be enumerated from otherwise.             *)
(***************************************************************************)
SmallestKindCount(k) == IF k.kinds THEN Cardinality(kindNodes) ELSE -1
Alternative(k) == IF k.kinds THEN Cardinality(kindNodes) ELSE NodeCount
ValueAnchorBudget(k) ==
    LET base == IF k.kinds THEN Min({NodeCount, Cardinality(kindNodes)}) ELSE NodeCount
    IN  IF k.indexed THEN Min({base, Len(k.cand)}) ELSE base
StringAnchorWorthIt(k, match) ==
    match = "contains" /\ k.kinds => PropCount(view) < SmallestKindCount(k)

(***************************************************************************)
(* The literal runs of a LIKE pattern: the leading, trailing or longest one. *)
(***************************************************************************)
IsLiteralRun(p, i, j) == \A x \in i..j : p[x] \notin {AnyOne, AnyRun}
Runs(p) == {<<i, j>> \in (1..Len(p)) \X (1..Len(p)) :
               /\ i <= j /\ IsLiteralRun(p, i, j)
               /\ i > 1 => p[i - 1] \in {AnyOne, AnyRun}
               /\ j < Len(p) => p[j + 1] \in {AnyOne, AnyRun}}
Longest(rs) == CHOOSE r \in rs : \A q \in rs : \/ q[2] - q[1] < r[2] - r[1]
                                               \/ q[2] - q[1] = r[2] - r[1] /\ r[1] <= q[1]
NoRun == NoOID
LikePatternRun(c) ==
    LET p == LikePattern(c)
        rs == CASE c.op = "prefix" -> {r \in Runs(p) : r[1] = 1}
                [] c.op = "suffix" -> {r \in Runs(p) : r[2] = Len(p)}
                [] OTHER           -> Runs(p)
    IN  IF rs = {} THEN NoRun ELSE SubSeq(p, Longest(rs)[1], Longest(rs)[2])

(* coalesceDefaultRejects and likeCoalesceAnchor: a node without the property is tested on the default. *)
DefaultRejects(c) == c.form = "coalesce" => ~TextMatches(c.def, c)

(***************************************************************************)
(* The extractions, in the order pushdown runs them.                        *)
(***************************************************************************)
ExtractObjectID(k, c) ==
    IF named /\ c.op = "equals" /\ c.form # "coalesce" THEN [k EXCEPT !.oid = c.needle] ELSE k
ExtractKind(k, c) == IF c.op = "kind" THEN [k EXCEPT !.kinds = TRUE] ELSE k

WithCandidates(k, ids) == [k EXCEPT !.cand = ids, !.indexed = TRUE]
StringOperand(c) == IF c.op # "equals" /\ LikeNeedle(c) THEN LikePatternRun(c) ELSE c.needle
AnchorableString(k, c) ==
    /\ ~k.indexed
    /\ DefaultRejects(c)
    /\ StringOperand(c) # NoRun
    /\ (c.op # "equals" \/ c.form = "coalesce") => StringValuesOnly(view)
    /\ Interned(view) => StringAnchorWorthIt(k, c.op)
ExtractString(k, c) ==
    CASE c.op \in {"equals", "prefix", "suffix", "contains"} /\ AnchorableString(k, c) ->
           WithCandidates(k, NodesWithStringByName(view, c.op, StringOperand(c)))
      [] c.op = "in" /\ ~k.indexed /\ StringValuesOnly(view) ->
           WithCandidates(k, Ascending(UNION {ToSet(NodesWithStringByName(view, "equals", s)) : s \in c.accepted}))
      [] OTHER -> k

(* valueAnchorTerms: every arm of a disjunction must be an exact lookup. *)
TermServed(t) == t.element => t.val.t = "string" /\ StringListValuesOnly(view)
ValueTerms(c) ==
    CASE c.op = "value" /\ (\A i \in DOMAIN c.terms : TermServed(c.terms[i])) -> c.terms
      [] c.op = "equals" /\ c.form # "coalesce" -> <<[val |-> String(c.needle), element |-> FALSE]>>
      [] OTHER -> <<>>
ExtractValue(k, c) ==
    LET ts == ValueTerms(c)
        postings(i) == ValuePostings(view, ts[i].val, ts[i].element)
        total == FoldSeq(+, 0, [i \in DOMAIN ts |-> ValuePostingCount(view, ts[i].val, ts[i].element)])
    IN  IF ts = <<>> \/ total * ValueAnchorMargin > ValueAnchorBudget(k) THEN k
        ELSE WithCandidates(k, IF Len(ts) = 1 THEN postings(1)
                               ELSE Ascending(UNION {ToSet(postings(i)) : i \in DOMAIN ts}))

RegexCap(k) == Alternative(k) \div RegexAnchorMargin
RegexAsked(k, c) == c.op = "regex" /\ ~k.indexed /\ RegexCap(k) >= 1 /\ Interned(view)
RegexAnswer(k) == StringDistinctAtMost(view, memo, RegexCap(k))
ExtractRegex(k, c) ==
    LET found == NodesMatchingString(view, c.accepted)
    IN  IF /\ RegexAsked(k, c) /\ RegexAnswer(k).exact /\ RegexAnswer(k).n # 0
           /\ DefaultRejects(c)
           /\ found.ok /\ Len(found.ids) < Alternative(k)
        THEN WithCandidates(k, found.ids) ELSE k

(***************************************************************************)
(* Actions.                                                                *)
(***************************************************************************)
Init ==
    /\ \E b \in Bases, d \in Deltas : view = [base |-> b, delta |-> d]
    /\ \E ks \in KindSets : kindNodes = ks \cap LiveNodes
    /\ named \in BOOLEAN
    /\ memo = NoMemo
    /\ nc = EmptyConstraint /\ rejected = FALSE
    /\ hint = NoHint /\ seed = Nodes
    /\ queries = 1

Pushdown(c) ==
    /\ ~rejected /\ seed = Nodes /\ Cardinality(nc.preds) < MaxConjuncts /\ c \notin nc.preds
    /\ LET conflict == c.op = "id" /\ nc.ids # {} /\ nc.ids # {c.node}
           k0 == [nc EXCEPT !.preds = @ \cup {c}, !.ids = IF c.op = "id" THEN @ \cup {c.node} ELSE @]
           k1 == ExtractKind(ExtractObjectID(k0, c), c)
           k2 == ExtractValue(ExtractString(k1, c), c)
       IN  /\ rejected' = conflict
           /\ nc' = IF conflict THEN nc ELSE ExtractRegex(k2, c)
           /\ memo' = IF ~conflict /\ RegexAsked(k2, c) THEN RegexAnswer(k2).memo ELSE memo
    /\ UNCHANGED <<view, kindNodes, named, hint, seed, queries>>

(* newEdgeHint: a step that mandates a hop offers the endpoints of its kinds. *)
OfferHint ==
    /\ hint = NoHint /\ nc.preds # {}
    /\ hint' \in EdgeHints \ {NoHint}
    /\ UNCHANGED <<view, kindNodes, named, memo, nc, rejected, seed, queries>>

(* seedOptionalPart: the symbol is restricted to what the mandatory rows bound. *)
SeedOptional(ids) ==
    /\ seed = Nodes /\ ids # {} /\ ids # Nodes /\ ids \subseteq LiveNodes
    /\ seed' = ids
    /\ nc' = WithCandidates(nc, Ascending(IF nc.indexed THEN ids \cap ToSet(nc.cand) ELSE ids))
    /\ UNCHANGED <<view, kindNodes, named, memo, rejected, hint, queries>>

NextQuery ==
    /\ queries < MaxQueries /\ nc.preds # {}
    /\ queries' = queries + 1
    /\ nc' = EmptyConstraint /\ rejected' = FALSE /\ hint' = NoHint /\ seed' = Nodes
    /\ UNCHANGED <<view, kindNodes, named, memo>>

Next == (\E c \in Conjuncts : Pushdown(c)) \/ OfferHint \/ (\E ids \in Seeds : SeedOptional(ids)) \/ NextQuery
Spec == Init /\ [][Next]_vars

(***************************************************************************)
(* scanAnchorVisit: the source it takes its candidates from, and the rows.  *)
(***************************************************************************)
OtherwiseEnumerated ==
    Min({NodeCount} \cup (IF nc.kinds THEN {Cardinality(kindNodes)} ELSE {})
                    \cup (IF nc.indexed THEN {Len(nc.cand)} ELSE {}))
EdgeHintPreferred == hint # NoHint /\ nc.ids = {} /\ nc.oid = NoOID /\ Cardinality(hint) < OtherwiseEnumerated
PropIndexPreferred == nc.indexed /\ (nc.kinds => Len(nc.cand) <= Cardinality(kindNodes))
Candidates ==
    CASE nc.ids # {} -> Ascending(nc.ids)
      [] nc.ids = {} /\ nc.oid # NoOID -> Ascending({n \in LiveNodes : ValueOf(view, n) = String(nc.oid)})
      [] EdgeHintPreferred -> Ascending(hint)
      [] nc.ids = {} /\ nc.oid = NoOID /\ ~EdgeHintPreferred /\ PropIndexPreferred -> nc.cand
      [] nc.ids = {} /\ nc.oid = NoOID /\ ~EdgeHintPreferred /\ ~PropIndexPreferred /\ nc.kinds -> Ascending(kindNodes)
      [] OTHER -> Ascending(Nodes)
Admitted(n) == n \in Nodes /\ Alive(view, n) /\ \A c \in nc.preds : Holds(n, c)
Rows == SelectSeq(Candidates, Admitted)

(***************************************************************************)
(* Properties.                                                             *)
(***************************************************************************)
(* The rows a symbol is bound to are every node that satisfies all its      *)
(* conjuncts, exactly once: whatever index, hint or seed they came from,    *)
(* and whatever an overlay wrote behind the index.  (A hint binds only      *)
(* nodes of the step, a seed only nodes the mandatory rows bound.)          *)
RowsAreTheMatches ==
    ~rejected =>
        /\ IsInjective(Rows)
        /\ {n \in LiveNodes : \A c \in nc.preds : Holds(n, c)} \cap seed \cap (IF hint = NoHint THEN Nodes ELSE hint)
             \subseteq ToSet(Rows)
=============================================================================
