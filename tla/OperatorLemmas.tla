--------------------------- MODULE OperatorLemmas ---------------------------
(***************************************************************************)
(* What the operators the models are built from return.                    *)
(*                                                                         *)
(* The ledger (WatermarkLedger), for every one whose values above through   *)
(* are bounded: advanceLocked stops where the unbroken run ends             *)
(* (EndOfRunProperties), and every operation keeps the bound.               *)
(*                                                                         *)
(* The in-memory graph (Overlay): the merge of a stack of segments is       *)
(* decided by the newest segment that names an id (MergeDecides,            *)
(* MergeOnTop), a segment appended lies over what was there (MergeAppend),  *)
(* and what a reader of a view sees are the rows whose ends are alive       *)
(* (EdgeState, WalkMeets, SeenEdges).                                       *)
(***************************************************************************)
EXTENDS WatermarkLedger, Overlay, FiniteSetTheorems, SequenceTheorems, WellFoundedInduction, TLAPS

\* Every nonempty set of naturals has a least element.
LEMMA LeastNatural ==
    ASSUME NEW T \in SUBSET Nat, T # {}
    PROVE  Min(T) \in T /\ \A k \in T : Min(T) <= k
<1>1. PICK m \in T : \A k \in T : <<k, m>> \notin OpToRel(<, Nat)
  BY NatLessThanWellFounded, WFMin
<1>2. \A k \in T : ~(k < m)
  BY <1>1 DEF OpToRel
<1>3. \A k \in T : m <= k
  BY <1>2
<1> QED BY <1>3 DEF Min

\* Every nonempty bounded set of naturals has a greatest element.
LEMMA GreatestNatural ==
    ASSUME NEW T \in SUBSET Nat, T # {}, NEW b \in Nat, \A k \in T : k <= b
    PROVE  Max(T) \in T /\ \A k \in T : k <= Max(T)
<1> DEFINE Bounds == {u \in Nat : \A k \in T : k <= u}
<1>1. Min(Bounds) \in Bounds /\ \A u \in Bounds : Min(Bounds) <= u
  BY LeastNatural
<1> DEFINE m == Min(Bounds)
<1> HIDE DEF m
<1>2. m \in Nat /\ (\A k \in T : k <= m) /\ \A u \in Nat : (\A k \in T : k <= u) => m <= u
  BY <1>1 DEF m
<1>3. m \in T
  <2> SUFFICES ASSUME m \notin T  PROVE FALSE
    OBVIOUS
  <2>1. \A k \in T : k <= m - 1
    BY <1>2
  <2>2. PICK k \in T : k <= m - 1
    BY <2>1
  <2>3. m - 1 \in Nat
    BY <1>2, <2>2
  <2> QED BY <1>2, <2>1, <2>3
<1>4. \E x \in T : \A y \in T : x >= y
  BY <1>2, <1>3
<1>5. Max(T) \in T /\ \A y \in T : Max(T) >= y
  BY <1>4 DEF Max
<1> QED BY <1>5
-----------------------------------------------------------------------------
\* EndOfRun is well defined on a bounded set: advanceLocked stops, and stops
\* where the unbroken run ends.
LEMMA EndOfRunProperties ==
    ASSUME NEW t \in Nat, NEW S \in SUBSET Nat, NEW b \in Nat, \A v \in S : v <= b
    PROVE  /\ EndOfRun(t, S) \in Nat
           /\ EndOfRun(t, S) \in S \cup {t}
           /\ EndOfRun(t, S) >= t
           /\ EndOfRun(t, S) + 1 \notin S
           /\ (t + 1) .. EndOfRun(t, S) \subseteq S
<1> DEFINE Stops == {n \in Nat : n >= t /\ n + 1 \notin S}
           P(n) == n >= t /\ n + 1 \notin S /\ (t + 1) .. n \subseteq S
<1>1. MaxOf(t, b) \in Stops
  BY DEF MaxOf
<1>2. PICK m \in Stops : \A k \in Stops : m <= k
  BY <1>1, LeastNatural
<1>3. ASSUME NEW k \in (t + 1) .. m PROVE k \in S
  <2>1. k - 1 \in Nat /\ k - 1 >= t /\ ~(m <= k - 1) /\ (k - 1) + 1 = k
    BY <1>2
  <2> QED BY <2>1, <1>2
<1>4. m \in S \cup {t} /\ P(m)
  <2>1. m = t \/ m \in (t + 1) .. m
    BY <1>2
  <2> QED BY <2>1, <1>2, <1>3
<1>5. EndOfRun(t, S) \in S \cup {t} /\ P(EndOfRun(t, S))
  <2>1. EndOfRun(t, S) = CHOOSE n \in S \cup {t} : P(n)
    BY DEF EndOfRun
  <2> HIDE DEF P
  <2> QED BY <1>4, <2>1
<1> QED BY <1>5
-----------------------------------------------------------------------------
\* advanceLocked: through moves to the end of the run above it, which what is
\* kept starts beyond; nothing else moves.
LEMMA AdvanceLockedProperties ==
    ASSUME NEW l \in Ledger, NEW b \in Nat, \A v \in l.above : v <= b
    PROVE  /\ AdvanceLocked(l) \in Ledger
           /\ AdvanceLocked(l).lost = l.lost
           /\ AdvanceLocked(l).highest = l.highest
           /\ AdvanceLocked(l).through >= l.through
           /\ (l.through + 1) .. AdvanceLocked(l).through \subseteq l.above
           /\ AdvanceLocked(l).through + 1 \notin l.above
           /\ AdvanceLocked(l).above = {v \in l.above : v > AdvanceLocked(l).through}
           /\ \A v \in AdvanceLocked(l).above : v > AdvanceLocked(l).through + 1
<1> DEFINE end == EndOfRun(l.through, l.above)
<1>1. l.through \in Nat /\ l.above \in SUBSET Nat
  BY DEF Ledger
<1>2. /\ end \in Nat /\ end >= l.through /\ end + 1 \notin l.above
      /\ (l.through + 1) .. end \subseteq l.above
  BY <1>1, EndOfRunProperties
<1>3. AdvanceLocked(l) = [l EXCEPT !.through = end, !.above = {v \in @ : v > end}]
  BY DEF AdvanceLocked
<1> HIDE DEF end
<1>4. /\ AdvanceLocked(l).through = end
      /\ AdvanceLocked(l).above = {v \in l.above : v > end}
      /\ AdvanceLocked(l).lost = l.lost
      /\ AdvanceLocked(l).highest = l.highest
      /\ AdvanceLocked(l) \in Ledger
  BY <1>1, <1>2, <1>3 DEF Ledger
<1>5. \A v \in l.above : v > end => v > end + 1
  BY <1>1, <1>2
<1> QED BY <1>2, <1>4, <1>5
-----------------------------------------------------------------------------
\* A ledger and the bound its values above through keep: no operation leaves
\* one that advanceLocked could run away on.
BoundedLedger(l) == l \in Ledger /\ \A v \in l.above : v <= l.highest

\* The larger of two numbers.
LEMMA MaxOfProperties ==
    ASSUME NEW a \in Nat, NEW b \in Nat
    PROVE  MaxOf(a, b) \in Nat /\ MaxOf(a, b) >= a /\ MaxOf(a, b) >= b
BY DEF MaxOf

\* The ledger a process starts with is bounded.
LEMMA NewLedgerBounded == BoundedLedger(NewLedger)
BY DEF BoundedLedger, NewLedger, Ledger

\* advanceLocked keeps the ledger bounded.
LEMMA AdvanceLockedBounded ==
    ASSUME NEW l, BoundedLedger(l)
    PROVE  BoundedLedger(AdvanceLocked(l))
<1>1. l \in Ledger /\ l.highest \in Nat /\ \A v \in l.above : v <= l.highest
  BY DEF BoundedLedger, Ledger
<1> QED BY <1>1, AdvanceLockedProperties DEF BoundedLedger

\* resolve keeps the ledger bounded.
LEMMA ResolveBounded ==
    ASSUME NEW l, BoundedLedger(l), NEW c \in Nat
    PROVE  BoundedLedger(Resolve(l, c))
<1> DEFINE l1 == [l EXCEPT !.highest = MaxOf(l.highest, c)]
           l2 == InsertLocked(l1, c)
<1>1. l \in Ledger /\ l.highest \in Nat /\ l.above \in SUBSET Nat
  BY DEF BoundedLedger, Ledger
<1>2. MaxOf(l.highest, c) \in Nat /\ MaxOf(l.highest, c) >= l.highest /\ MaxOf(l.highest, c) >= c
  BY <1>1, MaxOfProperties
<1>3. /\ l1 \in Ledger /\ l1.above = l.above /\ l1.highest = MaxOf(l.highest, c)
      /\ BoundedLedger(l1)
  BY <1>1, <1>2 DEF BoundedLedger, Ledger
<1>4. \/ l2 = [l1 EXCEPT !.above = {}, !.lost = TRUE]
      \/ l2 = [l1 EXCEPT !.above = l1.above \cup {c}]
  BY DEF InsertLocked
<1>5. Resolve(l, c) \in {l1, AdvanceLocked(l2)}
  BY DEF Resolve
<1> HIDE DEF l1, l2
<1>6. BoundedLedger(l2)
  BY <1>1, <1>2, <1>3, <1>4 DEF BoundedLedger, Ledger
<1> QED BY <1>3, <1>5, <1>6, AdvanceLockedBounded

\* rebase keeps the ledger bounded.
LEMMA RebaseBounded ==
    ASSUME NEW l, BoundedLedger(l), NEW f \in Nat
    PROVE  BoundedLedger(Rebase(l, f))
<1> DEFINE l1 == [l EXCEPT !.through = MaxOf(l.through, f)]
           l2 == [l1 EXCEPT !.lost = FALSE]
<1>1. l \in Ledger /\ l.through \in Nat
  BY DEF BoundedLedger, Ledger
<1>2. MaxOf(l.through, f) \in Nat
  BY <1>1, MaxOfProperties
<1>3. BoundedLedger(l1) /\ BoundedLedger(l2)
  BY <1>1, <1>2 DEF BoundedLedger, Ledger
<1>4. Rebase(l, f) \in {l1, AdvanceLocked(l2)}
  BY DEF Rebase
<1> HIDE DEF l1, l2
<1> QED BY <1>3, <1>4, AdvanceLockedBounded
-----------------------------------------------------------------------------
\* A sequence of whatever it holds.
IsSeq(s) == s \in Seq({s[i] : i \in DOMAIN s})

\* What the stack's operations return.
LEMMA EmptyStack == IsSeq(<<>>) /\ DOMAIN <<>> = {}
BY DEF IsSeq

\* Whatever set its elements are taken from.
LEMMA SeqOfElements ==
    ASSUME NEW S, NEW s \in Seq(S)
    PROVE  IsSeq(s)
BY DEF IsSeq

\* The positions of a stack.
LEMMA SeqFacts ==
    ASSUME NEW s, IsSeq(s)
    PROVE  Len(s) \in Nat /\ DOMAIN s = 1 .. Len(s)
BY DEF IsSeq

\* Append keeps the stack and puts the segment above it.
LEMMA AppendFacts ==
    ASSUME NEW s, IsSeq(s), NEW x
    PROVE  /\ IsSeq(Append(s, x)) /\ DOMAIN Append(s, x) = 1 .. Len(s) + 1
           /\ \A i \in DOMAIN s : Append(s, x)[i] = s[i]
           /\ Append(s, x)[Len(s) + 1] = x
<1> DEFINE S == {s[i] : i \in DOMAIN s} \cup {x}
<1>1. s \in Seq(S) /\ x \in S /\ Len(s) \in Nat /\ DOMAIN s = 1 .. Len(s)
  BY DEF IsSeq
<1> HIDE DEF S
<1> QED BY <1>1 DEF IsSeq

\* A stack of one segment.
LEMMA OneFacts == ASSUME NEW x PROVE IsSeq(<<x>>) /\ DOMAIN <<x>> = {1} /\ <<x>>[1] = x
BY DEF IsSeq

\* The stack u is t on top of s.
OnTop(u, s, t) ==
    /\ IsSeq(u) /\ IsSeq(s) /\ IsSeq(t) /\ DOMAIN u = 1 .. Len(s) + Len(t)
    /\ \A i \in DOMAIN s : u[i] = s[i]
    /\ \A i \in DOMAIN t : u[Len(s) + i] = t[i]

\* A concatenation puts one stack on top of the other.
LEMMA CatIsOnTop ==
    ASSUME NEW s, IsSeq(s), NEW t, IsSeq(t)
    PROVE  OnTop(s \o t, s, t)
<1> DEFINE S == {s[i] : i \in DOMAIN s} \cup {t[i] : i \in DOMAIN t}
<1>1. /\ s \in Seq(S) /\ Len(s) \in Nat /\ DOMAIN s = 1 .. Len(s)
      /\ t \in Seq(S) /\ Len(t) \in Nat /\ DOMAIN t = 1 .. Len(t)
  BY DEF IsSeq
<1> HIDE DEF S
<1>2. /\ s \o t \in Seq(S) /\ Len(s \o t) = Len(s) + Len(t)
      /\ \A i \in 1 .. Len(s) + Len(t) : (s \o t)[i] = IF i <= Len(s) THEN s[i] ELSE t[i - Len(s)]
  BY <1>1, ConcatProperties
<1>3. DOMAIN (s \o t) = 1 .. Len(s) + Len(t)
  BY <1>1, <1>2, LenProperties
<1>4. \A i \in DOMAIN s : (s \o t)[i] = s[i]
  BY <1>1, <1>2
<1>5. ASSUME NEW i \in DOMAIN t  PROVE (s \o t)[Len(s) + i] = t[i]
  <2>1. Len(s) + i \in 1 .. Len(s) + Len(t) /\ ~(Len(s) + i <= Len(s)) /\ (Len(s) + i) - Len(s) = i
    BY <1>1
  <2> QED BY <1>2, <2>1
<1>6. IsSeq(s \o t)
  BY <1>2, <1>3, SeqOfElements
<1> QED BY <1>3, <1>4, <1>5, <1>6 DEF OnTop

\* Stacks with the same positions have the same length.
LEMMA SameLength == ASSUME NEW m \in Nat, NEW n \in Nat, 1 .. m = 1 .. n PROVE m = n
<1>1. \A i \in Int : (1 <= i /\ i <= m) <=> (1 <= i /\ i <= n)
  <2>1. \A i \in Int : i \in 1 .. m <=> i \in 1 .. n
    OBVIOUS
  <2> QED BY <2>1
<1> QED BY <1>1

\* The length SubSeq gives a tail.
LEMMA TailLength ==
    ASSUME NEW n \in Nat, NEW l \in 0 .. n
    PROVE  (IF l + 1 <= n THEN n - (l + 1) + 1 ELSE 0) = n - l
OBVIOUS

\* What segmentsAfter returns: the segments above the first l.
LEMMA TailFacts ==
    ASSUME NEW s, IsSeq(s), NEW l \in 0 .. Len(s)
    PROVE  /\ IsSeq(SubSeq(s, l + 1, Len(s))) /\ DOMAIN SubSeq(s, l + 1, Len(s)) = 1 .. Len(s) - l
           /\ \A i \in 1 .. Len(s) - l : SubSeq(s, l + 1, Len(s))[i] = s[l + i]
<1> DEFINE S == {s[i] : i \in DOMAIN s}
<1>1. s \in Seq(S) /\ Len(s) \in Nat /\ DOMAIN s = 1 .. Len(s)
  BY DEF IsSeq
<1> HIDE DEF S
<1>2. /\ SubSeq(s, l + 1, Len(s)) \in Seq(S) /\ Len(SubSeq(s, l + 1, Len(s))) = Len(s) - l
      /\ \A i \in 1 .. Len(s) - l : SubSeq(s, l + 1, Len(s))[i] = s[l + i]
  <2>1. \A i \in (l + 1) .. Len(s) : s[i] \in S
    BY <1>1, ElementOfSeq
  <2>2. /\ SubSeq(s, l + 1, Len(s)) \in Seq(S)
        /\ Len(SubSeq(s, l + 1, Len(s))) = IF l + 1 <= Len(s) THEN Len(s) - (l + 1) + 1 ELSE 0
        /\ \A i \in 1 .. Len(s) - (l + 1) + 1 : SubSeq(s, l + 1, Len(s))[i] = s[(l + 1) + i - 1]
    BY <1>1, <2>1, SubSeqProperties
  <2>3. Len(SubSeq(s, l + 1, Len(s))) = Len(s) - l
    BY <1>1, <2>2, TailLength
  <2>4. ASSUME NEW i \in 1 .. Len(s) - l  PROVE SubSeq(s, l + 1, Len(s))[i] = s[l + i]
    <3>1. i \in 1 .. Len(s) - (l + 1) + 1 /\ (l + 1) + i - 1 = l + i
      BY <1>1, <2>4
    <3> QED BY <2>2, <3>1
  <2> QED BY <2>2, <2>3, <2>4
<1>3. DOMAIN SubSeq(s, l + 1, Len(s)) = 1 .. Len(s) - l
  BY <1>2, LenProperties
<1> QED BY <1>2, <1>3, SeqOfElements
-----------------------------------------------------------------------------
\* MergeSegments: an id is named by the merge when a segment names it, and the
\* newest one decides it.
LEMMA MergeDecides ==
    ASSUME NEW s, IsSeq(s), NEW f, NEW id, NEW i \in DOMAIN s, id \in DOMAIN s[i][f],
           \A j \in DOMAIN s : id \in DOMAIN s[j][f] => j <= i
    PROVE  id \in DOMAIN MergeField(s, f) /\ MergeField(s, f)[id] = s[i][f][id]
<1> DEFINE Naming == {j \in DOMAIN s : id \in DOMAIN s[j][f]}
<1>0. Len(s) \in Nat /\ DOMAIN s = 1 .. Len(s)
  BY SeqFacts
<1>1. /\ Naming \in SUBSET Nat /\ Naming # {} /\ (\A k \in Naming : k <= Len(s))
      /\ i \in Naming /\ \A k \in Naming : k <= i
  BY <1>0
<1>2. Max(Naming) = i
  <2> HIDE DEF Naming
  <2>1. Max(Naming) \in Naming /\ \A k \in Naming : k <= Max(Naming)
    BY <1>0, <1>1, GreatestNatural
  <2>2. Max(Naming) <= i /\ i <= Max(Naming) /\ i \in Nat /\ Max(Naming) \in Nat
    BY <1>1, <2>1
  <2> QED BY <2>2
<1> QED BY <1>2 DEF MergeField, Newest

\* The merge names what a segment names, and then one of them is the newest.
LEMMA MergeNames ==
    ASSUME NEW s, IsSeq(s), NEW f, NEW id
    PROVE  id \in DOMAIN MergeField(s, f) <=>
             \E i \in DOMAIN s : /\ id \in DOMAIN s[i][f]
                                 /\ \A j \in DOMAIN s : id \in DOMAIN s[j][f] => j <= i
<1>1. id \in DOMAIN MergeField(s, f) <=> \E i \in DOMAIN s : id \in DOMAIN s[i][f]
  BY DEF MergeField
<1>2. ASSUME NEW i \in DOMAIN s, id \in DOMAIN s[i][f]
      PROVE  \E k \in DOMAIN s : /\ id \in DOMAIN s[k][f]
                                 /\ \A j \in DOMAIN s : id \in DOMAIN s[j][f] => j <= k
  <2> DEFINE Naming == {j \in DOMAIN s : id \in DOMAIN s[j][f]}
  <2>1. Len(s) \in Nat /\ DOMAIN s = 1 .. Len(s)
    BY SeqFacts
  <2>2. Naming \in SUBSET Nat /\ Naming # {} /\ \A k \in Naming : k <= Len(s)
    BY <1>2, <2>1
  <2>3. Max(Naming) \in Naming /\ \A k \in Naming : k <= Max(Naming)
    <3> HIDE DEF Naming
    <3> QED BY <2>1, <2>2, GreatestNatural
  <2> QED BY <2>3
<1> QED BY <1>1, <1>2

\* The merge of one segment says what the segment says.
LEMMA MergeOne ==
    ASSUME NEW x, NEW f
    PROVE  /\ DOMAIN MergeField(<<x>>, f) = DOMAIN x[f]
           /\ \A id \in DOMAIN x[f] : MergeField(<<x>>, f)[id] = x[f][id]
<1>1. IsSeq(<<x>>) /\ DOMAIN <<x>> = {1} /\ <<x>>[1] = x
  BY OneFacts
<1>2. \A id \in DOMAIN x[f] : id \in DOMAIN MergeField(<<x>>, f) /\ MergeField(<<x>>, f)[id] = x[f][id]
  BY <1>1, MergeDecides
<1>3. \A id \in DOMAIN MergeField(<<x>>, f) : id \in DOMAIN x[f]
  BY <1>1, MergeNames
<1> QED BY <1>2, <1>3

\* The merge of a stack is the merge of its upper part over that of the lower.
LEMMA MergeOnTop ==
    ASSUME NEW u, NEW s, NEW t, NEW f, OnTop(u, s, t)
    PROVE  MergeField(u, f) = Over(MergeField(t, f), MergeField(s, f))
<1>1. /\ IsSeq(u) /\ IsSeq(s) /\ IsSeq(t) /\ DOMAIN u = 1 .. Len(s) + Len(t)
      /\ \A i \in DOMAIN s : u[i] = s[i]
      /\ \A i \in DOMAIN t : u[Len(s) + i] = t[i]
  BY DEF OnTop
<1>2. /\ Len(s) \in Nat /\ DOMAIN s = 1 .. Len(s)
      /\ Len(t) \in Nat /\ DOMAIN t = 1 .. Len(t)
  BY <1>1, SeqFacts
<1>3. \A j \in DOMAIN u : j \in DOMAIN s \/ (j - Len(s) \in DOMAIN t /\ u[j] = t[j - Len(s)])
  <2> TAKE j \in DOMAIN u
  <2>1. CASE j <= Len(s)
    BY <1>1, <1>2, <2>1
  <2>2. CASE j > Len(s)
    <3>1. j - Len(s) \in DOMAIN t /\ Len(s) + (j - Len(s)) = j
      BY <1>1, <1>2, <2>2
    <3> QED BY <1>1, <3>1
  <2> QED BY <1>1, <1>2, <2>1, <2>2
<1>4. ASSUME NEW id \in DOMAIN MergeField(t, f)
      PROVE  id \in DOMAIN MergeField(u, f) /\ MergeField(u, f)[id] = MergeField(t, f)[id]
  <2>1. PICK i \in DOMAIN t : /\ id \in DOMAIN t[i][f]
                              /\ \A j \in DOMAIN t : id \in DOMAIN t[j][f] => j <= i
    BY <1>1, <1>4, MergeNames
  <2>2. Len(s) + i \in DOMAIN u /\ u[Len(s) + i] = t[i]
    BY <1>1, <1>2, <2>1
  <2>3. \A j \in DOMAIN u : id \in DOMAIN u[j][f] => j <= Len(s) + i
    <3> SUFFICES ASSUME NEW j \in DOMAIN u, id \in DOMAIN u[j][f]  PROVE j <= Len(s) + i
      OBVIOUS
    <3>1. CASE j \in DOMAIN s
      BY <1>2, <2>1, <3>1
    <3>2. CASE j - Len(s) \in DOMAIN t /\ u[j] = t[j - Len(s)]
      <4>1. j - Len(s) <= i
        BY <2>1, <3>2
      <4> QED BY <1>1, <1>2, <2>1, <4>1
    <3> QED BY <1>3, <3>1, <3>2
  <2>4. MergeField(u, f)[id] = u[Len(s) + i][f][id] /\ id \in DOMAIN MergeField(u, f)
    BY <1>1, <2>1, <2>2, <2>3, MergeDecides
  <2>5. MergeField(t, f)[id] = t[i][f][id]
    BY <1>1, <2>1, MergeDecides
  <2> QED BY <2>2, <2>4, <2>5
<1>5. ASSUME NEW id \in DOMAIN MergeField(s, f) \ DOMAIN MergeField(t, f)
      PROVE  id \in DOMAIN MergeField(u, f) /\ MergeField(u, f)[id] = MergeField(s, f)[id]
  <2>1. PICK i \in DOMAIN s : /\ id \in DOMAIN s[i][f]
                              /\ \A j \in DOMAIN s : id \in DOMAIN s[j][f] => j <= i
    BY <1>1, <1>5, MergeNames
  <2>2. \A j \in DOMAIN t : id \notin DOMAIN t[j][f]
    BY <1>5 DEF MergeField
  <2>3. i \in DOMAIN u /\ u[i] = s[i]
    BY <1>1, <1>2, <2>1
  <2>4. \A j \in DOMAIN u : id \in DOMAIN u[j][f] => j <= i
    BY <1>1, <1>3, <2>1, <2>2
  <2>5. MergeField(u, f)[id] = u[i][f][id] /\ id \in DOMAIN MergeField(u, f)
    BY <1>1, <2>1, <2>3, <2>4, MergeDecides
  <2>6. MergeField(s, f)[id] = s[i][f][id]
    BY <1>1, <2>1, MergeDecides
  <2> QED BY <2>3, <2>5, <2>6
<1>6. ASSUME NEW id \in DOMAIN MergeField(u, f)
      PROVE  id \in DOMAIN MergeField(s, f) \cup DOMAIN MergeField(t, f)
  <2>1. PICK j \in DOMAIN u : id \in DOMAIN u[j][f]
    BY <1>6 DEF MergeField
  <2> QED BY <1>1, <1>3, <2>1 DEF MergeField
<1> DEFINE m == MergeField(u, f)
           new == MergeField(t, f)
           old == MergeField(s, f)
<1>7. DOMAIN m = DOMAIN new \cup DOMAIN old /\ m = [id \in DOMAIN m |-> m[id]]
  BY <1>4, <1>5, <1>6 DEF MergeField
<1>8. (\A id \in DOMAIN new : m[id] = new[id]) /\ \A id \in DOMAIN old \ DOMAIN new : m[id] = old[id]
  BY <1>4, <1>5
<1> HIDE DEF m, new, old
<1>9. m = Over(new, old)
  BY <1>7, <1>8 DEF Over
<1> QED BY <1>9 DEF m, new, old

\* An empty stack names nothing.
LEMMA MergeNone == ASSUME NEW f PROVE DOMAIN MergeField(<<>>, f) = {}
BY EmptyStack DEF MergeField
-----------------------------------------------------------------------------
\* A base holds rows only, and no edge without its ends.
BaseSound(base) ==
    /\ \A n \in DOMAIN base.nodes : base.nodes[n] # Tombstone
    /\ \A e \in DOMAIN base.edges : /\ base.edges[e] # Tombstone
                                    /\ base.edges[e].start \in DOMAIN base.nodes
                                    /\ base.edges[e].end \in DOMAIN base.nodes

\* What the view memoises is what its stack says.
ViewSound(v) ==
    /\ v = ViewOf(v.base, v.segs) /\ IsSeq(v.segs) /\ BaseSound(v.base)

\* The fields of a sound view.
LEMMA ViewFields ==
    ASSUME NEW v, ViewSound(v)
    PROVE  /\ v.delta = MergeSegments(v.segs) /\ v.dead = DeltaDead(v.base, v.delta)
           /\ v.delta.nodes = MergeField(v.segs, "nodes") /\ v.delta.edges = MergeField(v.segs, "edges")
           /\ v.delta.addedKinds = UNION {v.segs[i].addedKinds : i \in DOMAIN v.segs}
<1>1. v.delta = MergeSegments(v.segs) /\ v.dead = DeltaDead(v.base, v.delta)
  BY DEF ViewSound, ViewOf
<1> QED BY <1>1 DEF MergeSegments, NewSegment

\* A merged row is a row of one of the segments.
LEMMA MergedRowIsOurs ==
    ASSUME NEW s, IsSeq(s), NEW f, NEW id \in DOMAIN MergeField(s, f)
    PROVE  \E i \in DOMAIN s : id \in DOMAIN s[i][f] /\ MergeField(s, f)[id] = s[i][f][id]
<1>1. PICK i \in DOMAIN s : /\ id \in DOMAIN s[i][f]
                            /\ \A j \in DOMAIN s : id \in DOMAIN s[j][f] => j <= i
  BY MergeNames
<1> QED BY <1>1, MergeDecides

\* The fields of a merge.
LEMMA MergeFields ==
    ASSUME NEW s
    PROVE  /\ MergeSegments(s).nodes = MergeField(s, "nodes") /\ MergeSegments(s).edges = MergeField(s, "edges")
           /\ MergeSegments(s).addedKinds = UNION {s[i].addedKinds : i \in DOMAIN s}
BY DEF MergeSegments, NewSegment

\* A stack on a sound base makes a sound view, with these fields.
LEMMA ViewOfFields ==
    ASSUME NEW b, NEW s, IsSeq(s), BaseSound(b)
    PROVE  /\ ViewSound(ViewOf(b, s)) /\ ViewOf(b, s).base = b /\ ViewOf(b, s).segs = s
           /\ ViewOf(b, s).delta = MergeSegments(s)
<1>1. ViewOf(b, s).base = b /\ ViewOf(b, s).segs = s /\ ViewOf(b, s).delta = MergeSegments(s)
  BY DEF ViewOf
<1> QED BY <1>1 DEF ViewSound

\* The view of a base alone shows the base.
LEMMA BaseAlone ==
    ASSUME NEW b, BaseSound(b)
    PROVE  /\ ViewSound(NewView(b)) /\ NewView(b).base = b /\ NewView(b).segs = <<>>
           /\ NewView(b).delta = MergeSegments(<<>>)
           /\ DOMAIN NewView(b).delta.nodes = {} /\ DOMAIN NewView(b).delta.edges = {}
           /\ NewView(b).delta.addedKinds = {}
<1>1. /\ ViewSound(NewView(b)) /\ NewView(b).base = b /\ NewView(b).segs = <<>>
      /\ NewView(b).delta = MergeSegments(<<>>)
  BY EmptyStack, ViewOfFields DEF NewView
<1>2. UNION {<<>>[i].addedKinds : i \in DOMAIN <<>>} = {}
  BY EmptyStack
<1> QED BY <1>1, <1>2, MergeFields, MergeNone

\* A segment appended is one segment on top of the stack.
LEMMA AppendIsOnTop ==
    ASSUME NEW s, IsSeq(s), NEW x
    PROVE  OnTop(Append(s, x), s, <<x>>)
<1>1. IsSeq(<<x>>) /\ DOMAIN <<x>> = {1} /\ <<x>>[1] = x /\ Len(<<x>>) = 1
  BY OneFacts
<1>2. /\ IsSeq(Append(s, x)) /\ DOMAIN Append(s, x) = 1 .. Len(s) + 1
      /\ \A i \in DOMAIN s : Append(s, x)[i] = s[i]
      /\ Append(s, x)[Len(s) + 1] = x
  BY AppendFacts
<1> QED BY <1>1, <1>2 DEF OnTop

\* What the stack says once x is appended.
LEMMA MergeAppend ==
    ASSUME NEW s, IsSeq(s), NEW x
    PROVE  LET old == MergeSegments(s)
               new == MergeSegments(Append(s, x))
           IN  /\ new.nodes = Over(x.nodes, old.nodes) /\ new.edges = Over(x.edges, old.edges)
               /\ new.addedKinds = old.addedKinds \cup x.addedKinds
<1> DEFINE u == Append(s, x)
           one == <<x>>
<1>1. OnTop(u, s, one)
  BY AppendIsOnTop
<1>2. ASSUME NEW f  PROVE MergeField(u, f) = Over(x[f], MergeField(s, f))
  <2>1. MergeField(u, f) = Over(MergeField(one, f), MergeField(s, f))
    <3> HIDE DEF u, one
    <3> QED BY <1>1, MergeOnTop
  <2>2. /\ DOMAIN MergeField(one, f) = DOMAIN x[f]
        /\ \A id \in DOMAIN x[f] : MergeField(one, f)[id] = x[f][id]
    BY MergeOne
  <2> HIDE DEF u, one
  <2> QED BY <2>1, <2>2 DEF Over
<1>3. /\ IsSeq(u) /\ DOMAIN u = 1 .. Len(s) + 1 /\ (\A i \in DOMAIN s : u[i] = s[i]) /\ u[Len(s) + 1] = x
      /\ Len(s) \in Nat /\ DOMAIN s = 1 .. Len(s)
  BY AppendFacts, SeqFacts
<1> HIDE DEF u
<1>4. \A i \in DOMAIN u : i \in DOMAIN s \/ i = Len(s) + 1
  BY <1>3
<1>5. UNION {u[i].addedKinds : i \in DOMAIN u} = (UNION {s[i].addedKinds : i \in DOMAIN s}) \cup x.addedKinds
  <2>1. \A i \in DOMAIN s : i \in DOMAIN u
    BY <1>3
  <2>2. Len(s) + 1 \in DOMAIN u
    BY <1>3
  <2> QED BY <1>3, <1>4, <2>1, <2>2
<1> DEFINE old == MergeSegments(s)
           new == MergeSegments(u)
<1>6. /\ old.nodes = MergeField(s, "nodes") /\ old.edges = MergeField(s, "edges")
      /\ new.nodes = MergeField(u, "nodes") /\ new.edges = MergeField(u, "edges")
      /\ new.addedKinds = old.addedKinds \cup x.addedKinds
  BY <1>5, MergeFields
<1> HIDE DEF old, new
<1>7. new.nodes = Over(x.nodes, old.nodes) /\ new.edges = Over(x.edges, old.edges)
  BY <1>2, <1>6
<1> QED BY <1>6, <1>7 DEF u, old, new

-----------------------------------------------------------------------------
(***************************************************************************)
(* What a reader of a view sees.                                           *)
(***************************************************************************)

\* Edges from start to end and from end to start.
Directions == {<<"start", "end">>, <<"end", "start">>}

\* A node is alive when its row is there.
LEMMA AliveMeans ==
    ASSUME NEW v, ViewSound(v), NEW n
    PROVE  /\ Alive(v, n) <=> IF n \in DOMAIN v.delta.nodes THEN v.delta.nodes[n] # Tombstone
                              ELSE n \in DOMAIN v.base.nodes
           /\ n \in DOMAIN v.base.nodes => (Alive(v, n) <=> n \notin v.dead)
           /\ n \in AliveNodes(v) <=> Alive(v, n)
           /\ n \in v.dead => n \in DOMAIN v.base.nodes
<1>1. v.dead = DeltaDead(v.base, v.delta)
  BY ViewFields
<1> QED BY <1>1 DEF Alive, AliveNodes, Known, Dead, DeltaDead, DeltaAdded, Upserts

\* EdgeStateByID: the delta's record of an edge, or the base's, with both ends alive.
LEMMA EdgeState ==
    ASSUME NEW v, ViewSound(v), NEW e
    PROVE  LET row == EdgeStateByID(v, e)
           IN  /\ row # Tombstone => /\ Alive(v, row.start) /\ Alive(v, row.end)
                                     /\ \/ e \in DOMAIN v.delta.edges /\ row = v.delta.edges[e]
                                        \/ /\ e \notin DOMAIN v.delta.edges
                                           /\ e \in DOMAIN v.base.edges /\ row = v.base.edges[e]
               /\ e \in DeltaEdges(v) <=> e \in DOMAIN v.delta.edges /\ row # Tombstone
               /\ e \in DeltaEdges(v) => row = v.delta.edges[e]
               /\ e \in DOMAIN v.base.edges \ DOMAIN v.delta.edges =>
                     (row # Tombstone <=> v.base.edges[e].start \notin v.dead /\ v.base.edges[e].end \notin v.dead)
<1>1. e \in DOMAIN v.base.edges => /\ v.base.edges[e] # Tombstone
                                   /\ v.base.edges[e].start \in DOMAIN v.base.nodes
                                   /\ v.base.edges[e].end \in DOMAIN v.base.nodes
  BY DEF ViewSound, BaseSound
<1>2. CASE e \in DOMAIN v.delta.edges
  <2>1. EdgeStateByID(v, e) =
          IF v.delta.edges[e] # Tombstone /\ Alive(v, v.delta.edges[e].start) /\ Alive(v, v.delta.edges[e].end)
            THEN v.delta.edges[e] ELSE Tombstone
    BY <1>2 DEF EdgeStateByID, Delta
  <2>2. e \in DeltaEdges(v) <=>
          v.delta.edges[e] # Tombstone /\ Alive(v, v.delta.edges[e].start) /\ Alive(v, v.delta.edges[e].end)
    BY <1>2 DEF DeltaEdges, Delta, Upserts
  <2> QED BY <1>2, <2>1, <2>2
<1>3. CASE e \notin DOMAIN v.delta.edges
  <2>1. e \notin DeltaEdges(v)
    BY <1>3 DEF DeltaEdges, Delta, Upserts
  <2>2. CASE e \in DOMAIN v.base.edges
    <3>1. EdgeStateByID(v, e) =
            IF Alive(v, v.base.edges[e].start) /\ Alive(v, v.base.edges[e].end) THEN v.base.edges[e] ELSE Tombstone
      BY <1>1, <1>3, <2>2 DEF EdgeStateByID, Delta
    <3>2. /\ Alive(v, v.base.edges[e].start) <=> v.base.edges[e].start \notin v.dead
          /\ Alive(v, v.base.edges[e].end) <=> v.base.edges[e].end \notin v.dead
      BY <1>1, <2>2, AliveMeans
    <3> QED BY <1>1, <1>3, <2>1, <2>2, <3>1, <3>2
  <2>3. CASE e \notin DOMAIN v.base.edges
    <3>1. EdgeStateByID(v, e) = Tombstone
      BY <1>3, <2>3 DEF EdgeStateByID, Delta
    <3> QED BY <1>3, <2>1, <2>3, <3>1
  <2> QED BY <2>2, <2>3
<1> QED BY <1>2, <1>3

\* A walk from a live node meets the live edges that leave it, in either direction.
LEMMA WalkMeets ==
    ASSUME NEW v, ViewSound(v), NEW n, Alive(v, n), NEW near, NEW far, <<near, far>> \in Directions, NEW x
    PROVE  x \in WalkEdges(v, n, near, far) <=>
             \E e : LET row == EdgeStateByID(v, e)
                    IN  row # Tombstone /\ row[near] = n /\ x = <<row[far], row.kind, e>>
<1>0. (near = "start" /\ far = "end") \/ (near = "end" /\ far = "start")
  BY DEF Directions
<1>1. x \in WalkEdges(v, n, near, far) <=>
         \/ \E e \in DOMAIN v.base.edges \ DOMAIN v.delta.edges :
               /\ v.base.edges[e][near] = n /\ v.base.edges[e][far] \notin v.dead
               /\ x = <<v.base.edges[e][far], v.base.edges[e].kind, e>>
         \/ \E e \in DeltaEdges(v) :
               v.delta.edges[e][near] = n /\ x = <<v.delta.edges[e][far], v.delta.edges[e].kind, e>>
  BY DEF WalkEdges, EdgeTomb, Delta, Dead
<1>2. n \notin v.dead
  BY DEF Alive, Dead
<1>3. ASSUME NEW e \in DOMAIN v.base.edges \ DOMAIN v.delta.edges,
             v.base.edges[e][near] = n, v.base.edges[e][far] \notin v.dead,
             x = <<v.base.edges[e][far], v.base.edges[e].kind, e>>
      PROVE  LET row == EdgeStateByID(v, e)
             IN  row # Tombstone /\ row[near] = n /\ x = <<row[far], row.kind, e>>
  <2>1. EdgeStateByID(v, e) # Tombstone
    BY <1>0, <1>2, <1>3, EdgeState
  <2>2. EdgeStateByID(v, e) = v.base.edges[e]
    BY <1>3, <2>1, EdgeState
  <2> QED BY <1>3, <2>1, <2>2
<1>4. ASSUME NEW e \in DeltaEdges(v),
             v.delta.edges[e][near] = n, x = <<v.delta.edges[e][far], v.delta.edges[e].kind, e>>
      PROVE  LET row == EdgeStateByID(v, e)
             IN  row # Tombstone /\ row[near] = n /\ x = <<row[far], row.kind, e>>
  <2>1. EdgeStateByID(v, e) # Tombstone /\ EdgeStateByID(v, e) = v.delta.edges[e]
    BY <1>4, EdgeState
  <2> QED BY <1>4, <2>1
<1>5. ASSUME NEW e, LET row == EdgeStateByID(v, e)
                    IN  row # Tombstone /\ row[near] = n /\ x = <<row[far], row.kind, e>>
      PROVE  x \in WalkEdges(v, n, near, far)
  <2> DEFINE row == EdgeStateByID(v, e)
  <2>0. row # Tombstone /\ row[near] = n /\ x = <<row[far], row.kind, e>>
    BY <1>5
  <2>1. CASE e \in DOMAIN v.delta.edges
    <3>1. e \in DeltaEdges(v) /\ row = v.delta.edges[e]
      BY <2>0, <2>1, EdgeState
    <3> HIDE DEF row
    <3> QED BY <1>1, <2>0, <3>1
  <2>2. CASE e \notin DOMAIN v.delta.edges
    <3>1. e \in DOMAIN v.base.edges /\ row = v.base.edges[e]
      BY <2>0, <2>2, EdgeState
    <3>2. v.base.edges[e][far] \notin v.dead
      BY <1>0, <2>0, <2>2, <3>1, EdgeState
    <3> HIDE DEF row
    <3> QED BY <1>1, <2>0, <2>2, <3>1, <3>2
  <2> QED BY <2>1, <2>2
<1> QED BY <1>1, <1>3, <1>4, <1>5

\* What a reader sees are the live edges.
LEMMA SeenEdges ==
    ASSUME NEW v, ViewSound(v), NEW t
    PROVE  t \in VisibleEdges(v) <=>
             \E e : LET row == EdgeStateByID(v, e)
                    IN  row # Tombstone /\ t = <<row.start, row.end, row.kind, e>>
<1>1. ASSUME t \in VisibleEdges(v)
      PROVE  \E e : LET row == EdgeStateByID(v, e)
                    IN  row # Tombstone /\ t = <<row.start, row.end, row.kind, e>>
  <2>1. PICK n \in AliveNodes(v) : \E x \in OutEdges(v, n) : t = <<n, x[1], x[2], x[3]>>
    BY <1>1 DEF VisibleEdges
  <2>2. PICK x \in OutEdges(v, n) : t = <<n, x[1], x[2], x[3]>>
    BY <2>1
  <2>3. Alive(v, n) /\ <<"start", "end">> \in Directions
    BY AliveMeans DEF Directions
  <2>4. PICK e : LET row == EdgeStateByID(v, e)
                 IN  row # Tombstone /\ row.start = n /\ x = <<row.end, row.kind, e>>
    BY <2>2, <2>3, WalkMeets DEF OutEdges
  <2> QED BY <2>2, <2>4
<1>2. ASSUME NEW e, EdgeStateByID(v, e) # Tombstone,
             t = <<EdgeStateByID(v, e).start, EdgeStateByID(v, e).end, EdgeStateByID(v, e).kind, e>>
      PROVE  t \in VisibleEdges(v)
  <2> DEFINE row == EdgeStateByID(v, e)
             n == row.start
             x == <<row.end, row.kind, e>>
  <2>1. Alive(v, n)
    BY <1>2, EdgeState
  <2>2. <<"start", "end">> \in Directions
    BY DEF Directions
  <2>3. x \in WalkEdges(v, n, "start", "end")
    BY <1>2, <2>1, <2>2, WalkMeets
  <2>4. n \in AliveNodes(v) /\ t = <<n, x[1], x[2], x[3]>>
    BY <1>2, <2>1, AliveMeans
  <2> HIDE DEF n, x, row
  <2> QED BY <2>3, <2>4 DEF VisibleEdges, OutEdges
<1> QED BY <1>1, <1>2
=============================================================================
