---------------------------- MODULE LedgerProofs ----------------------------
(***************************************************************************)
(* Proofs about the watermark ledger, for every cap on its runs and every  *)
(* bound on the counters.                                                  *)
(***************************************************************************)
EXTENDS LedgerRuns, OperatorLemmas

\* The inductive invariant: the four invariants of the run, together.
LedgerInv ==
    /\ LedgerTypeOK
    /\ NeverAbsorbsAGap
    /\ ExactLosesNothing
    /\ HighestCoversResolved

\* The zero ledger satisfies the invariant.
LEMMA LedgerInitInv == LedgerInit => LedgerInv
<1> SUFFICES ASSUME LedgerInit PROVE LedgerInv
  OBVIOUS
<1>1. ledger = [through |-> 0, above |-> {}, lost |-> FALSE, highest |-> 0]
  BY DEF LedgerInit, NewLedger
<1>2. ledger.through = 0 /\ ledger.above = {} /\ ledger.lost = FALSE /\ ledger.highest = 0
  BY <1>1
<1>3. resolved = {} /\ floor = 0
  BY DEF LedgerInit
<1>4. LedgerTypeOK
  BY <1>1, <1>2, <1>3, MaxCounterAssumption DEF LedgerTypeOK, Ledger
<1>5. NeverAbsorbsAGap /\ ExactLosesNothing /\ HighestCoversResolved
  BY <1>2, <1>3 DEF NeverAbsorbsAGap, ExactLosesNothing, HighestCoversResolved, Accounted, Exact
<1> QED BY <1>4, <1>5 DEF LedgerInv
-----------------------------------------------------------------------------
(* A resolve has three outcomes: the value is already covered or the ledger *)
(* is lost; its run does not fit; it is inserted and the ledger advances.   *)

\* resolve preserves the invariant, moves through up only, and finds nothing again.
LEMMA ResolvePreserves ==
    ASSUME LedgerInv, NEW c \in Counters, ResolveStep(c)
    PROVE  LedgerInv' /\ ledger'.through >= ledger.through /\ (ledger.lost => ledger'.lost)
<1> USE MaxCounterAssumption DEF Counters
<1> DEFINE l1 == [ledger EXCEPT !.highest = MaxOf(ledger.highest, c)]
           l2 == InsertLocked(l1, c)
<1>1. /\ ledger \in Ledger /\ ledger.through \in Nat /\ ledger.above \in SUBSET Nat
      /\ ledger.highest \in Nat /\ ledger.lost \in BOOLEAN
      /\ c \in Nat /\ c >= 1 /\ resolved \in SUBSET Nat /\ floor \in Nat
  BY DEF LedgerInv, LedgerTypeOK, Ledger
<1>2. resolved' = resolved \cup {c} /\ floor' = floor
  BY DEF ResolveStep
<1>3. /\ l1 \in Ledger /\ l1.through = ledger.through /\ l1.above = ledger.above
      /\ l1.lost = ledger.lost /\ l1.highest = MaxOf(ledger.highest, c)
  BY <1>1 DEF Ledger, MaxOf
<1>4. MaxOf(ledger.highest, c) \in Nat /\ MaxOf(ledger.highest, c) >= ledger.highest
      /\ MaxOf(ledger.highest, c) >= c
  BY <1>1 DEF MaxOf
<1>5. \A v \in resolved' : v <= MaxOf(ledger.highest, c)
  <2>1. \A v \in resolved : v \in Nat /\ v <= ledger.highest
    BY <1>1 DEF LedgerInv, HighestCoversResolved
  <2> HIDE DEF l1, l2
  <2> QED BY <1>1, <1>2, <1>4, <2>1
<1>6. CASE c <= ledger.through \/ ledger.lost
  <2>1. ledger' = l1
    BY <1>6 DEF ResolveStep, Resolve
  <2> HIDE DEF l1
  <2>2. LedgerTypeOK'
    BY <1>1, <1>2, <1>3, <2>1 DEF LedgerInv, LedgerTypeOK
  <2>3. NeverAbsorbsAGap'
    BY <1>2, <1>3, <2>1 DEF LedgerInv, NeverAbsorbsAGap, Accounted
  <2>4. ExactLosesNothing'
    BY <1>1, <1>2, <1>3, <1>6, <2>1 DEF LedgerInv, ExactLosesNothing, Accounted, Exact
  <2>5. HighestCoversResolved'
    BY <1>3, <1>5, <2>1 DEF HighestCoversResolved
  <2> QED BY <1>1, <1>3, <2>1, <2>2, <2>3, <2>4, <2>5 DEF LedgerInv
<1>7. CASE c > ledger.through /\ ~ledger.lost
  <2>1. ledger' = AdvanceLocked(l2)
    BY <1>1, <1>7 DEF ResolveStep, Resolve
  <2>2. \/ l2 = [l1 EXCEPT !.above = {}, !.lost = TRUE]
        \/ l2 = [l1 EXCEPT !.above = l1.above \cup {c}]
    BY DEF InsertLocked
  <2> HIDE DEF l1, l2
  <2>3. /\ l2 \in Ledger /\ l2.through = ledger.through
        /\ l2.highest = MaxOf(ledger.highest, c)
        /\ \/ l2.above = {} /\ l2.lost
           \/ l2.above = ledger.above \cup {c} /\ ~l2.lost
    BY <1>1, <1>3, <1>7, <2>2 DEF Ledger
  <2>4. l2.above \subseteq resolved' /\ \A v \in l2.above : v <= MaxCounter
    BY <1>1, <1>2, <2>3 DEF LedgerInv, LedgerTypeOK
  <2>5. /\ ledger' \in Ledger
        /\ ledger'.lost = l2.lost /\ ledger'.highest = l2.highest
        /\ ledger'.through >= l2.through
        /\ (l2.through + 1) .. ledger'.through \subseteq l2.above
        /\ ledger'.through + 1 \notin l2.above
        /\ ledger'.above = {v \in l2.above : v > ledger'.through}
        /\ \A v \in ledger'.above : v > ledger'.through + 1
    BY <2>1, <2>3, <2>4, AdvanceLockedProperties
  <2>6. ledger'.through \in Nat
    BY <2>5 DEF Ledger
  <2>7. LedgerTypeOK'
    <3>1. resolved' \subseteq Counters /\ floor' \in 0 .. MaxCounter
      BY <1>2 DEF LedgerInv, LedgerTypeOK
    <3>2. floor' <= ledger'.through
      BY <1>1, <1>2, <2>3, <2>5, <2>6 DEF LedgerInv, LedgerTypeOK
    <3>3. ledger'.above \subseteq resolved' /\ (ledger'.lost => ledger'.above = {})
      BY <2>3, <2>4, <2>5
    <3> QED BY <2>5, <3>1, <3>2, <3>3 DEF LedgerTypeOK
  <2>8. NeverAbsorbsAGap'
    <3>1. \A v \in 1 .. ledger'.through : v <= ledger.through \/ v \in l2.above
      BY <1>1, <2>3, <2>5, <2>6
    <3> QED BY <1>1, <1>2, <2>4, <2>6, <3>1 DEF LedgerInv, NeverAbsorbsAGap, Accounted
  <2>9. ExactLosesNothing'
    <3> SUFFICES ASSUME ~ledger'.lost PROVE ExactLosesNothing'
      BY DEF ExactLosesNothing, Exact
    <3>1. l2.above = ledger.above \cup {c}
      BY <2>3, <2>5
    <3>2. \A v \in resolved' : v <= ledger'.through \/ v \in ledger'.above
      BY <1>1, <1>2, <1>7, <2>3, <2>5, <2>6, <3>1 DEF LedgerInv, ExactLosesNothing, Exact
    <3>3. ledger'.through + 1 \notin resolved'
      BY <1>1, <1>2, <2>5, <2>6, <3>2
    <3>4. ledger'.through + 1 \notin 1 .. floor'
      BY <1>1, <1>2, <2>3, <2>5, <2>6 DEF LedgerInv, LedgerTypeOK
    <3> QED BY <3>2, <3>3, <3>4 DEF ExactLosesNothing, Accounted
  <2>10. HighestCoversResolved'
    BY <1>5, <2>3, <2>5 DEF HighestCoversResolved
  <2> QED BY <1>1, <1>7, <2>3, <2>5, <2>7, <2>8, <2>9, <2>10 DEF LedgerInv
<1> QED BY <1>1, <1>6, <1>7

\* A rebase either leaves a lost ledger lost, or makes it exact: it was exact
\* before, or the floor covers all it ever dropped.
LEMMA RebasePreserves ==
    ASSUME LedgerInv, NEW f \in 0 .. MaxCounter, RebaseStep(f)
    PROVE  /\ LedgerInv' /\ ledger'.through >= ledger.through
           /\ (ledger.lost /\ ~ledger'.lost) => floor' >= ledger.highest
<1> USE MaxCounterAssumption DEF Counters
<1> DEFINE l1 == [ledger EXCEPT !.through = MaxOf(ledger.through, f)]
           l2 == [l1 EXCEPT !.lost = FALSE]
<1>1. /\ ledger \in Ledger /\ ledger.through \in Nat /\ ledger.above \in SUBSET Nat
      /\ ledger.highest \in Nat /\ ledger.lost \in BOOLEAN
      /\ f \in Nat /\ f <= MaxCounter /\ resolved \in SUBSET Nat /\ floor \in Nat
  BY DEF LedgerInv, LedgerTypeOK, Ledger
<1>2. resolved' = resolved /\ floor' = MaxOf(floor, f)
  BY DEF RebaseStep
<1>3. /\ floor' \in Nat /\ floor' >= floor /\ floor' >= f /\ floor' <= MaxCounter
      /\ MaxOf(ledger.through, f) \in Nat /\ MaxOf(ledger.through, f) >= ledger.through
      /\ MaxOf(ledger.through, f) >= f /\ MaxOf(ledger.through, f) >= floor'
      /\ MaxOf(ledger.through, f) \in {ledger.through, f}
  BY <1>1, <1>2 DEF MaxOf, LedgerInv, LedgerTypeOK
<1>4. /\ l1 \in Ledger /\ l1.through = MaxOf(ledger.through, f) /\ l1.above = ledger.above
      /\ l1.lost = ledger.lost /\ l1.highest = ledger.highest
  BY <1>1, <1>3 DEF Ledger
<1>5. \A v \in 1 .. MaxOf(ledger.through, f) : v \in Accounted'
  BY <1>1, <1>2, <1>3 DEF LedgerInv, NeverAbsorbsAGap, Accounted
<1>6. CASE ledger.lost /\ f < ledger.highest
  <2>1. ledger' = l1
    BY <1>6 DEF RebaseStep, Rebase
  <2> HIDE DEF l1
  <2>2. LedgerTypeOK'
    BY <1>1, <1>2, <1>3, <1>4, <1>6, <2>1 DEF LedgerInv, LedgerTypeOK
  <2>3. NeverAbsorbsAGap' /\ ExactLosesNothing' /\ HighestCoversResolved'
    BY <1>2, <1>4, <1>5, <1>6, <2>1
    DEF LedgerInv, NeverAbsorbsAGap, ExactLosesNothing, Exact, HighestCoversResolved
  <2> QED BY <1>3, <1>4, <1>6, <2>1, <2>2, <2>3 DEF LedgerInv
<1>7. CASE ~(ledger.lost /\ f < ledger.highest)
  <2>1. ledger' = AdvanceLocked(l2)
    BY <1>7 DEF RebaseStep, Rebase
  <2> HIDE DEF l1
  <2>2. /\ l2 \in Ledger /\ l2.through = MaxOf(ledger.through, f) /\ l2.above = ledger.above
        /\ ~l2.lost /\ l2.highest = ledger.highest
    BY <1>4 DEF Ledger
  <2> HIDE DEF l2
  <2>3. l2.above \subseteq resolved /\ \A v \in l2.above : v <= MaxCounter
    BY <1>1, <2>2 DEF LedgerInv, LedgerTypeOK
  <2>4. /\ ledger' \in Ledger
        /\ ledger'.lost = l2.lost /\ ledger'.highest = l2.highest
        /\ ledger'.through >= l2.through
        /\ (l2.through + 1) .. ledger'.through \subseteq l2.above
        /\ ledger'.through + 1 \notin l2.above
        /\ ledger'.above = {v \in l2.above : v > ledger'.through}
        /\ \A v \in ledger'.above : v > ledger'.through + 1
    BY <2>1, <2>2, <2>3, AdvanceLockedProperties
  <2>5. ledger'.through \in Nat
    BY <2>4 DEF Ledger
  <2>6. LedgerTypeOK'
    BY <1>1, <1>2, <1>3, <2>2, <2>3, <2>4, <2>5 DEF LedgerInv, LedgerTypeOK
  <2>7. NeverAbsorbsAGap'
    <3>1. \A v \in 1 .. ledger'.through : v <= l2.through \/ v \in l2.above
      BY <1>3, <2>2, <2>4, <2>5
    <3> QED BY <1>2, <1>3, <1>5, <2>2, <2>3, <2>5, <3>1 DEF NeverAbsorbsAGap, Accounted
  <2>8. ExactLosesNothing'
    <3>1. \A v \in resolved : v <= l2.through \/ v \in l2.above
      BY <1>1, <1>3, <1>7, <2>2
      DEF LedgerInv, ExactLosesNothing, Exact, HighestCoversResolved
    <3>2. \A v \in resolved' : v <= ledger'.through \/ v \in ledger'.above
      BY <1>1, <1>2, <1>3, <2>2, <2>4, <2>5, <3>1
    <3>3. ledger'.through + 1 \notin resolved'
      BY <1>1, <1>2, <2>4, <2>5, <3>2
    <3>4. ledger'.through + 1 \notin 1 .. floor'
      BY <1>3, <2>2, <2>4, <2>5
    <3> QED BY <3>2, <3>3, <3>4 DEF ExactLosesNothing, Accounted
  <2>9. HighestCoversResolved'
    BY <1>2, <2>2, <2>4 DEF LedgerInv, HighestCoversResolved
  <2>10. ledger'.through >= ledger.through
    BY <1>1, <1>3, <2>2, <2>4, <2>5
  <2>11. ledger.lost => floor' >= ledger.highest
    BY <1>1, <1>3, <1>7
  <2> QED BY <2>6, <2>7, <2>8, <2>9, <2>10, <2>11 DEF LedgerInv
<1> QED BY <1>6, <1>7

\* Every step, or stutter, preserves the invariant and obeys both action
\* properties.
LEMMA LedgerNextInv ==
    ASSUME LedgerInv, [LedgerNext]_ledgerVars
    PROVE  /\ LedgerInv' /\ ledger'.through >= ledger.through
           /\ (ledger.lost /\ ~ledger'.lost) => floor' >= ledger.highest
<1>1. CASE UNCHANGED ledgerVars
  <2>1. ledger' = ledger /\ resolved' = resolved /\ floor' = floor
    BY <1>1 DEF ledgerVars
  <2>2. ledger.through \in Nat
    BY DEF LedgerInv, LedgerTypeOK, Ledger
  <2> QED BY <2>1, <2>2 DEF LedgerInv, LedgerTypeOK, NeverAbsorbsAGap, ExactLosesNothing,
                            HighestCoversResolved, Accounted, Exact
<1>2. CASE LedgerNext
  BY <1>2, ResolvePreserves, RebasePreserves DEF LedgerNext
<1> QED BY <1>1, <1>2
-----------------------------------------------------------------------------
\* The ledger of watermark.go is well formed in every reachable state.
THEOREM LedgerTypeCorrect == LedgerSpecification => []LedgerTypeOK
<1>1. LedgerInv => LedgerTypeOK
  BY DEF LedgerInv
<1> QED BY <1>1, LedgerInitInv, LedgerNextInv, PTL DEF LedgerSpecification

\* resolve and rebase, in any order: the ledger never claims a counter value
\* that was neither resolved here nor covered by an adopted snapshot.
THEOREM LedgerNeverAbsorbsAGap == LedgerSpecification => []NeverAbsorbsAGap
<1>1. LedgerInv => NeverAbsorbsAGap
  BY DEF LedgerInv
<1> QED BY <1>1, LedgerInitInv, LedgerNextInv, PTL DEF LedgerSpecification

\* An exact ledger answers with the full unbroken prefix and forgets nothing,
\* which a save's convergence test relies on.
THEOREM LedgerExactLosesNothing == LedgerSpecification => []ExactLosesNothing
<1>1. LedgerInv => ExactLosesNothing
  BY DEF LedgerInv
<1> QED BY <1>1, LedgerInitInv, LedgerNextInv, PTL DEF LedgerSpecification

\* highest bounds every value ever resolved, so a lost ledger knows how far a
\* rebase has to reach before it may call itself exact again.
THEOREM LedgerHighestCoversResolved == LedgerSpecification => []HighestCoversResolved
<1>1. LedgerInv => HighestCoversResolved
  BY DEF LedgerInv
<1> QED BY <1>1, LedgerInitInv, LedgerNextInv, PTL DEF LedgerSpecification

\* through never moves down.
THEOREM LedgerThroughNeverRetreats == LedgerSpecification => ThroughNeverRetreats
<1>1. LedgerInv /\ [LedgerNext]_ledgerVars => [ledger'.through >= ledger.through]_ledgerVars
  BY LedgerNextInv
<1> QED BY <1>1, LedgerInitInv, LedgerNextInv, PTL DEF LedgerSpecification, ThroughNeverRetreats

\* A lost ledger becomes exact only by a rebase over all it ever resolved.
THEOREM LedgerLostUntilCovered == LedgerSpecification => LostUntilCovered
<1>1. LedgerInv /\ [LedgerNext]_ledgerVars
        => [(ledger.lost /\ ~ledger'.lost) => floor' >= ledger.highest]_ledgerVars
  BY LedgerNextInv
<1> QED BY <1>1, LedgerInitInv, LedgerNextInv, PTL DEF LedgerSpecification, LostUntilCovered
-----------------------------------------------------------------------------
(***************************************************************************)
(* The slice of runs.                                                      *)
(***************************************************************************)
Run == [lo : Nat, hi : Nat]

\* Any two runs of the slice lie apart, in order: RunsSortedDisjoint for every
\* pair and not for neighbours alone.
Apart(runs) ==
    /\ runs \in Seq(Run)
    /\ \A k \in 1 .. Len(runs) : runs[k].lo <= runs[k].hi
    /\ \A j, k \in 1 .. Len(runs) : j < k => runs[k].lo > runs[j].hi + 1

\* The bounds of a run are numbers.
LEMMA RunBounds ==
    ASSUME NEW runs \in Seq(Run)
    PROVE  /\ Len(runs) \in Nat
           /\ DOMAIN runs = 1 .. Len(runs)
           /\ \A k \in 1 .. Len(runs) : /\ runs[k] \in Run
                                        /\ runs[k].lo \in Nat /\ runs[k].hi \in Nat
<1>1. Len(runs) \in Nat /\ DOMAIN runs = 1 .. Len(runs)
  BY LenProperties
<1>2. \A k \in 1 .. Len(runs) : runs[k] \in Run
  BY ElementOfSeq
<1>3. \A r \in Run : r.lo \in Nat /\ r.hi \in Nat
  BY DEF Run
<1> QED BY <1>1, <1>2, <1>3

\* A value is held by the slice when it lies within one of the runs.
LEMMA HeldByARun ==
    ASSUME NEW runs \in Seq(Run)
    PROVE  /\ ValuesOf(runs) \in SUBSET Nat
           /\ \A v \in Nat : v \in ValuesOf(runs) <=>
                \E k \in 1 .. Len(runs) : runs[k].lo <= v /\ v <= runs[k].hi
<1>1. /\ DOMAIN runs = 1 .. Len(runs)
      /\ \A k \in 1 .. Len(runs) : runs[k].lo \in Nat /\ runs[k].hi \in Nat
  BY RunBounds
<1>2. \A v : v \in ValuesOf(runs) <=> \E k \in 1 .. Len(runs) : v \in runs[k].lo .. runs[k].hi
  BY <1>1 DEF ValuesOf
<1> QED BY <1>1, <1>2

\* sort.Search on a sorted slice finds the index that separates the runs
\* starting at or below counter from those above it.
LEMMA FirstAboveProperties ==
    ASSUME NEW runs, Apart(runs), NEW c \in Nat
    PROVE  /\ FirstAbove(runs, c) \in 1 .. Len(runs) + 1
           /\ \A k \in 1 .. Len(runs) : k < FirstAbove(runs, c) => runs[k].lo <= c
           /\ \A k \in 1 .. Len(runs) : k >= FirstAbove(runs, c) => runs[k].lo > c
<1> DEFINE n == Len(runs)
           P(i) == (i <= n => runs[i].lo > c) /\ (i > 1 => runs[i - 1].lo <= c)
           T == {i \in 1 .. n + 1 : i <= n => runs[i].lo > c}
<1>1. /\ n \in Nat
      /\ \A k \in 1 .. n : runs[k].lo \in Nat /\ runs[k].hi \in Nat
  BY RunBounds DEF Apart
<1>2. n + 1 \in T /\ T \in SUBSET Nat
  BY <1>1
<1>3. PICK m \in T : \A k \in T : m <= k
  BY <1>2, LeastNatural
<1>4. m \in 1 .. n + 1 /\ P(m)
  <2>1. m \in 1 .. n + 1 /\ (m <= n => runs[m].lo > c)
    BY <1>3
  <2>2. ASSUME m > 1 PROVE runs[m - 1].lo <= c
    <3>1. m - 1 \in 1 .. n /\ ~(m <= m - 1)
      BY <1>1, <2>1, <2>2
    <3>2. m - 1 \notin T
      BY <1>3, <3>1
    <3> QED BY <1>1, <3>1, <3>2
  <2> QED BY <2>1, <2>2
<1> DEFINE f == FirstAbove(runs, c)
<1>5. f \in 1 .. n + 1 /\ P(f)
  <2>1. f = CHOOSE i \in 1 .. n + 1 : P(i)
    BY DEF FirstAbove
  <2> HIDE DEF P, n, f
  <2> QED BY <1>4, <2>1
<1> HIDE DEF f
<1>6. ASSUME NEW k \in 1 .. n, k < f PROVE runs[k].lo <= c
  <2>1. f - 1 \in 1 .. n /\ runs[f - 1].lo <= c /\ k <= f - 1
    BY <1>1, <1>5, <1>6
  <2>2. CASE k = f - 1
    BY <2>1, <2>2
  <2>3. CASE k < f - 1
    BY <1>1, <2>1, <2>3 DEF Apart
  <2> QED BY <1>1, <1>5, <2>1, <2>2, <2>3
<1>7. ASSUME NEW k \in 1 .. n, k >= f PROVE runs[k].lo > c
  <2>1. f \in 1 .. n /\ runs[f].lo > c
    BY <1>1, <1>5, <1>7
  <2>2. CASE k = f
    BY <2>1, <2>2
  <2>3. CASE k > f
    BY <1>1, <2>1, <2>3 DEF Apart
  <2> QED BY <1>1, <1>7, <2>1, <2>2, <2>3
<1> QED BY <1>5, <1>6, <1>7 DEF f
-----------------------------------------------------------------------------
\* append and copy: the slice with one element put in at i.
LEMMA InsertAtProperties ==
    ASSUME NEW S, NEW s \in Seq(S), NEW i \in 1 .. Len(s) + 1, NEW e \in S
    PROVE  /\ InsertAt(s, i, e) \in Seq(S)
           /\ Len(InsertAt(s, i, e)) = Len(s) + 1
           /\ \A k \in 1 .. Len(s) + 1 : InsertAt(s, i, e)[k] =
                IF k < i THEN s[k] ELSE IF k = i THEN e ELSE s[k - 1]
<1> DEFINE n == Len(s)
           front == SubSeq(s, 1, i - 1)
           back == SubSeq(s, i, n)
<1>1. n \in Nat /\ \A k \in 1 .. n : s[k] \in S
  BY LenProperties, ElementOfSeq
<1>2. /\ front \in Seq(S) /\ Len(front) = i - 1
      /\ \A k \in 1 .. i - 1 : front[k] = s[k]
  <2>1. i - 1 \in Int /\ \A k \in 1 .. i - 1 : s[k] \in S
    BY <1>1
  <2>2. /\ front \in Seq(S) /\ Len(front) = IF 1 <= i - 1 THEN i - 1 - 1 + 1 ELSE 0
        /\ \A k \in 1 .. i - 1 - 1 + 1 : front[k] = s[1 + k - 1]
    BY <2>1, SubSeqProperties
  <2> HIDE DEF front
  <2> QED BY <1>1, <2>2
<1>3. /\ back \in Seq(S) /\ Len(back) = n - i + 1
      /\ \A k \in 1 .. n - i + 1 : back[k] = s[i + k - 1]
  <2>1. i \in Int /\ n \in Int /\ \A k \in i .. n : s[k] \in S
    BY <1>1
  <2>2. /\ back \in Seq(S) /\ Len(back) = IF i <= n THEN n - i + 1 ELSE 0
        /\ \A k \in 1 .. n - i + 1 : back[k] = s[i + k - 1]
    BY <2>1, SubSeqProperties
  <2> HIDE DEF back
  <2> QED BY <1>1, <2>2
<1>4. <<e>> \in Seq(S) /\ Len(<<e>>) = 1 /\ <<e>>[1] = e
  OBVIOUS
<1> DEFINE mid == <<e>>
<1>5. InsertAt(s, i, e) = (front \o mid) \o back
  BY DEF InsertAt
<1> HIDE DEF front, mid, back
<1>6. /\ front \o mid \in Seq(S) /\ Len(front \o mid) = Len(front) + Len(mid)
      /\ \A k \in 1 .. Len(front) + Len(mid) :
            (front \o mid)[k] = IF k <= Len(front) THEN front[k] ELSE mid[k - Len(front)]
  BY <1>2, <1>4, ConcatProperties DEF mid
<1> DEFINE fm == front \o mid
<1>7. /\ fm \o back \in Seq(S) /\ Len(fm \o back) = Len(fm) + Len(back)
      /\ \A k \in 1 .. Len(fm) + Len(back) :
            (fm \o back)[k] = IF k <= Len(fm) THEN fm[k] ELSE back[k - Len(fm)]
  <2>1. fm \in Seq(S)
    BY <1>6
  <2> HIDE DEF fm
  <2> QED BY <1>3, <2>1, ConcatProperties
<1>8. Len(mid) = 1 /\ mid[1] = e
  BY <1>4 DEF mid
<1>9. Len(fm) = i /\ \A k \in 1 .. i : fm[k] = IF k < i THEN s[k] ELSE e
  <2> QED BY <1>1, <1>2, <1>6, <1>8
<1> HIDE DEF fm
<1>10. /\ fm \o back \in Seq(S) /\ Len(fm \o back) = n + 1
  <2> QED BY <1>1, <1>3, <1>7, <1>9
<1>11. ASSUME NEW k \in 1 .. n + 1
       PROVE  (fm \o back)[k] = IF k < i THEN s[k] ELSE IF k = i THEN e ELSE s[k - 1]
  <2>1. CASE k <= i
    BY <1>1, <1>3, <1>7, <1>9, <2>1
  <2>2. CASE k > i
    <3>1. (fm \o back)[k] = back[k - i] /\ k - i \in 1 .. n - i + 1
      BY <1>1, <1>3, <1>7, <1>9, <2>2
    <3>2. back[k - i] = s[i + (k - i) - 1] /\ i + (k - i) - 1 = k - 1
      BY <1>1, <1>3, <3>1
    <3> QED BY <1>1, <2>2, <3>1, <3>2
  <2>3. k <= i \/ k > i
    BY <1>1
  <2> QED BY <2>1, <2>2, <2>3
<1> QED BY <1>5, <1>10, <1>11 DEF fm

\* append of the part before i and the part after it: the slice without
\* element i.
LEMMA RemoveAtProperties ==
    ASSUME NEW S, NEW s \in Seq(S), NEW i \in 1 .. Len(s)
    PROVE  /\ RemoveAt(s, i) \in Seq(S)
           /\ Len(RemoveAt(s, i)) = Len(s) - 1
           /\ \A k \in 1 .. Len(s) - 1 : RemoveAt(s, i)[k] = IF k < i THEN s[k] ELSE s[k + 1]
<1> DEFINE n == Len(s)
           front == SubSeq(s, 1, i - 1)
           back == SubSeq(s, i + 1, n)
<1>1. n \in Nat /\ \A k \in 1 .. n : s[k] \in S
  BY LenProperties, ElementOfSeq
<1>2. /\ front \in Seq(S) /\ Len(front) = i - 1
      /\ \A k \in 1 .. i - 1 : front[k] = s[k]
  <2>1. i - 1 \in Int /\ \A k \in 1 .. i - 1 : s[k] \in S
    BY <1>1
  <2>2. /\ front \in Seq(S) /\ Len(front) = IF 1 <= i - 1 THEN i - 1 - 1 + 1 ELSE 0
        /\ \A k \in 1 .. i - 1 - 1 + 1 : front[k] = s[1 + k - 1]
    BY <2>1, SubSeqProperties
  <2>3. /\ (IF 1 <= i - 1 THEN i - 1 - 1 + 1 ELSE 0) = i - 1
        /\ \A k \in 1 .. i - 1 : k \in 1 .. i - 1 - 1 + 1 /\ 1 + k - 1 = k
    BY <1>1
  <2> HIDE DEF front
  <2> QED BY <2>2, <2>3
<1>3. /\ back \in Seq(S) /\ Len(back) = n - i
      /\ \A k \in 1 .. n - i : back[k] = s[i + k]
  <2>1. i + 1 \in Int /\ n \in Int /\ \A k \in i + 1 .. n : s[k] \in S
    BY <1>1
  <2>2. /\ back \in Seq(S) /\ Len(back) = IF i + 1 <= n THEN n - (i + 1) + 1 ELSE 0
        /\ \A k \in 1 .. n - (i + 1) + 1 : back[k] = s[(i + 1) + k - 1]
    BY <2>1, SubSeqProperties
  <2>3. \A k \in 1 .. n - i : k \in 1 .. n - (i + 1) + 1 /\ (i + 1) + k - 1 = i + k
    BY <1>1
  <2> HIDE DEF back
  <2>4. Len(back) = n - i
    BY <1>1, <2>2
  <2> QED BY <2>2, <2>3, <2>4
<1>4. RemoveAt(s, i) = front \o back
  BY DEF RemoveAt
<1> HIDE DEF front, back
<1>5. /\ front \o back \in Seq(S) /\ Len(front \o back) = Len(front) + Len(back)
      /\ \A k \in 1 .. Len(front) + Len(back) :
            (front \o back)[k] = IF k <= Len(front) THEN front[k] ELSE back[k - Len(front)]
  BY <1>2, <1>3, ConcatProperties
<1>6. Len(front) + Len(back) = n - 1
  BY <1>1, <1>2, <1>3
<1>7. ASSUME NEW k \in 1 .. n - 1
      PROVE  (front \o back)[k] = IF k < i THEN s[k] ELSE s[k + 1]
  <2>1. CASE k < i
    BY <1>1, <1>2, <1>5, <1>6, <2>1
  <2>2. CASE k >= i
    <3>1. (front \o back)[k] = back[k - (i - 1)] /\ k - (i - 1) \in 1 .. n - i
      BY <1>1, <1>2, <1>5, <1>6, <2>2
    <3>2. back[k - (i - 1)] = s[i + (k - (i - 1))] /\ i + (k - (i - 1)) = k + 1
      BY <1>1, <1>3, <3>1
    <3> QED BY <1>1, <2>2, <3>1, <3>2
  <2>3. k < i \/ k >= i
    BY <1>1
  <2> QED BY <2>1, <2>2, <2>3
<1> QED BY <1>4, <1>5, <1>6, <1>7
-----------------------------------------------------------------------------
\* A counter lies in a run or right beside one.
Touches(runs, c) == \E k \in 1 .. Len(runs) : c \in runs[k].lo - 1 .. runs[k].hi + 1

\* What insertLocked owes its caller: runs that lie apart and hold what they
\* held and the counter, in one more run only if the counter touches none.
Inserted(runs, c, q) ==
    /\ Apart(q)
    /\ \A v \in Nat : v \in ValuesOf(q) <=> v \in ValuesOf(runs) \/ v = c
    /\ Len(q) <= Len(runs) + 1
    /\ Touches(runs, c) => Len(q) <= Len(runs)

\* insertLocked, a counter between two runs that it joins.
LEMMA JoinInserts ==
    ASSUME NEW runs, Apart(runs), NEW c \in Nat, NEW i \in 2 .. Len(runs),
           runs[i - 1].hi + 1 = c, runs[i].lo = c + 1
    PROVE  Inserted(runs, c, RemoveAt([runs EXCEPT ![i - 1].hi = runs[i].hi], i))
<1> DEFINE n == Len(runs)
           e == [lo |-> runs[i - 1].lo, hi |-> runs[i].hi]
           r == [runs EXCEPT ![i - 1] = e]
           q == RemoveAt(r, i)
<1>1. /\ runs \in Seq(Run) /\ n \in Nat
      /\ \A k \in 1 .. n : runs[k] \in Run /\ runs[k].lo \in Nat /\ runs[k].hi \in Nat
  BY RunBounds DEF Apart
<1>2. [runs EXCEPT ![i - 1].hi = runs[i].hi] = r
  <2>1. i - 1 \in 1 .. n /\ i \in 1 .. n
    BY <1>1
  <2>2. [runs[i - 1] EXCEPT !.hi = runs[i].hi] = e
    <3>1. runs[i - 1] \in [lo : Nat, hi : Nat]
      BY <1>1, <2>1 DEF Run
    <3> QED BY <3>1
  <2> QED BY <2>2
<1>3. e \in Run /\ i - 1 \in 1 .. n
  BY <1>1 DEF Run
<1> HIDE DEF e
<1>4. /\ r \in Seq(Run) /\ Len(r) = n
      /\ \A k \in 1 .. n : r[k] = IF k = i - 1 THEN e ELSE runs[k]
  BY <1>1, <1>3, ExceptSeq
<1>5. /\ q \in Seq(Run) /\ Len(q) = n - 1
      /\ \A k \in 1 .. n - 1 : q[k] = IF k < i THEN r[k] ELSE r[k + 1]
  <2>1. i \in 1 .. Len(r)
    BY <1>1, <1>4
  <2> HIDE DEF r
  <2> QED BY <1>4, <2>1, RemoveAtProperties
<1> HIDE DEF r, q
<1>6. e.lo = runs[i - 1].lo /\ e.hi = runs[i].hi
  BY DEF e
<1>7. \A k \in 1 .. n - 1 :
        /\ q[k].lo = IF k < i THEN runs[k].lo ELSE runs[k + 1].lo
        /\ q[k].hi = IF k < i - 1 THEN runs[k].hi ELSE runs[k + 1].hi
  <2> TAKE k \in 1 .. n - 1
  <2>1. k \in 1 .. n /\ k + 1 \in 1 .. n /\ i \in Int
    BY <1>1
  <2>2. CASE k < i - 1
    <3>1. q[k] = runs[k] /\ k < i
      BY <1>4, <1>5, <2>1, <2>2
    <3> QED BY <2>2, <3>1
  <2>3. CASE k = i - 1
    <3>1. q[k] = e /\ k + 1 = i /\ k < i /\ ~(k < i - 1)
      BY <1>4, <1>5, <2>1, <2>3
    <3> QED BY <1>6, <2>3, <3>1
  <2>4. CASE k > i - 1
    <3>1. q[k] = runs[k + 1] /\ ~(k < i) /\ ~(k < i - 1)
      BY <1>4, <1>5, <2>1, <2>4
    <3> QED BY <3>1
  <2> QED BY <2>1, <2>2, <2>3, <2>4
<1> DEFINE lo == [k \in 1 .. n |-> runs[k].lo]
           hi == [k \in 1 .. n |-> runs[k].hi]
<1>a. /\ n \in Nat /\ i \in Nat /\ 2 <= i /\ i <= n /\ hi[i - 1] + 1 = c /\ lo[i] = c + 1
      /\ \A k \in 1 .. n : lo[k] \in Nat /\ hi[k] \in Nat /\ lo[k] <= hi[k]
      /\ \A j, k \in 1 .. n : j < k => lo[k] > hi[j] + 1
  BY <1>1 DEF Apart
<1>b. \A k \in 1 .. n - 1 : /\ k \in 1 .. n /\ k + 1 \in 1 .. n
                            /\ k < i => q[k].lo = lo[k]
                            /\ k >= i => q[k].lo = lo[k + 1]
                            /\ k < i - 1 => q[k].hi = hi[k]
                            /\ k >= i - 1 => q[k].hi = hi[k + 1]
  BY <1>1, <1>7
<1>c. n \in Nat /\ i \in Nat /\ 2 <= i /\ i <= n
  BY <1>a
<1> HIDE DEF lo, hi, n
<1>8. Apart(q)
  <2>1. ASSUME NEW k \in 1 .. n - 1 PROVE q[k].lo <= q[k].hi
    <3>1. CASE k < i - 1
      BY <1>a, <1>b, <3>1
    <3>2. CASE k = i - 1
      BY <1>a, <1>b, <3>2
    <3>3. CASE k > i - 1
      BY <1>a, <1>b, <3>3
    <3> QED BY <1>c, <3>1, <3>2, <3>3
  <2>2. ASSUME NEW j \in 1 .. n - 1, NEW k \in 1 .. n - 1, j < k
        PROVE  q[k].lo > q[j].hi + 1
    <3>1. CASE k < i
      <4>1. j < i - 1 /\ q[k].lo = lo[k] /\ q[j].hi = hi[j]
        BY <1>c, <1>b, <2>2, <3>1
      <4> QED BY <1>a, <1>b, <2>2, <4>1
    <3>2. CASE k >= i /\ j < i - 1
      <4>1. q[k].lo = lo[k + 1] /\ q[j].hi = hi[j] /\ j < k + 1
        BY <1>c, <1>b, <2>2, <3>2
      <4> QED BY <1>a, <1>b, <4>1
    <3>3. CASE k >= i /\ j >= i - 1
      <4>1. q[k].lo = lo[k + 1] /\ q[j].hi = hi[j + 1] /\ j + 1 < k + 1
        BY <1>c, <1>b, <2>2, <3>3
      <4> QED BY <1>a, <1>b, <4>1
    <3> QED BY <1>c, <3>1, <3>2, <3>3
  <2> QED BY <1>5, <2>1, <2>2 DEF Apart
<1>9. ASSUME NEW v \in Nat PROVE v \in ValuesOf(q) <=> v \in ValuesOf(runs) \/ v = c
  <2>1. v \in ValuesOf(q) <=> \E k \in 1 .. n - 1 : q[k].lo <= v /\ v <= q[k].hi
    BY <1>5, HeldByARun
  <2>2. v \in ValuesOf(runs) <=> \E k \in 1 .. n : lo[k] <= v /\ v <= hi[k]
    BY <1>1, HeldByARun DEF lo, hi, n
  <2>3. ASSUME NEW k \in 1 .. n - 1, q[k].lo <= v, v <= q[k].hi
        PROVE  v = c \/ \E m \in 1 .. n : lo[m] <= v /\ v <= hi[m]
    <3>1. CASE k = i - 1
      <4>1. /\ i - 1 \in 1 .. n /\ i \in 1 .. n
            /\ q[k].lo = lo[i - 1] /\ q[k].hi = hi[(i - 1) + 1] /\ (i - 1) + 1 = i
        BY <1>a, <1>b, <3>1
      <4>2. lo[i - 1] <= v /\ v <= hi[i]
        BY <2>3, <4>1
      <4>3. v <= hi[i - 1] \/ v = c \/ lo[i] <= v
        BY <1>a, <4>1
      <4> QED BY <4>1, <4>2, <4>3
    <3>2. CASE k < i - 1
      <4>1. k \in 1 .. n /\ q[k].lo = lo[k] /\ q[k].hi = hi[k]
        BY <1>a, <1>b, <3>2
      <4> QED BY <2>3, <4>1
    <3>3. CASE k > i - 1
      <4>1. k + 1 \in 1 .. n /\ q[k].lo = lo[k + 1] /\ q[k].hi = hi[k + 1]
        BY <1>a, <1>b, <3>3
      <4> QED BY <2>3, <4>1
    <3> QED BY <1>c, <3>1, <3>2, <3>3
  <2>4. ASSUME NEW m \in 1 .. n, lo[m] <= v, v <= hi[m]
        PROVE  \E k \in 1 .. n - 1 : q[k].lo <= v /\ v <= q[k].hi
    <3>1. CASE m < i
      <4>1. m \in 1 .. n - 1
        BY <1>a, <3>1
      <4>2. q[m].lo = lo[m] /\ (m < i - 1 => q[m].hi = hi[m]) /\ (m >= i - 1 => q[m].hi = hi[m + 1])
        BY <1>b, <3>1, <4>1
      <4>3. CASE m < i - 1
        BY <2>4, <4>1, <4>2, <4>3
      <4>4. CASE m >= i - 1
        <5>1. m + 1 \in 1 .. n /\ m < m + 1 /\ q[m].hi = hi[m + 1]
          BY <1>b, <4>1, <4>2, <4>4
        <5>2. hi[m] <= hi[m + 1]
          BY <1>a, <5>1
        <5>3. hi[m] \in Nat /\ hi[m + 1] \in Nat
          BY <1>a, <5>1
        <5>4. v <= q[m].hi
          BY <2>4, <5>1, <5>2, <5>3
        <5> QED BY <2>4, <4>1, <4>2, <5>4
      <4> QED BY <1>a, <4>3, <4>4
    <3>2. CASE m >= i
      <4> DEFINE k == m - 1
      <4>1. k \in 1 .. n - 1 /\ k + 1 = m /\ k >= i - 1
        BY <1>a, <3>2
      <4> HIDE DEF k
      <4>2. /\ k \in 1 .. n /\ q[k].hi = hi[m]
            /\ (k < i => q[k].lo = lo[k]) /\ (k >= i => q[k].lo = lo[m])
        BY <1>b, <4>1
      <4>3. lo[k] <= lo[m]
        <5>1. lo[k] \in Nat /\ hi[k] \in Nat /\ lo[m] \in Nat /\ lo[k] <= hi[k]
          BY <1>a, <4>2
        <5>2. lo[m] > hi[k] + 1
          BY <1>a, <4>1, <4>2
        <5> QED BY <5>1, <5>2
      <4>4. lo[k] \in Nat /\ lo[m] \in Nat
        BY <1>a, <4>2
      <4>5. q[k].lo <= v
        BY <1>a, <2>4, <4>1, <4>2, <4>3, <4>4
      <4> QED BY <2>4, <4>1, <4>2, <4>5
    <3> QED BY <1>c, <3>1, <3>2
  <2>5. q[i - 1].lo <= c /\ c <= q[i - 1].hi /\ i - 1 \in 1 .. n - 1
    <3> DEFINE p == i - 1
    <3>1. p \in 1 .. n - 1 /\ p < i /\ p >= i - 1 /\ p + 1 = i /\ i \in 1 .. n
      BY <1>c
    <3>2. hi[p] + 1 = c /\ lo[i] = c + 1
      BY <1>a
    <3> HIDE DEF p
    <3>3. p \in 1 .. n /\ q[p].lo = lo[p] /\ q[p].hi = hi[i]
      BY <1>b, <3>1
    <3>4. /\ lo[p] <= hi[p] /\ lo[i] <= hi[i] /\ lo[p] \in Nat
          /\ hi[p] \in Nat /\ lo[i] \in Nat /\ hi[i] \in Nat
      BY <1>a, <3>1, <3>3
    <3>5. q[p].lo <= c /\ c <= q[p].hi
      BY <3>2, <3>3, <3>4
    <3> QED BY <3>1, <3>5 DEF p
  <2> QED BY <2>1, <2>2, <2>3, <2>4, <2>5
<1>10. Len(q) <= n + 1 /\ Len(q) <= n
  BY <1>1, <1>5
<1> QED BY <1>2, <1>8, <1>9, <1>10 DEF Inserted, q, n, e, r

\* insertLocked, a counter that stretches one run, at its end or its start.
LEMMA StretchInserts ==
    ASSUME NEW runs, Apart(runs), NEW c \in Nat, NEW i \in 1 .. Len(runs), NEW e \in Run,
           \/ e.lo = runs[i].lo /\ e.hi = c /\ runs[i].hi + 1 = c
           \/ e.lo = c /\ e.hi = runs[i].hi /\ runs[i].lo = c + 1,
           \A k \in 1 .. Len(runs) : k < i => c > runs[k].hi + 1,
           \A k \in 1 .. Len(runs) : k > i => runs[k].lo > c + 1
    PROVE  Inserted(runs, c, [runs EXCEPT ![i] = e])
<1> DEFINE n == Len(runs)
           q == [runs EXCEPT ![i] = e]
<1>1. /\ runs \in Seq(Run) /\ n \in Nat
      /\ \A k \in 1 .. n : runs[k] \in Run /\ runs[k].lo \in Nat /\ runs[k].hi \in Nat
  BY RunBounds DEF Apart
<1>2. /\ q \in Seq(Run) /\ Len(q) = n
      /\ \A k \in 1 .. n : q[k] = IF k = i THEN e ELSE runs[k]
  BY <1>1, ExceptSeq
<1> HIDE DEF q
<1>3. e.lo \in Nat /\ e.hi \in Nat
  BY DEF Run
<1>4. Apart(q)
  <2>1. ASSUME NEW k \in 1 .. n PROVE q[k].lo <= q[k].hi
    BY <1>1, <1>2, <1>3 DEF Apart
  <2>2. ASSUME NEW j \in 1 .. n, NEW k \in 1 .. n, j < k
        PROVE  q[k].lo > q[j].hi + 1
    <3>1. runs[k].lo > runs[j].hi + 1
      BY <2>2 DEF Apart
    <3> QED BY <1>1, <1>2, <1>3, <2>2, <3>1
  <2> QED BY <1>2, <2>1, <2>2 DEF Apart
<1>5. ASSUME NEW v \in Nat PROVE v \in ValuesOf(q) <=> v \in ValuesOf(runs) \/ v = c
  <2>1. v \in ValuesOf(q) <=> \E k \in 1 .. n : q[k].lo <= v /\ v <= q[k].hi
    BY <1>2, HeldByARun
  <2>2. v \in ValuesOf(runs) <=> \E k \in 1 .. n : runs[k].lo <= v /\ v <= runs[k].hi
    BY <1>1, HeldByARun
  <2>3. runs[i].lo <= runs[i].hi
    BY DEF Apart
  <2>4. e.lo <= v /\ v <= e.hi <=> v = c \/ (runs[i].lo <= v /\ v <= runs[i].hi)
    BY <1>1, <1>3, <2>3
  <2> QED BY <1>2, <2>1, <2>2, <2>4
<1>6. Len(q) <= n + 1 /\ Len(q) <= n
  BY <1>1, <1>2
<1> QED BY <1>4, <1>5, <1>6 DEF Inserted, q

\* insertLocked, a counter that touches no run.
LEMMA FreshInserts ==
    ASSUME NEW runs, Apart(runs), NEW c \in Nat, NEW i \in 1 .. Len(runs) + 1,
           \A k \in 1 .. Len(runs) : k < i => c > runs[k].hi + 1,
           \A k \in 1 .. Len(runs) : k >= i => runs[k].lo > c + 1
    PROVE  /\ Inserted(runs, c, InsertAt(runs, i, [lo |-> c, hi |-> c]))
           /\ ~Touches(runs, c)
<1> DEFINE n == Len(runs)
           e == [lo |-> c, hi |-> c]
           q == InsertAt(runs, i, e)
<1>1. /\ runs \in Seq(Run) /\ n \in Nat
      /\ \A k \in 1 .. n : runs[k] \in Run /\ runs[k].lo \in Nat /\ runs[k].hi \in Nat
  BY RunBounds DEF Apart
<1>2. e \in Run /\ e.lo = c /\ e.hi = c
  BY DEF Run
<1> HIDE DEF e
<1>3. /\ q \in Seq(Run) /\ Len(q) = n + 1
      /\ \A k \in 1 .. n + 1 : q[k] = IF k < i THEN runs[k] ELSE IF k = i THEN e ELSE runs[k - 1]
  BY <1>1, <1>2, InsertAtProperties
<1> HIDE DEF q
<1> DEFINE lo == [k \in 1 .. n |-> runs[k].lo]
           hi == [k \in 1 .. n |-> runs[k].hi]
<1>4. /\ \A k \in 1 .. n : lo[k] \in Nat /\ hi[k] \in Nat /\ lo[k] <= hi[k]
      /\ \A j, k \in 1 .. n : j < k => lo[k] > hi[j] + 1
      /\ \A k \in 1 .. n : (k < i => c > hi[k] + 1) /\ (k >= i => lo[k] > c + 1)
  BY <1>1 DEF Apart
<1>5. n \in Nat /\ i \in Nat /\ 1 <= i /\ i <= n + 1
  BY <1>1
<1>6. \A k \in 1 .. n + 1 :
        /\ k < i => k \in 1 .. n /\ q[k].lo = lo[k] /\ q[k].hi = hi[k]
        /\ k = i => q[k].lo = c /\ q[k].hi = c
        /\ k > i => k - 1 \in 1 .. n /\ k - 1 >= i /\ q[k].lo = lo[k - 1] /\ q[k].hi = hi[k - 1]
  BY <1>1, <1>2, <1>3, <1>5
<1> HIDE DEF lo, hi, n
<1>7. Apart(q)
  <2>1. ASSUME NEW k \in 1 .. n + 1 PROVE q[k].lo <= q[k].hi
    <3>1. CASE k < i
      BY <1>4, <1>6, <3>1
    <3>2. CASE k = i
      BY <1>6, <3>2
    <3>3. CASE k > i
      BY <1>4, <1>6, <3>3
    <3> QED BY <1>5, <3>1, <3>2, <3>3
  <2>2. ASSUME NEW j \in 1 .. n + 1, NEW k \in 1 .. n + 1, j < k PROVE q[k].lo > q[j].hi + 1
    <3>1. CASE k < i
      <4>1. j < i
        BY <1>5, <2>2, <3>1
      <4> QED BY <1>4, <1>6, <2>2, <3>1, <4>1
    <3>2. CASE k = i
      <4>1. j < i
        BY <1>5, <2>2, <3>2
      <4> QED BY <1>4, <1>6, <3>2, <4>1
    <3>3. CASE k > i /\ j < i
      <4>1. k - 1 \in 1 .. n /\ j \in 1 .. n /\ j < k - 1
        BY <1>5, <1>6, <3>3
      <4>2. lo[k - 1] > hi[j] + 1
        BY <1>4, <4>1
      <4> QED BY <1>6, <3>3, <4>2
    <3>4. CASE k > i /\ j = i
      BY <1>4, <1>6, <3>4
    <3>5. CASE j > i
      <4>1. k > i
        BY <1>5, <2>2, <3>5
      <4>2. k - 1 \in 1 .. n /\ j - 1 \in 1 .. n /\ j - 1 < k - 1
        BY <1>5, <1>6, <2>2, <3>5, <4>1
      <4>3. lo[k - 1] > hi[j - 1] + 1
        BY <1>4, <4>2
      <4> QED BY <1>6, <3>5, <4>1, <4>3
    <3> QED BY <1>5, <2>2, <3>1, <3>2, <3>3, <3>4, <3>5
  <2> QED BY <1>3, <2>1, <2>2 DEF Apart
<1>8. ASSUME NEW v \in Nat PROVE v \in ValuesOf(q) <=> v \in ValuesOf(runs) \/ v = c
  <2>1. v \in ValuesOf(q) <=> \E k \in 1 .. n + 1 : q[k].lo <= v /\ v <= q[k].hi
    BY <1>3, HeldByARun
  <2>2. v \in ValuesOf(runs) <=> \E k \in 1 .. n : lo[k] <= v /\ v <= hi[k]
    BY <1>1, HeldByARun DEF lo, hi, n
  <2>3. ASSUME NEW k \in 1 .. n + 1, q[k].lo <= v, v <= q[k].hi
        PROVE  v = c \/ \E m \in 1 .. n : lo[m] <= v /\ v <= hi[m]
    <3>1. CASE k < i
      BY <1>6, <2>3, <3>1
    <3>2. CASE k = i
      BY <1>6, <2>3, <3>2
    <3>3. CASE k > i
      BY <1>6, <2>3, <3>3
    <3> QED BY <1>5, <3>1, <3>2, <3>3
  <2>4. ASSUME NEW m \in 1 .. n, lo[m] <= v, v <= hi[m]
        PROVE  \E k \in 1 .. n + 1 : q[k].lo <= v /\ v <= q[k].hi
    <3>1. CASE m < i
      <4>1. m \in 1 .. n + 1
        BY <1>5
      <4> QED BY <1>6, <2>4, <3>1, <4>1
    <3>2. CASE m >= i
      <4> DEFINE k == m + 1
      <4>1. k \in 1 .. n + 1 /\ k > i /\ k - 1 = m
        BY <1>5, <3>2
      <4> HIDE DEF k
      <4>2. q[k].lo = lo[m] /\ q[k].hi = hi[m]
        BY <1>6, <4>1
      <4> QED BY <2>4, <4>1, <4>2
    <3> QED BY <1>5, <3>1, <3>2
  <2>5. i \in 1 .. n + 1 /\ q[i].lo <= c /\ c <= q[i].hi
    BY <1>5, <1>6
  <2> QED BY <2>1, <2>2, <2>3, <2>4, <2>5
<1>9. ~Touches(runs, c)
  <2>1. ASSUME NEW k \in 1 .. n PROVE ~(c \in lo[k] - 1 .. hi[k] + 1)
    <3>1. lo[k] \in Nat /\ hi[k] \in Nat /\ (c > hi[k] + 1 \/ lo[k] > c + 1)
      BY <1>4, <1>5
    <3> QED BY <3>1
  <2> QED BY <2>1 DEF Touches, lo, hi, n
<1>10. Len(q) <= n + 1
  BY <1>3, <1>5
<1> QED BY <1>7, <1>8, <1>9, <1>10 DEF Inserted, q, e, n

\* insertLocked with room: whatever the neighbours, the counter is added and
\* the runs stay apart; its switch overflows exactly when no run is touched.
LEMMA InsertRunInserts ==
    ASSUME NEW runs, Apart(runs), NEW c \in Nat
    PROVE  Inserted(runs, c, InsertRun(runs, c))
<1> DEFINE n == Len(runs)
           i == FirstAbove(runs, c)
           held == i > 1 /\ runs[i - 1].hi >= c
           extendsPrev == i > 1 /\ runs[i - 1].hi + 1 = c
           extendsNext == i <= n /\ runs[i].lo = c + 1
<1>1. /\ runs \in Seq(Run) /\ n \in Nat
      /\ \A k \in 1 .. n : runs[k] \in Run /\ runs[k].lo \in Nat /\ runs[k].hi \in Nat
  BY RunBounds DEF Apart
<1>2. /\ i \in 1 .. n + 1
      /\ \A k \in 1 .. n : (k < i => runs[k].lo <= c) /\ (k >= i => runs[k].lo > c)
  BY FirstAboveProperties
<1>3. InsertRun(runs, c) =
        CASE held -> runs
          [] ~held /\ extendsPrev /\ extendsNext ->
                RemoveAt([runs EXCEPT ![i - 1].hi = runs[i].hi], i)
          [] ~held /\ extendsPrev /\ ~extendsNext -> [runs EXCEPT ![i - 1].hi = c]
          [] ~held /\ ~extendsPrev /\ extendsNext -> [runs EXCEPT ![i].lo = c]
          [] OTHER -> InsertAt(runs, i, [lo |-> c, hi |-> c])
  BY DEF InsertRun
<1> HIDE DEF i
<1>4. i \in Nat /\ 1 <= i /\ i <= n + 1
  BY <1>1, <1>2
<1>5. ASSUME NEW k \in 1 .. n, k < i - 1 PROVE c > runs[k].hi + 1
  <2>1. i - 1 \in 1 .. n /\ runs[i - 1].lo > runs[k].hi + 1
    BY <1>1, <1>4, <1>5 DEF Apart
  <2>2. runs[i - 1].lo <= c
    BY <1>2, <1>4, <2>1
  <2> QED BY <1>1, <2>1, <2>2
<1>6. ASSUME NEW k \in 1 .. n, k > i PROVE runs[k].lo > c + 1
  <2>1. i \in 1 .. n
    BY <1>1, <1>4, <1>6
  <2>2. runs[i].lo > c /\ runs[i].lo <= runs[i].hi /\ runs[k].lo > runs[i].hi + 1
    BY <1>2, <1>4, <1>6, <2>1 DEF Apart
  <2> QED BY <1>1, <2>1, <2>2
<1>7. CASE held
  <2>1. i - 1 \in 1 .. n
    BY <1>1, <1>4, <1>7
  <2>2. runs[i - 1].lo <= c /\ c <= runs[i - 1].hi
    BY <1>2, <1>4, <1>7, <2>1
  <2>3. c \in ValuesOf(runs)
    BY <1>1, <2>1, <2>2, HeldByARun
  <2>4. Len(runs) <= Len(runs) + 1 /\ Len(runs) <= Len(runs)
    BY <1>1
  <2>5. InsertRun(runs, c) = runs
    BY <1>3, <1>7
  <2> QED BY <2>3, <2>4, <2>5 DEF Inserted
<1>8. CASE ~held /\ extendsPrev /\ extendsNext
  <2>1. i \in 2 .. n
    BY <1>1, <1>4, <1>8
  <2>2. InsertRun(runs, c) = RemoveAt([runs EXCEPT ![i - 1].hi = runs[i].hi], i)
    BY <1>3, <1>8
  <2> QED BY <1>8, <2>1, <2>2, JoinInserts
<1>9. CASE ~held /\ extendsPrev /\ ~extendsNext
  <2> DEFINE p == i - 1
             e == [lo |-> runs[p].lo, hi |-> c]
  <2>1. p \in 1 .. n /\ p + 1 = i
    BY <1>1, <1>4, <1>9
  <2>2. e \in Run /\ e.lo = runs[p].lo /\ e.hi = c
    BY <1>1, <2>1 DEF Run
  <2>3. InsertRun(runs, c) = [runs EXCEPT ![p] = e]
    <3>1. InsertRun(runs, c) = [runs EXCEPT ![p].hi = c]
      BY <1>3, <1>9
    <3>2. runs[p] \in [lo : Nat, hi : Nat]
      BY <1>1, <2>1 DEF Run
    <3>3. [runs[p] EXCEPT !.hi = c] = e
      BY <3>2
    <3> QED BY <3>1, <3>3
  <2>4. runs[p].hi + 1 = c
    BY <1>9
  <2> HIDE DEF e
  <2>5. \A k \in 1 .. n : k < p => c > runs[k].hi + 1
    BY <1>5
  <2>6. ASSUME NEW k \in 1 .. n, k > p PROVE runs[k].lo > c + 1
    <3>1. CASE k = i
      BY <1>1, <1>2, <1>4, <1>9, <3>1
    <3>2. CASE k > i
      BY <1>6, <3>2
    <3> QED BY <1>4, <2>1, <2>6, <3>1, <3>2
  <2> HIDE DEF p
  <2>7. \A k \in 1 .. n : k > p => runs[k].lo > c + 1
    BY <2>6
  <2>8. Inserted(runs, c, [runs EXCEPT ![p] = e])
    BY <2>1, <2>2, <2>4, <2>5, <2>7, StretchInserts
  <2> QED BY <2>3, <2>8
<1>10. CASE ~held /\ ~extendsPrev /\ extendsNext
  <2> DEFINE e == [lo |-> c, hi |-> runs[i].hi]
  <2>1. i \in 1 .. n /\ runs[i].lo = c + 1
    BY <1>1, <1>4, <1>10
  <2>2. e \in Run /\ e.lo = c /\ e.hi = runs[i].hi
    BY <1>1, <2>1 DEF Run
  <2>3. InsertRun(runs, c) = [runs EXCEPT ![i] = e]
    <3>1. InsertRun(runs, c) = [runs EXCEPT ![i].lo = c]
      BY <1>3, <1>10
    <3>2. runs[i] \in [lo : Nat, hi : Nat]
      BY <1>1, <2>1 DEF Run
    <3>3. [runs[i] EXCEPT !.lo = c] = e
      BY <3>2
    <3> QED BY <3>1, <3>3
  <2> HIDE DEF e
  <2>4. ASSUME NEW k \in 1 .. n, k < i PROVE c > runs[k].hi + 1
    <3>1. CASE k = i - 1
      BY <1>1, <1>4, <1>10, <2>4, <3>1
    <3>2. CASE k < i - 1
      BY <1>5, <3>2
    <3> QED BY <1>4, <2>4, <3>1, <3>2
  <2>5. /\ \A k \in 1 .. n : k < i => c > runs[k].hi + 1
        /\ \A k \in 1 .. n : k > i => runs[k].lo > c + 1
    BY <1>6, <2>4
  <2>6. Inserted(runs, c, [runs EXCEPT ![i] = e])
    BY <2>1, <2>2, <2>5, StretchInserts
  <2> QED BY <2>3, <2>6
<1>11. CASE ~held /\ ~extendsPrev /\ ~extendsNext
  <2>1. InsertRun(runs, c) = InsertAt(runs, i, [lo |-> c, hi |-> c])
    BY <1>3, <1>11
  <2>2. ASSUME NEW k \in 1 .. n, k < i PROVE c > runs[k].hi + 1
    <3>1. CASE k = i - 1
      BY <1>1, <1>4, <1>11, <2>2, <3>1
    <3>2. CASE k < i - 1
      BY <1>5, <3>2
    <3> QED BY <1>4, <2>2, <3>1, <3>2
  <2>3. ASSUME NEW k \in 1 .. n, k >= i PROVE runs[k].lo > c + 1
    <3>1. CASE k = i
      BY <1>1, <1>2, <1>4, <1>11, <3>1
    <3>2. CASE k > i
      BY <1>6, <3>2
    <3> QED BY <1>4, <2>3, <3>1, <3>2
  <2> QED BY <1>2, <2>1, <2>2, <2>3, FreshInserts
<1> QED BY <1>7, <1>8, <1>9, <1>10, <1>11
-----------------------------------------------------------------------------
\* The cap compares the length of the slice: it is the number of separate runs
\* of consecutive values that the slice holds.
LEMMA RunCountIsLen ==
    ASSUME NEW runs, Apart(runs)
    PROVE  RunCount(ValuesOf(runs)) = Len(runs)
<1> DEFINE n == Len(runs)
           V == ValuesOf(runs)
           ends == {v \in V : v + 1 \notin V}
           f == [k \in 1 .. n |-> runs[k].hi]
<1>1. /\ runs \in Seq(Run) /\ n \in Nat
      /\ \A k \in 1 .. n : runs[k].lo \in Nat /\ runs[k].hi \in Nat /\ runs[k].lo <= runs[k].hi
      /\ \A j, k \in 1 .. n : j < k => runs[k].lo > runs[j].hi + 1
  BY RunBounds DEF Apart
<1>2. /\ V \in SUBSET Nat
      /\ \A v \in Nat : v \in V <=> \E k \in 1 .. n : runs[k].lo <= v /\ v <= runs[k].hi
  BY <1>1, HeldByARun
<1> HIDE DEF V
<1>3. ASSUME NEW k \in 1 .. n PROVE runs[k].hi \in ends
  <2>1. runs[k].hi \in V
    BY <1>1, <1>2
  <2>2. ASSUME NEW m \in 1 .. n, runs[m].lo <= runs[k].hi + 1, runs[k].hi + 1 <= runs[m].hi
        PROVE  FALSE
    <3>1. CASE m < k
      BY <1>1, <2>2, <3>1
    <3>2. CASE m = k
      BY <1>1, <2>2, <3>2
    <3>3. CASE m > k
      BY <1>1, <2>2, <3>3
    <3> QED BY <1>1, <3>1, <3>2, <3>3
  <2>3. runs[k].hi + 1 \in Nat
    BY <1>1
  <2> QED BY <1>2, <2>1, <2>2, <2>3
<1>4. ASSUME NEW v \in ends PROVE \E k \in 1 .. n : runs[k].hi = v
  <2>1. v \in Nat /\ v \in V /\ v + 1 \notin V
    BY <1>2
  <2>2. PICK k \in 1 .. n : runs[k].lo <= v /\ v <= runs[k].hi
    BY <1>2, <2>1
  <2>3. ~(v + 1 <= runs[k].hi)
    BY <1>1, <1>2, <2>1, <2>2
  <2> QED BY <1>1, <2>1, <2>2, <2>3
<1>5. f \in Bijection(1 .. n, ends)
  <2>1. f \in [1 .. n -> ends]
    BY <1>3
  <2>2. \A j, k \in 1 .. n : f[j] = f[k] => j = k
    BY <1>1
  <2>3. \A v \in ends : \E k \in 1 .. n : f[k] = v
    BY <1>4
  <2> HIDE DEF f, ends
  <2> QED BY <2>1, <2>2, <2>3 DEF Bijection, Injection, Surjection, IsInjective
<1>6. Cardinality(ends) = n
  <2> HIDE DEF f, ends
  <2> QED BY <1>1, <1>5, FS_CountingElements DEF ExistsBijection
<1> QED BY <1>6 DEF RunCount, V
-----------------------------------------------------------------------------
\* advanceLocked's loop over a slice whose runs lie apart: the through it
\* reaches after n runs is t or the end of the last one.
LEMMA ReachOfPrefix ==
    ASSUME NEW runs, Apart(runs), NEW t \in Nat, NEW n \in 0 .. Len(runs)
    PROVE  /\ Reach(t, runs, n) \in Nat
           /\ n = 0 => Reach(t, runs, n) = t
           /\ n > 0 => Reach(t, runs, n) = Larger(t, runs[n].hi)
<1> DEFINE S == {t} \cup {runs[k].hi : k \in 1 .. n}
           top == IF n = 0 THEN t ELSE Larger(t, runs[n].hi)
<1>1. /\ Len(runs) \in Nat
      /\ \A k \in 1 .. Len(runs) : runs[k].lo \in Nat /\ runs[k].hi \in Nat /\ runs[k].lo <= runs[k].hi
      /\ \A j, k \in 1 .. Len(runs) : j < k => runs[k].lo > runs[j].hi + 1
  BY RunBounds DEF Apart
<1>2. n \in Nat /\ n <= Len(runs)
  BY <1>1
<1>3. top \in Nat /\ top \in S
  BY <1>1, <1>2 DEF Larger
<1>4. \A k \in 1 .. n : runs[k].hi <= top
  <2> SUFFICES ASSUME NEW k \in 1 .. n PROVE runs[k].hi <= top
    OBVIOUS
  <2>1. k \in 1 .. Len(runs) /\ n \in 1 .. Len(runs) /\ n # 0 /\ k <= n
    BY <1>2
  <2>2. runs[k].hi <= runs[n].hi
    <3>1. CASE k = n
      BY <1>1, <2>1, <3>1
    <3>2. CASE k < n
      <4>1. runs[n].lo > runs[k].hi + 1
        BY <1>1, <2>1, <3>2
      <4> QED BY <1>1, <2>1, <4>1
    <3> QED BY <1>2, <2>1, <3>1, <3>2
  <2>3. runs[n].hi <= Larger(t, runs[n].hi) /\ runs[k].hi \in Nat /\ runs[n].hi \in Nat
    BY <1>1, <2>1 DEF Larger
  <2>4. top = Larger(t, runs[n].hi)
    BY <2>1
  <2> HIDE DEF top
  <2> QED BY <1>3, <2>2, <2>3, <2>4
<1>5. t <= top
  BY <1>1, <1>2 DEF Larger
<1>6. \A y \in S : y \in Nat /\ top >= y
  <2> SUFFICES ASSUME NEW y \in S PROVE y \in Nat /\ top >= y
    OBVIOUS
  <2>1. CASE y = t
    BY <1>3, <1>5, <2>1
  <2>2. CASE y # t
    <3>1. PICK k \in 1 .. n : y = runs[k].hi
      BY <2>2
    <3>2. y \in Nat
      BY <1>1, <1>2, <3>1
    <3> QED BY <1>3, <1>4, <3>1, <3>2
  <2> QED BY <2>1, <2>2
<1>7. Reach(t, runs, n) = top
  <2>1. Reach(t, runs, n) = CHOOSE x \in S : \A y \in S : x >= y
    BY DEF Reach, Max
  <2> HIDE DEF S, top
  <2>2. \A x \in S : (\A y \in S : x >= y) => x = top
    BY <1>3, <1>6
  <2>3. top \in S /\ \A y \in S : top >= y
    BY <1>3, <1>6
  <2>4. (CHOOSE x \in S : \A y \in S : x >= y) = top
    BY <2>2, <2>3
  <2> QED BY <2>1, <2>4
<1> QED BY <1>2, <1>3, <1>7

\* advanceLocked's loop consumes the runs that start at or below t + 1 and
\* stops before the first that does not.
LEMMA ConsumedProperties ==
    ASSUME NEW runs, Apart(runs), NEW t \in Nat
    PROVE  /\ Consumed(t, runs) \in 0 .. Len(runs)
           /\ \A k \in 1 .. Len(runs) : k <= Consumed(t, runs) => runs[k].lo <= t + 1
           /\ \A k \in 1 .. Len(runs) : k > Consumed(t, runs) =>
                runs[k].lo > Reach(t, runs, Consumed(t, runs)) + 1
<1> DEFINE len == Len(runs)
           P(n) == /\ \A k \in 1 .. n : runs[k].lo <= Reach(t, runs, k - 1) + 1
                   /\ n < len => runs[n + 1].lo > Reach(t, runs, n) + 1
           T == {n \in 0 .. len : n < len => runs[n + 1].lo > Reach(t, runs, n) + 1}
<1>1. /\ len \in Nat
      /\ \A k \in 1 .. len : runs[k].lo \in Nat /\ runs[k].hi \in Nat /\ runs[k].lo <= runs[k].hi
      /\ \A j, k \in 1 .. len : j < k => runs[k].lo > runs[j].hi + 1
  BY RunBounds DEF Apart
<1>2. \A n \in 0 .. len : /\ Reach(t, runs, n) \in Nat
                          /\ n = 0 => Reach(t, runs, n) = t
                          /\ n > 0 => Reach(t, runs, n) = Larger(t, runs[n].hi)
  BY ReachOfPrefix
<1>3. PICK m \in T : \A k \in T : m <= k
  <2>1. len \in T /\ T \in SUBSET Nat
    BY <1>1
  <2> QED BY <2>1, LeastNatural
<1>4. m \in 0 .. len /\ P(m)
  <2>1. m \in 0 .. len /\ (m < len => runs[m + 1].lo > Reach(t, runs, m) + 1)
    BY <1>3
  <2>2. ASSUME NEW k \in 1 .. m PROVE runs[k].lo <= Reach(t, runs, k - 1) + 1
    <3> DEFINE p == k - 1
    <3>1. p \in 0 .. len /\ p < len /\ p + 1 = k /\ ~(m <= p) /\ k \in 1 .. len
      BY <1>1, <2>1
    <3> HIDE DEF p
    <3>2. ~(runs[p + 1].lo > Reach(t, runs, p) + 1)
      BY <1>3, <3>1
    <3>3. runs[k].lo <= Reach(t, runs, p) + 1
      BY <1>1, <1>2, <3>1, <3>2
    <3> QED BY <3>3 DEF p
  <2> QED BY <2>1, <2>2
<1> DEFINE N == Consumed(t, runs)
<1>5. N \in 0 .. len /\ P(N)
  <2>1. N = CHOOSE n \in 0 .. len : P(n)
    BY DEF Consumed
  <2> HIDE DEF P, N, len
  <2> QED BY <1>4, <2>1
<1> HIDE DEF N
<1>6. ASSUME NEW k \in 1 .. len, k <= N PROVE runs[k].lo <= t + 1
  <2> DEFINE p == k - 1
  <2>1. runs[k].lo <= Reach(t, runs, p) + 1
    BY <1>1, <1>5, <1>6
  <2>2. p \in 0 .. len /\ p + 1 = k
    BY <1>1
  <2> HIDE DEF p
  <2>3. CASE p = 0
    BY <1>2, <2>1, <2>2, <2>3
  <2>4. CASE p > 0
    <3>1. p \in 1 .. len /\ p < k /\ Reach(t, runs, p) = Larger(t, runs[p].hi)
      BY <1>1, <1>2, <2>2, <2>4
    <3>2. runs[k].lo > runs[p].hi + 1 /\ runs[p].hi \in Nat /\ runs[k].lo \in Nat
      BY <1>1, <3>1
    <3> QED BY <2>1, <3>1, <3>2 DEF Larger
  <2> QED BY <1>1, <2>2, <2>3, <2>4
<1>7. ASSUME NEW k \in 1 .. len, k > N PROVE runs[k].lo > Reach(t, runs, N) + 1
  <2> DEFINE s == N + 1
  <2>1. s \in 1 .. len /\ s <= k /\ runs[s].lo > Reach(t, runs, N) + 1
    BY <1>1, <1>5, <1>7
  <2> HIDE DEF s
  <2>2. Reach(t, runs, N) \in Nat
    BY <1>2, <1>5
  <2>3. runs[s].lo <= runs[k].lo
    <3>1. CASE s = k
      BY <1>1, <3>1
    <3>2. CASE s < k
      <4>1. /\ runs[k].lo > runs[s].hi + 1 /\ runs[s].lo <= runs[s].hi
            /\ runs[s].lo \in Nat /\ runs[s].hi \in Nat /\ runs[k].lo \in Nat
        BY <1>1, <2>1, <3>2
      <4> QED BY <4>1
    <3> QED BY <2>1, <1>1, <3>1, <3>2
  <2> QED BY <1>1, <2>1, <2>2, <2>3
<1> QED BY <1>5, <1>6, <1>7 DEF N

\* The end of the run above t is the only value that looks like one.
LEMMA EndOfRunUnique ==
    ASSUME NEW t \in Nat, NEW S \in SUBSET Nat, NEW n \in S \cup {t},
           n >= t, n + 1 \notin S, \A v \in Nat : t < v /\ v <= n => v \in S
    PROVE  EndOfRun(t, S) = n
<1> DEFINE P(x) == x >= t /\ x + 1 \notin S /\ (t + 1) .. x \subseteq S
<1>1. P(n)
  <2>1. ASSUME NEW v \in (t + 1) .. n PROVE v \in S
    BY <2>1
  <2> QED BY <2>1
<1>2. ASSUME NEW x \in S \cup {t}, P(x) PROVE x = n
  <2>1. x \in Nat /\ n \in Nat
    OBVIOUS
  <2>2. ~(x < n)
    <3> SUFFICES ASSUME x < n PROVE FALSE
      OBVIOUS
    <3>1. x + 1 \in Nat /\ t < x + 1 /\ x + 1 <= n
      BY <1>2, <2>1
    <3> QED BY <1>2, <3>1
  <2>3. ~(n < x)
    <3> SUFFICES ASSUME n < x PROVE FALSE
      OBVIOUS
    <3>1. n + 1 \in (t + 1) .. x
      BY <2>1
    <3> QED BY <1>2, <3>1
  <2> QED BY <2>1, <2>2, <2>3
<1>3. EndOfRun(t, S) = CHOOSE x \in S \cup {t} : P(x)
  BY DEF EndOfRun
<1> HIDE DEF P
<1> QED BY <1>1, <1>2, <1>3

\* advanceLocked from t over runs: through goes to the end of the run above it
\* and the runs beyond are kept.
Advanced(runs, t, end, rest) ==
    /\ end \in Nat
    /\ end = EndOfRun(t, ValuesOf(runs))
    /\ Apart(rest) /\ Len(rest) <= Len(runs)
    /\ \A k \in 1 .. Len(rest) : rest[k].lo > end + 1
    /\ ValuesOf(rest) = {v \in ValuesOf(runs) : v > end}

\* advanceLocked on the slice does what it does on the set.
LEMMA AdvanceAgrees ==
    ASSUME NEW runs, Apart(runs), NEW t \in Nat, NEW n, n = Consumed(t, runs),
           NEW end, end = Reach(t, runs, n),
           NEW rest, rest = SubSeq(runs, n + 1, Len(runs))
    PROVE  Advanced(runs, t, end, rest)
<1> DEFINE len == Len(runs)
           V == ValuesOf(runs)
<1>1. /\ runs \in Seq(Run) /\ len \in Nat
      /\ \A k \in 1 .. len : /\ runs[k] \in Run /\ runs[k].lo \in Nat
                             /\ runs[k].hi \in Nat /\ runs[k].lo <= runs[k].hi
      /\ \A j, k \in 1 .. len : j < k => runs[k].lo > runs[j].hi + 1
  BY RunBounds DEF Apart
<1>2. /\ n \in 0 .. len
      /\ \A k \in 1 .. len : (k <= n => runs[k].lo <= t + 1) /\ (k > n => runs[k].lo > end + 1)
  BY ConsumedProperties
<1>3. n \in Nat /\ n <= len
  BY <1>1, <1>2
<1>4. /\ end \in Nat /\ (n = 0 => end = t) /\ (n > 0 => end = Larger(t, runs[n].hi))
  BY <1>2, ReachOfPrefix
<1>5. end >= t
  BY <1>1, <1>3, <1>4 DEF Larger
<1>6. ASSUME NEW k \in 1 .. len, k <= n PROVE runs[k].hi <= end
  <2>1. n \in 1 .. len /\ n > 0 /\ runs[n].hi \in Nat /\ runs[k].hi \in Nat
    BY <1>1, <1>3, <1>6
  <2>2. runs[k].hi <= runs[n].hi
    <3>1. CASE k = n
      BY <2>1, <3>1
    <3>2. CASE k < n
      <4>1. runs[n].lo > runs[k].hi + 1 /\ runs[n].lo <= runs[n].hi /\ runs[n].lo \in Nat
        BY <1>1, <2>1, <3>2
      <4> QED BY <2>1, <4>1, SMTT(30)
    <3> QED BY <1>3, <1>6, <3>1, <3>2
  <2> QED BY <1>4, <2>1, <2>2 DEF Larger
<1>7. /\ V \in SUBSET Nat
      /\ \A v \in Nat : v \in V <=> \E k \in 1 .. len : runs[k].lo <= v /\ v <= runs[k].hi
  BY <1>1, HeldByARun
<1> HIDE DEF V
<1>8. end \in V \cup {t}
  <2>1. CASE end = t
    BY <2>1
  <2>2. CASE end # t
    <3>1. n > 0 /\ n \in 1 .. len /\ end = runs[n].hi
      BY <1>1, <1>3, <1>4, <2>2 DEF Larger
    <3> QED BY <1>1, <1>7, <3>1
  <2> QED BY <2>1, <2>2
<1>9. ASSUME NEW v \in Nat, t < v, v <= end PROVE v \in V
  <2>1. n > 0 /\ n \in 1 .. len /\ end = runs[n].hi
    BY <1>1, <1>3, <1>4, <1>9 DEF Larger
  <2>2. runs[n].lo <= t + 1 /\ runs[n].lo \in Nat
    BY <1>1, <1>2, <2>1
  <2> QED BY <1>7, <1>9, <2>1, <2>2
<1>10. end + 1 \notin V
  <2> SUFFICES ASSUME NEW k \in 1 .. len, runs[k].lo <= end + 1, end + 1 <= runs[k].hi
               PROVE FALSE
    BY <1>4, <1>7
  <2>1. CASE k <= n
    BY <1>1, <1>4, <1>6, <2>1
  <2>2. CASE k > n
    BY <1>1, <1>2, <1>4, <2>2
  <2> QED BY <1>3, <2>1, <2>2
<1>11. end = EndOfRun(t, V)
  BY <1>4, <1>5, <1>7, <1>8, <1>9, <1>10, EndOfRunUnique
<1>12. /\ rest \in Seq(Run) /\ Len(rest) = len - n
       /\ \A k \in 1 .. len - n : rest[k] = runs[n + k]
  <2>1. n + 1 \in Int /\ len \in Int /\ \A k \in n + 1 .. len : runs[k] \in Run
    BY <1>1, <1>3
  <2>2. /\ rest \in Seq(Run) /\ Len(rest) = IF n + 1 <= len THEN len - (n + 1) + 1 ELSE 0
        /\ \A k \in 1 .. len - (n + 1) + 1 : rest[k] = runs[(n + 1) + k - 1]
    BY <2>1, SubSeqProperties
  <2>3. /\ (IF n + 1 <= len THEN len - (n + 1) + 1 ELSE 0) = len - n
        /\ \A k \in 1 .. len - n : k \in 1 .. len - (n + 1) + 1 /\ (n + 1) + k - 1 = n + k
    <3>1. len \in Nat
      BY <1>1
    <3> HIDE DEF len
    <3> QED BY <1>3, <3>1
  <2> QED BY <2>2, <2>3
<1>13. \A k \in 1 .. len - n : n + k \in 1 .. len /\ n + k > n
  BY <1>1, <1>3
<1>14. Apart(rest)
  <2>1. ASSUME NEW k \in 1 .. len - n PROVE rest[k].lo <= rest[k].hi
    <3>1. rest[k] = runs[n + k] /\ n + k \in 1 .. len
      BY <1>12, <1>13
    <3> QED BY <1>1, <3>1
  <2>2. ASSUME NEW j \in 1 .. len - n, NEW k \in 1 .. len - n, j < k
        PROVE  rest[k].lo > rest[j].hi + 1
    <3>1. n + j < n + k
      BY <1>1, <1>3, <2>2
    <3>2. runs[n + k].lo > runs[n + j].hi + 1
      BY <1>1, <1>13, <3>1
    <3> QED BY <1>12, <3>2
  <2> QED BY <1>12, <2>1, <2>2 DEF Apart
<1>15. \A k \in 1 .. len - n : rest[k].lo > end + 1
  BY <1>2, <1>12, <1>13
<1>16. ValuesOf(rest) = {v \in V : v > end}
  <2>1. /\ ValuesOf(rest) \in SUBSET Nat
        /\ \A v \in Nat : v \in ValuesOf(rest) <=>
              \E k \in 1 .. len - n : rest[k].lo <= v /\ v <= rest[k].hi
    BY <1>12, HeldByARun
  <2>2. ASSUME NEW v \in Nat, NEW k \in 1 .. len - n, rest[k].lo <= v, v <= rest[k].hi
        PROVE  v \in V /\ v > end
    <3>1. rest[k] = runs[n + k] /\ n + k \in 1 .. len /\ runs[n + k].lo > end + 1
      BY <1>2, <1>12, <1>13
    <3>2. v \in V
      BY <1>7, <2>2, <3>1
    <3>3. runs[n + k].lo \in Nat
      BY <1>1, <3>1
    <3>4. runs[n + k].lo <= v /\ runs[n + k].lo > end + 1
      BY <2>2, <3>1
    <3>5. v > end
      BY <1>4, <3>3, <3>4
    <3> QED BY <3>2, <3>5
  <2>3. ASSUME NEW v \in V, v > end
        PROVE  \E k \in 1 .. len - n : rest[k].lo <= v /\ v <= rest[k].hi
    <3>1. v \in Nat
      BY <1>7
    <3>2. PICK m \in 1 .. len : runs[m].lo <= v /\ v <= runs[m].hi
      BY <1>7, <3>1
    <3>3. m > n
      <4>1. ASSUME m <= n PROVE FALSE
        <5>1. runs[m].hi <= end /\ runs[m].hi \in Nat
          BY <1>1, <1>6, <4>1
        <5> QED BY <1>4, <2>3, <3>1, <3>2, <5>1
      <4> QED BY <1>3, <4>1
    <3> DEFINE k == m - n
    <3>4. k \in 1 .. len - n /\ n + k = m
      BY <1>1, <1>3, <3>3
    <3> HIDE DEF k
    <3> QED BY <1>12, <3>2, <3>4
  <2> QED BY <1>7, <2>1, <2>2, <2>3
<1>17. Len(rest) <= len
  BY <1>1, <1>3, <1>12
<1> QED BY <1>4, <1>11, <1>12, <1>14, <1>15, <1>16, <1>17 DEF V, Advanced
-----------------------------------------------------------------------------
Stored == [through : Nat, above : Seq(Run), lost : BOOLEAN, highest : Nat]

\* The inductive invariant of the slice: RunsSortedDisjoint for every pair of
\* runs, and that a lost ledger holds none, without which a rebase that falls
\* short of highest could raise through past runs it leaves in place.
StoredInv(s) ==
    /\ s \in Stored
    /\ Apart(s.above)
    /\ Len(s.above) <= MaxLedgerRanges
    /\ \A k \in 1 .. Len(s.above) : s.above[k].lo > s.through + 1
    /\ s.lost => Len(s.above) = 0

\* The ledger over sets that a stored ledger stands for.
Meaning(s) == [s EXCEPT !.above = ValuesOf(s.above)]

\* The refinement mapping, field by field.
LEMMA MeaningFields ==
    ASSUME NEW s \in Stored
    PROVE  /\ Meaning(s) \in Ledger
           /\ Meaning(s).through = s.through /\ Meaning(s).above = ValuesOf(s.above)
           /\ Meaning(s).lost = s.lost /\ Meaning(s).highest = s.highest
           /\ s.through \in Nat /\ s.above \in Seq(Run) /\ s.lost \in BOOLEAN /\ s.highest \in Nat
<1>1. s.through \in Nat /\ s.above \in Seq(Run) /\ s.lost \in BOOLEAN /\ s.highest \in Nat
  BY DEF Stored
<1>2. ValuesOf(s.above) \in SUBSET Nat
  BY <1>1, HeldByARun
<1> QED BY <1>1, <1>2 DEF Meaning, Stored, Ledger

\* Ledgers with the same fields are the same.
LEMMA SameLedger ==
    ASSUME NEW a \in Ledger, NEW b \in Ledger, a.through = b.through, a.above = b.above,
           a.lost = b.lost, a.highest = b.highest
    PROVE  a = b
BY DEF Ledger

\* A slice without runs holds nothing, and its runs lie apart.
LEMMA NoRuns == Apart(<<>>) /\ ValuesOf(<<>>) = {} /\ Len(<<>>) = 0
<1>1. <<>> \in Seq(Run) /\ Len(<<>>) = 0
  BY EmptySeq
<1> DEFINE e == <<>>
<1>2. ValuesOf(e) = {}
  <2>1. e \in Seq(Run) /\ Len(e) = 0
    BY <1>1
  <2> HIDE DEF e
  <2>2. /\ ValuesOf(e) \in SUBSET Nat
        /\ \A v \in Nat : v \in ValuesOf(e) => \E k \in 1 .. 0 : TRUE
    BY <2>1, HeldByARun
  <2> QED BY <2>2
<1> QED BY <1>1, <1>2 DEF Apart

\* advanceLocked, on the stored ledger and on its meaning.
LEMMA AdvanceRunsAgrees ==
    ASSUME NEW s \in Stored, NEW t \in Nat, NEW runs, Apart(runs),
           Len(runs) <= MaxLedgerRanges, s.lost => Len(runs) = 0,
           NEW l \in Ledger, l.through = t, l.above = ValuesOf(runs),
           l.lost = s.lost, l.highest = s.highest
    PROVE  /\ StoredInv(AdvanceRuns(s, t, runs))
           /\ Meaning(AdvanceRuns(s, t, runs)) = AdvanceLocked(l)
<1> DEFINE n == Consumed(t, runs)
           end == Reach(t, runs, n)
           rest == SubSeq(runs, n + 1, Len(runs))
           q == AdvanceRuns(s, t, runs)
<1>1. /\ end \in Nat /\ end = EndOfRun(t, ValuesOf(runs))
      /\ Apart(rest) /\ Len(rest) <= Len(runs)
      /\ \A k \in 1 .. Len(rest) : rest[k].lo > end + 1
      /\ ValuesOf(rest) = {v \in ValuesOf(runs) : v > end}
  <2>1. n = Consumed(t, runs) /\ end = Reach(t, runs, n) /\ rest = SubSeq(runs, n + 1, Len(runs))
    OBVIOUS
  <2> HIDE DEF n, end, rest
  <2>2. Advanced(runs, t, end, rest)
    BY <2>1, AdvanceAgrees
  <2> QED BY <2>2 DEF Advanced
<1>2. q = [s EXCEPT !.through = end, !.above = rest]
  BY DEF AdvanceRuns
<1>3. s.lost => Len(rest) = 0
  <2>1. Len(rest) \in Nat /\ Len(rest) <= Len(runs)
    BY <1>1, RunBounds DEF Apart
  <2> HIDE DEF rest
  <2> QED BY <2>1
<1>4. Len(rest) <= MaxLedgerRanges
  <2>1. Len(rest) \in Nat /\ Len(runs) \in Nat
    BY <1>1, RunBounds DEF Apart
  <2> HIDE DEF rest
  <2> QED BY <1>1, <2>1, MaxLedgerRangesAssumption
<1>5. rest \in Seq(Run)
  BY <1>1 DEF Apart
<1> HIDE DEF n, end, rest, q
<1>6. /\ q \in Stored /\ q.through = end /\ q.above = rest
      /\ q.lost = s.lost /\ q.highest = s.highest
  BY <1>1, <1>2, <1>5 DEF Stored
<1>7. StoredInv(q)
  BY <1>1, <1>3, <1>4, <1>6 DEF StoredInv
<1>8. AdvanceLocked(l) = [l EXCEPT !.through = end, !.above = {v \in l.above : v > end}]
  BY <1>1 DEF AdvanceLocked
<1>9. /\ AdvanceLocked(l) \in Ledger /\ AdvanceLocked(l).through = end
      /\ AdvanceLocked(l).above = {v \in l.above : v > end}
      /\ AdvanceLocked(l).lost = s.lost /\ AdvanceLocked(l).highest = s.highest
  <2>1. {v \in l.above : v > end} \in SUBSET Nat
    BY DEF Ledger
  <2> QED BY <1>1, <1>8, <2>1 DEF Ledger
<1>10. Meaning(q) = AdvanceLocked(l)
  <2>1. /\ Meaning(q) \in Ledger /\ Meaning(q).through = end /\ Meaning(q).above = ValuesOf(rest)
        /\ Meaning(q).lost = s.lost /\ Meaning(q).highest = s.highest
    BY <1>6, MeaningFields
  <2> QED BY <1>1, <1>9, <2>1, SameLedger
<1> QED BY <1>7, <1>10 DEF q
-----------------------------------------------------------------------------
\* A counter touches a run exactly when it or a neighbour of it is held.
LEMMA TouchesMeans ==
    ASSUME NEW runs, Apart(runs), NEW c \in Nat
    PROVE  Touches(runs, c) <=> {c - 1, c, c + 1} \cap ValuesOf(runs) # {}
<1>1. /\ runs \in Seq(Run)
      /\ \A k \in 1 .. Len(runs) : runs[k].lo \in Nat /\ runs[k].hi \in Nat /\ runs[k].lo <= runs[k].hi
  BY RunBounds DEF Apart
<1>2. /\ ValuesOf(runs) \in SUBSET Nat
      /\ \A v \in Nat : v \in ValuesOf(runs) <=>
            \E k \in 1 .. Len(runs) : runs[k].lo <= v /\ v <= runs[k].hi
  BY <1>1, HeldByARun
<1>3. ASSUME NEW k \in 1 .. Len(runs), c \in runs[k].lo - 1 .. runs[k].hi + 1
      PROVE  \E v \in {c - 1, c, c + 1} : v \in ValuesOf(runs)
  <2>1. CASE c < runs[k].lo
    BY <1>1, <1>2, <1>3, <2>1
  <2>2. CASE c > runs[k].hi
    BY <1>1, <1>2, <1>3, <2>2
  <2>3. CASE runs[k].lo <= c /\ c <= runs[k].hi
    BY <1>1, <1>2, <2>3
  <2> QED BY <1>1, <2>1, <2>2, <2>3
<1>4. ASSUME NEW v \in {c - 1, c, c + 1}, v \in ValuesOf(runs) PROVE Touches(runs, c)
  <2>1. PICK k \in 1 .. Len(runs) : runs[k].lo <= v /\ v <= runs[k].hi
    BY <1>2, <1>4
  <2>2. c \in runs[k].lo - 1 .. runs[k].hi + 1
    BY <1>1, <2>1
  <2> QED BY <2>2 DEF Touches
<1> QED BY <1>3, <1>4 DEF Touches

\* resolve: the stored ledger stays well formed and means what resolve makes
\* of its meaning.
LEMMA ResolveRunAgrees ==
    ASSUME NEW s, StoredInv(s), NEW c \in Nat
    PROVE  /\ StoredInv(ResolveRun(s, c))
           /\ Meaning(ResolveRun(s, c)) = Resolve(Meaning(s), c)
<1> DEFINE l == Meaning(s)
           top == Larger(s.highest, c)
           noted == [s EXCEPT !.highest = top]
           seen == [l EXCEPT !.highest = MaxOf(l.highest, c)]
           over == Overflows(s.above, c)
<1>1. /\ s \in Stored /\ Apart(s.above) /\ Len(s.above) <= MaxLedgerRanges
      /\ \A k \in 1 .. Len(s.above) : s.above[k].lo > s.through + 1
      /\ s.lost => Len(s.above) = 0
  BY DEF StoredInv
<1>2. /\ l \in Ledger /\ l.through = s.through /\ l.above = ValuesOf(s.above)
      /\ l.lost = s.lost /\ l.highest = s.highest
      /\ s.through \in Nat /\ s.above \in Seq(Run) /\ s.lost \in BOOLEAN /\ s.highest \in Nat
  BY <1>1, MeaningFields
<1>3. top \in Nat /\ MaxOf(l.highest, c) = top
  BY <1>2 DEF Larger, MaxOf
<1> HIDE DEF l, top
<1>4. /\ noted \in Stored /\ noted.through = s.through /\ noted.above = s.above
      /\ noted.lost = s.lost /\ noted.highest = top
  BY <1>1, <1>2, <1>3 DEF Stored
<1>5. /\ seen \in Ledger /\ seen.through = s.through /\ seen.above = ValuesOf(s.above)
      /\ seen.lost = s.lost /\ seen.highest = top
  BY <1>2, <1>3 DEF Ledger
<1>6. ResolveRun(s, c) =
        CASE c <= s.through \/ s.lost -> noted
          [] c > s.through /\ ~s.lost /\ over ->
                AdvanceRuns([noted EXCEPT !.lost = TRUE], s.through, <<>>)
          [] OTHER -> AdvanceRuns(noted, s.through, InsertRun(s.above, c))
  BY DEF ResolveRun, top
<1>7. Resolve(l, c) = IF c <= l.through \/ l.lost THEN seen
                      ELSE AdvanceLocked(InsertLocked(seen, c))
  BY DEF Resolve
<1>8. over <=> Len(s.above) >= MaxLedgerRanges /\ ~Touches(s.above, c)
  <2>1. DOMAIN s.above = 1 .. Len(s.above)
    BY <1>2, RunBounds
  <2> QED BY <2>1 DEF Overflows, Touches
<1>9. RunCount(seen.above) = Len(s.above)
  BY <1>1, <1>5, RunCountIsLen
<1>10. ({c - 1, c, c + 1} \cap seen.above = {}) <=> ~Touches(s.above, c)
  BY <1>1, <1>5, TouchesMeans
<1>11. InsertLocked(seen, c) = IF over THEN [seen EXCEPT !.above = {}, !.lost = TRUE]
                               ELSE [seen EXCEPT !.above = seen.above \cup {c}]
  BY <1>8, <1>9, <1>10 DEF InsertLocked
<1> HIDE DEF noted, seen, over
<1>12. CASE c <= s.through \/ s.lost
  <2>1. ResolveRun(s, c) = noted /\ Resolve(l, c) = seen
    BY <1>2, <1>6, <1>7, <1>12
  <2>2. StoredInv(noted)
    BY <1>1, <1>4 DEF StoredInv
  <2>3. Meaning(noted) = seen
    <3>1. /\ Meaning(noted) \in Ledger /\ Meaning(noted).through = s.through
          /\ Meaning(noted).above = ValuesOf(s.above) /\ Meaning(noted).lost = s.lost
          /\ Meaning(noted).highest = top
      BY <1>4, MeaningFields
    <3> QED BY <1>5, <3>1, SameLedger
  <2> QED BY <2>1, <2>2, <2>3 DEF l
<1>13. CASE c > s.through /\ ~s.lost /\ over
  <2> DEFINE s1 == [noted EXCEPT !.lost = TRUE]
             l1 == [seen EXCEPT !.above = {}, !.lost = TRUE]
  <2>1. ResolveRun(s, c) = AdvanceRuns(s1, s.through, <<>>)
    BY <1>2, <1>6, <1>13
  <2>2. Resolve(l, c) = AdvanceLocked(l1)
    BY <1>2, <1>7, <1>11, <1>13
  <2>3. s1 \in Stored /\ s1.lost = TRUE /\ s1.highest = top
    BY <1>4 DEF Stored
  <2>4. /\ l1 \in Ledger /\ l1.through = s.through /\ l1.above = {} /\ l1.lost = TRUE
        /\ l1.highest = top
    BY <1>5 DEF Ledger
  <2>5. Len(<<>>) <= MaxLedgerRanges
    BY NoRuns, MaxLedgerRangesAssumption
  <2> DEFINE e == <<>>
  <2>6. Apart(e) /\ ValuesOf(e) = {} /\ Len(e) <= MaxLedgerRanges /\ Len(e) = 0
    BY <2>5, NoRuns
  <2> HIDE DEF s1, l1, e
  <2>7. l1.above = ValuesOf(e) /\ l1.lost = s1.lost /\ l1.highest = s1.highest
    BY <2>3, <2>4, <2>6
  <2>8. /\ StoredInv(AdvanceRuns(s1, s.through, e))
        /\ Meaning(AdvanceRuns(s1, s.through, e)) = AdvanceLocked(l1)
    <3>1. /\ s1 \in Stored /\ s.through \in Nat /\ (s1.lost => Len(e) = 0)
          /\ l1 \in Ledger /\ l1.through = s.through
      BY <1>2, <2>3, <2>4, <2>6
    <3>2. Apart(e) /\ Len(e) <= MaxLedgerRanges
      BY <2>6
    <3> QED BY <2>7, <3>1, <3>2, AdvanceRunsAgrees
  <2> QED BY <2>1, <2>2, <2>8 DEF l, e
<1>14. CASE c > s.through /\ ~s.lost /\ ~over
  <2> DEFINE r == InsertRun(s.above, c)
             l1 == [seen EXCEPT !.above = seen.above \cup {c}]
  <2>1. ResolveRun(s, c) = AdvanceRuns(noted, s.through, r)
    BY <1>2, <1>6, <1>14
  <2>2. Resolve(l, c) = AdvanceLocked(l1)
    BY <1>2, <1>7, <1>11, <1>14
  <2>3. Inserted(s.above, c, r)
    BY <1>1, InsertRunInserts
  <2> HIDE DEF r
  <2>4. Apart(r) /\ r \in Seq(Run) /\ s.above \in Seq(Run)
    BY <1>2, <2>3 DEF Inserted, Apart
  <2>5. ValuesOf(r) = seen.above \cup {c}
    <3>1. ValuesOf(r) \in SUBSET Nat /\ ValuesOf(s.above) \in SUBSET Nat
      BY <2>4, HeldByARun
    <3> QED BY <1>5, <2>3, <3>1 DEF Inserted
  <2>6. Len(r) <= MaxLedgerRanges
    <3>1. Len(r) \in Nat /\ Len(s.above) \in Nat
      BY <2>4, RunBounds
    <3>2. Len(r) <= Len(s.above) \/ (Len(s.above) < MaxLedgerRanges /\ Len(r) <= Len(s.above) + 1)
      BY <1>8, <1>14, <2>3, <3>1, MaxLedgerRangesAssumption DEF Inserted
    <3> QED BY <1>1, <3>1, <3>2, MaxLedgerRangesAssumption
  <2>7. /\ l1 \in Ledger /\ l1.through = s.through /\ l1.above = ValuesOf(r)
        /\ l1.lost = s.lost /\ l1.highest = top
    BY <1>5, <2>5 DEF Ledger
  <2> HIDE DEF l1
  <2>8. /\ StoredInv(AdvanceRuns(noted, s.through, r))
        /\ Meaning(AdvanceRuns(noted, s.through, r)) = AdvanceLocked(l1)
    BY <1>2, <1>4, <1>14, <2>4, <2>6, <2>7, AdvanceRunsAgrees
  <2> QED BY <2>1, <2>2, <2>8 DEF l
<1>15. c <= s.through \/ c > s.through
  BY <1>2
<1> QED BY <1>2, <1>12, <1>13, <1>14, <1>15

\* rebase: likewise.
LEMMA RebaseRunAgrees ==
    ASSUME NEW s, StoredInv(s), NEW f \in Nat
    PROVE  /\ StoredInv(RebaseRun(s, f))
           /\ Meaning(RebaseRun(s, f)) = Rebase(Meaning(s), f)
<1> DEFINE l == Meaning(s)
           t == Larger(s.through, f)
           raised == [l EXCEPT !.through = MaxOf(l.through, f)]
           s1 == [s EXCEPT !.through = t]
           s2 == [s EXCEPT !.lost = FALSE]
           l2 == [raised EXCEPT !.lost = FALSE]
<1>1. /\ s \in Stored /\ Apart(s.above) /\ Len(s.above) <= MaxLedgerRanges
      /\ s.lost => Len(s.above) = 0
  BY DEF StoredInv
<1>2. /\ l \in Ledger /\ l.through = s.through /\ l.above = ValuesOf(s.above)
      /\ l.lost = s.lost /\ l.highest = s.highest
      /\ s.through \in Nat /\ s.above \in Seq(Run) /\ s.lost \in BOOLEAN /\ s.highest \in Nat
  BY <1>1, MeaningFields
<1>3. t \in Nat /\ MaxOf(l.through, f) = t
  BY <1>2 DEF Larger, MaxOf
<1>4. Rebase(l, f) = IF l.lost /\ f < l.highest THEN raised ELSE AdvanceLocked(l2)
  BY DEF Rebase
<1>5. RebaseRun(s, f) = IF s.lost /\ f < s.highest THEN s1 ELSE AdvanceRuns(s2, t, s.above)
  BY DEF RebaseRun
<1> HIDE DEF l, t
<1>6. /\ s1 \in Stored /\ s1.through = t /\ s1.above = s.above
      /\ s1.lost = s.lost /\ s1.highest = s.highest
      /\ s2 \in Stored /\ s2.lost = FALSE /\ s2.highest = s.highest
  BY <1>1, <1>2, <1>3 DEF Stored
<1>7. /\ raised \in Ledger /\ raised.through = t /\ raised.above = ValuesOf(s.above)
      /\ raised.lost = s.lost /\ raised.highest = s.highest
  BY <1>2, <1>3 DEF Ledger
<1>8. /\ l2 \in Ledger /\ l2.through = t /\ l2.above = ValuesOf(s.above)
      /\ l2.lost = FALSE /\ l2.highest = s.highest
  <2> HIDE DEF raised
  <2> QED BY <1>7 DEF Ledger
<1> HIDE DEF raised, s1, s2, l2
<1>9. CASE s.lost /\ f < s.highest
  <2>1. RebaseRun(s, f) = s1 /\ Rebase(l, f) = raised
    BY <1>2, <1>4, <1>5, <1>9
  <2>2. StoredInv(s1)
    <3>1. Len(s1.above) = 0
      BY <1>1, <1>6, <1>9
    <3> QED BY <1>1, <1>6, <3>1 DEF StoredInv
  <2>3. Meaning(s1) = raised
    <3>1. /\ Meaning(s1) \in Ledger /\ Meaning(s1).through = t
          /\ Meaning(s1).above = ValuesOf(s.above) /\ Meaning(s1).lost = s.lost
          /\ Meaning(s1).highest = s.highest
      BY <1>6, MeaningFields
    <3> QED BY <1>7, <3>1, SameLedger
  <2> QED BY <2>1, <2>2, <2>3 DEF l
<1>10. CASE ~(s.lost /\ f < s.highest)
  <2>1. RebaseRun(s, f) = AdvanceRuns(s2, t, s.above) /\ Rebase(l, f) = AdvanceLocked(l2)
    BY <1>2, <1>4, <1>5, <1>10
  <2>2. (s2.lost => Len(s.above) = 0) /\ l2.lost = s2.lost /\ l2.highest = s2.highest
    BY <1>6, <1>8
  <2>3. /\ StoredInv(AdvanceRuns(s2, t, s.above))
        /\ Meaning(AdvanceRuns(s2, t, s.above)) = AdvanceLocked(l2)
    BY <1>1, <1>3, <1>6, <1>8, <2>2, AdvanceRunsAgrees
  <2> QED BY <2>1, <2>3 DEF l
<1> QED BY <1>9, <1>10
-----------------------------------------------------------------------------
\* The slice is well formed and stands for the ledger over sets that took the
\* same calls.
RunsInv == StoredInv(stored) /\ Meaning(stored) = ledger

\* The empty slice stands for the zero ledger.
LEMMA RunsInitInv == RunsInit => RunsInv
<1> SUFFICES ASSUME RunsInit PROVE RunsInv
  OBVIOUS
<1> DEFINE e == <<>>
<1>1. e \in Seq(Run) /\ Apart(e) /\ ValuesOf(e) = {} /\ Len(e) = 0
  BY NoRuns DEF Apart
<1>2. stored = [through |-> 0, above |-> e, lost |-> FALSE, highest |-> 0]
  BY DEF RunsInit
<1> HIDE DEF e
<1>3. /\ stored \in Stored /\ stored.through = 0 /\ stored.above = e
      /\ stored.lost = FALSE /\ stored.highest = 0
  BY <1>1, <1>2 DEF Stored
<1>4. StoredInv(stored)
  BY <1>1, <1>3, MaxLedgerRangesAssumption DEF StoredInv
<1>5. ledger = NewLedger
  BY DEF RunsInit, LedgerInit
<1>6. /\ ledger \in Ledger /\ ledger.through = 0 /\ ledger.above = {}
      /\ ledger.lost = FALSE /\ ledger.highest = 0
  BY <1>5 DEF NewLedger, Ledger
<1>7. Meaning(stored) = ledger
  <2>1. /\ Meaning(stored) \in Ledger /\ Meaning(stored).through = 0
        /\ Meaning(stored).above = {} /\ Meaning(stored).lost = FALSE
        /\ Meaning(stored).highest = 0
    BY <1>1, <1>3, MeaningFields
  <2> QED BY <1>6, <2>1, SameLedger
<1> QED BY <1>4, <1>7 DEF RunsInv

\* resolve and rebase keep the slice and the set together.
LEMMA RunsNextInv == RunsInv /\ [RunsNext]_runVars => RunsInv'
<1> SUFFICES ASSUME RunsInv, [RunsNext]_runVars PROVE RunsInv'
  OBVIOUS
<1>1. StoredInv(stored) /\ Meaning(stored) = ledger
  BY DEF RunsInv
<1>2. ASSUME NEW c \in Counters, ResolveStep(c), stored' = ResolveRun(stored, c)
      PROVE  RunsInv'
  <2>1. c \in Nat
    BY MaxCounterAssumption DEF Counters
  <2>2. ledger' = Resolve(ledger, c)
    BY <1>2 DEF ResolveStep
  <2> QED BY <1>1, <1>2, <2>1, <2>2, ResolveRunAgrees DEF RunsInv
<1>3. ASSUME NEW f \in 0 .. MaxCounter, RebaseStep(f), stored' = RebaseRun(stored, f)
      PROVE  RunsInv'
  <2>1. f \in Nat
    BY MaxCounterAssumption
  <2>2. ledger' = Rebase(ledger, f)
    BY <1>3 DEF RebaseStep
  <2> QED BY <1>1, <1>3, <2>1, <2>2, RebaseRunAgrees DEF RunsInv
<1>4. CASE UNCHANGED runVars
  BY <1>1, <1>4 DEF RunsInv, runVars, ledgerVars
<1> QED BY <1>2, <1>3, <1>4 DEF RunsNext

\* The slice and the set of accounted values agree after any calls.
LEMMA RunsInvariant == RunsSpecification => []RunsInv
<1>1. RunsInit => RunsInv
  BY RunsInitInv
<1>2. RunsInv /\ [RunsNext]_runVars => RunsInv'
  BY RunsNextInv
<1> QED BY <1>1, <1>2, PTL DEF RunsSpecification

\* insertLocked and advanceLocked keep above sorted, its runs disjoint and not
\* adjacent, beyond through + 1 and within the cap, for every cap and every
\* order of calls.
THEOREM RunsStaySorted == RunsSpecification => []RunsSortedDisjoint
<1>1. RunsInv => RunsSortedDisjoint
  <2> SUFFICES ASSUME RunsInv PROVE RunsSortedDisjoint
    OBVIOUS
  <2> DEFINE above == stored.above
  <2>1. /\ Apart(above) /\ Len(above) <= MaxLedgerRanges
        /\ \A k \in 1 .. Len(above) : above[k].lo > stored.through + 1
    BY DEF RunsInv, StoredInv
  <2>2. Len(above) \in Nat /\ DOMAIN above = 1 .. Len(above)
    BY <2>1, RunBounds DEF Apart
  <2>3. ASSUME NEW k \in 1 .. Len(above), k > 1 PROVE above[k].lo > above[k - 1].hi + 1
    <3>1. k - 1 \in 1 .. Len(above) /\ k - 1 < k
      BY <2>2, <2>3
    <3> QED BY <2>1, <3>1 DEF Apart
  <2> QED BY <2>1, <2>2, <2>3 DEF RunsSortedDisjoint, Apart
<1> QED BY <1>1, RunsInvariant, PTL

\* The operators of the instance are those of WatermarkLedger: the mapping
\* changes the state they are applied to and nothing in them.
LEMMA SameOperators ==
    ASSUME NEW l, NEW c
    PROVE  /\ Abstract!Resolve(l, c) = Resolve(l, c)
           /\ Abstract!Rebase(l, c) = Rebase(l, c)
           /\ Abstract!MaxOf(l, c) = MaxOf(l, c)
<1>1. \A a, b : Abstract!MaxOf(a, b) = MaxOf(a, b)
  BY DEF Abstract!MaxOf, MaxOf
<1>2. \A a : Abstract!RunCount(a) = RunCount(a)
  BY DEF Abstract!RunCount, RunCount, Abstract!Cardinality, Cardinality
<1>3. \A t, S : Abstract!EndOfRun(t, S) = EndOfRun(t, S)
  BY DEF Abstract!EndOfRun, EndOfRun
<1>4. \A a : Abstract!AdvanceLocked(a) = AdvanceLocked(a)
  BY <1>3 DEF Abstract!AdvanceLocked, AdvanceLocked
<1>5. \A a, b : Abstract!InsertLocked(a, b) = InsertLocked(a, b)
  <2> SUFFICES ASSUME NEW a, NEW b PROVE Abstract!InsertLocked(a, b) = InsertLocked(a, b)
    OBVIOUS
  <2>1. Abstract!RunCount(a.above) = RunCount(a.above)
    BY <1>2
  <2>2. CASE {b - 1, b, b + 1} \cap a.above = {} /\ RunCount(a.above) >= MaxLedgerRanges
    BY <2>1, <2>2 DEF Abstract!InsertLocked, InsertLocked
  <2>3. CASE ~({b - 1, b, b + 1} \cap a.above = {} /\ RunCount(a.above) >= MaxLedgerRanges)
    BY <2>1, <2>3 DEF Abstract!InsertLocked, InsertLocked
  <2> QED BY <2>2, <2>3
<1>6. Abstract!Resolve(l, c) = Resolve(l, c)
  BY <1>1, <1>4, <1>5 DEF Abstract!Resolve, Resolve
<1>7. Abstract!Rebase(l, c) = Rebase(l, c)
  BY <1>1, <1>4 DEF Abstract!Rebase, Rebase
<1> QED BY <1>1, <1>6, <1>7

\* The slice of runs, with its merges, its cap and the loop that consumes it,
\* implements the ledger over sets: every call on the slice is the same call
\* on the set of values it holds.
THEOREM SliceImplementsLedger == RunsSpecification => ImplementsLedger
<1>1. RunsInit => Abstract!LedgerInit
  <2> SUFFICES ASSUME RunsInit PROVE Abstract!LedgerInit
    OBVIOUS
  <2>1. Meaning(stored) = ledger
    BY RunsInitInv DEF RunsInv
  <2>2. ledger = NewLedger /\ resolved = {} /\ floor = 0
    BY DEF RunsInit, LedgerInit
  <2> QED BY <2>1, <2>2 DEF Abstract!LedgerInit, Abstract!NewLedger, NewLedger, Meaning
<1>2. RunsInv /\ RunsInv' /\ [RunsNext]_runVars => [Abstract!LedgerNext]_Abstract!ledgerVars
  <2> SUFFICES ASSUME RunsInv, RunsInv', [RunsNext]_runVars
               PROVE  [Abstract!LedgerNext]_Abstract!ledgerVars
    OBVIOUS
  <2>1. /\ [stored EXCEPT !.above = ValuesOf(stored.above)] = ledger
        /\ [stored EXCEPT !.above = ValuesOf(stored.above)]' = ledger'
    BY DEF RunsInv, Meaning
  <2>2. ASSUME NEW c \in Counters, ResolveStep(c) PROVE Abstract!ResolveStep(c)
    <3>1. /\ ledger' = Resolve(ledger, c) /\ resolved' = resolved \cup {c} /\ floor' = floor
      BY <2>2 DEF ResolveStep
    <3>2. Abstract!Resolve(ledger, c) = Resolve(ledger, c)
      BY SameOperators
    <3> QED BY <2>1, <3>1, <3>2 DEF Abstract!ResolveStep
  <2>3. ASSUME NEW f \in 0 .. MaxCounter, RebaseStep(f) PROVE Abstract!RebaseStep(f)
    <3>1. /\ ledger' = Rebase(ledger, f) /\ floor' = MaxOf(floor, f) /\ resolved' = resolved
      BY <2>3 DEF RebaseStep
    <3>2. Abstract!Rebase(ledger, f) = Rebase(ledger, f) /\ Abstract!MaxOf(floor, f) = MaxOf(floor, f)
      BY SameOperators
    <3> QED BY <2>1, <3>1, <3>2 DEF Abstract!RebaseStep
  <2>4. CASE UNCHANGED runVars
    BY <2>4 DEF runVars, ledgerVars, Abstract!ledgerVars
  <2>5. CASE RunsNext
    <3>1. Abstract!Counters = Counters
      BY DEF Abstract!Counters, Counters
    <3>2. Abstract!LedgerNext
      BY <2>2, <2>3, <2>5, <3>1 DEF RunsNext, Abstract!LedgerNext
    <3> QED BY <3>2
  <2> QED BY <2>4, <2>5
<1> QED BY <1>1, <1>2, RunsInvariant, PTL
   DEF RunsSpecification, ImplementsLedger, Abstract!LedgerSpecification
=============================================================================
