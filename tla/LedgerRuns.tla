----------------------------- MODULE LedgerRuns -----------------------------
(***************************************************************************)
(* watermarkLedger as the code stores it: above is a sorted slice of       *)
(* disjoint, non-adjacent runs, searched, spliced and cut in place.  The   *)
(* refinement below shows it implements module LedgerSpec.                 *)
(***************************************************************************)
EXTENDS LedgerSpec, SequencesExt

VARIABLE stored     \* the ledger as the code stores it, beside LedgerSpec's

runVars == <<ledgerVars, stored>>

Larger(a, b) == IF a < b THEN b ELSE a

\* sort.Search: the 1-based index of the first run that starts above counter.
FirstAbove(runs, counter) ==
    CHOOSE i \in 1 .. Len(runs) + 1 :
        /\ i <= Len(runs) => runs[i].lo > counter
        /\ i > 1 => runs[i - 1].lo <= counter

\* Broken on purpose: a value that closes a gap extends one run only.
InsertRunUnmerged(runs, counter) ==
    LET i == FirstAbove(runs, counter)
        held        == i > 1 /\ runs[i - 1].hi >= counter
        extendsPrev == i > 1 /\ runs[i - 1].hi + 1 = counter
        extendsNext == i <= Len(runs) /\ runs[i].lo = counter + 1
    IN  CASE held -> runs
          [] ~held /\ extendsPrev -> [runs EXCEPT ![i - 1].hi = counter]
          [] ~held /\ ~extendsPrev /\ extendsNext -> [runs EXCEPT ![i].lo = counter]
          [] OTHER -> InsertAt(runs, i, [lo |-> counter, hi |-> counter])

\* insertLocked's switch, for a counter that does not overflow the slice.
InsertRun(runs, counter) ==
    LET i == FirstAbove(runs, counter)
        held        == i > 1 /\ runs[i - 1].hi >= counter
        extendsPrev == i > 1 /\ runs[i - 1].hi + 1 = counter
        extendsNext == i <= Len(runs) /\ runs[i].lo = counter + 1
    IN  CASE held -> runs
          [] ~held /\ extendsPrev /\ extendsNext ->
                RemoveAt([runs EXCEPT ![i - 1].hi = runs[i].hi], i)
          [] ~held /\ extendsPrev /\ ~extendsNext -> [runs EXCEPT ![i - 1].hi = counter]
          [] ~held /\ ~extendsPrev /\ extendsNext -> [runs EXCEPT ![i].lo = counter]
          [] OTHER -> InsertAt(runs, i, [lo |-> counter, hi |-> counter])

\* Broken on purpose: the cap is tested before the neighbours.
OverflowsFirst(runs, counter) ==
    Len(runs) >= MaxLedgerRanges /\ \A k \in DOMAIN runs : counter \notin runs[k].lo .. runs[k].hi

\* insertLocked's default branch on a full slice: counter extends no run.
Overflows(runs, counter) ==
    /\ Len(runs) >= MaxLedgerRanges
    /\ \A k \in DOMAIN runs : ~(counter \in runs[k].lo - 1 .. runs[k].hi + 1)

\* What advanceLocked's loop has raised t to after the first n runs.
Reach(t, runs, n) == Max({t} \cup {runs[k].hi : k \in 1 .. n})

\* advanceLocked: how many runs the loop consumes, each starting at or below
\* what the ones before it raised through to, plus one.
Consumed(t, runs) ==
    CHOOSE n \in 0 .. Len(runs) :
        /\ \A k \in 1 .. n : runs[k].lo <= Reach(t, runs, k - 1) + 1
        /\ n < Len(runs) => runs[n + 1].lo > Reach(t, runs, n) + 1

AdvanceRuns(led, t, runs) ==
    LET n == Consumed(t, runs)
    IN  [led EXCEPT !.through = Reach(t, runs, n), !.above = SubSeq(runs, n + 1, Len(runs))]
-----------------------------------------------------------------------------
RunsInit == LedgerInit /\ stored = [through |-> 0, above |-> <<>>, lost |-> FALSE, highest |-> 0]

ResolveRun(led, counter) ==
    LET noted == [led EXCEPT !.highest = Larger(led.highest, counter)]
    IN  CASE counter <= led.through \/ led.lost -> noted
          [] counter > led.through /\ ~led.lost /\ Overflows(led.above, counter) ->
                AdvanceRuns([noted EXCEPT !.lost = TRUE], led.through, <<>>)
          [] OTHER -> AdvanceRuns(noted, led.through, InsertRun(led.above, counter))

RebaseRun(led, f) ==
    IF led.lost /\ f < led.highest
    THEN [led EXCEPT !.through = Larger(led.through, f)]
    ELSE AdvanceRuns([led EXCEPT !.lost = FALSE], Larger(led.through, f), led.above)

RunsNext ==
    \/ \E c \in Counters : ResolveStep(c) /\ stored' = ResolveRun(stored, c)
    \/ \E f \in 0 .. MaxCounter : RebaseStep(f) /\ stored' = RebaseRun(stored, f)

RunsSpecification == RunsInit /\ [][RunsNext]_runVars
-----------------------------------------------------------------------------
ValuesOf(runs) == UNION {runs[k].lo .. runs[k].hi : k \in DOMAIN runs}

\* watermarkLedger's own comment on above: sorted, disjoint, non-adjacent runs
\* above through + 1, never more than maxLedgerRanges of them.  It is what
\* sort.Search and the neighbour tests of insertLocked rely on.
RunsSortedDisjoint ==
    LET above == stored.above IN
    /\ Len(above) <= MaxLedgerRanges
    /\ \A k \in DOMAIN above : above[k].lo <= above[k].hi /\ above[k].lo > stored.through + 1
    /\ \A k \in DOMAIN above : k > 1 => above[k].lo > above[k - 1].hi + 1

Abstract == INSTANCE LedgerSpec WITH
    ledger <- [stored EXCEPT !.above = ValuesOf(stored.above)]

\* The slice of runs implements the set of accounted values, step by step.
ImplementsLedger == Abstract!LedgerSpecification
=============================================================================
