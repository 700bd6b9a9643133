-------------------------- MODULE WatermarkLedger --------------------------
(***************************************************************************)
(* The watermark ledger of internal/engine/watermark.go: which values of   *)
(* PostgreSQL's write counter this process can account for.                *)
(*                                                                         *)
(* The code keeps the accounted values above `through' as a sorted slice   *)
(* of runs.  Here they are the plain set of those values; the slice itself *)
(* is module LedgerRuns, which is shown to implement this one.             *)
(***************************************************************************)
EXTENDS Integers, FiniteSets

CONSTANT MaxLedgerRanges    \* how many runs the ledger keeps before it gives up

ASSUME MaxLedgerRangesAssumption == MaxLedgerRanges \in Nat

Ledger == [through : Nat, above : SUBSET Nat, lost : BOOLEAN, highest : Nat]

\* The zero value of the struct accounts for nothing but 0.
NewLedger == [through |-> 0, above |-> {}, lost |-> FALSE, highest |-> 0]

MaxOf(a, b) == IF a < b THEN b ELSE a

\* How many separate runs of consecutive values S consists of.
RunCount(S) == Cardinality({v \in S : v + 1 \notin S})

\* The end of the unbroken run of values of S that starts right above t.
EndOfRun(t, S) ==
    CHOOSE n \in S \cup {t} : n >= t /\ n + 1 \notin S /\ (t + 1) .. n \subseteq S

\* advanceLocked: through moves past everything that now continues it.
AdvanceLocked(l) ==
    LET end == EndOfRun(l.through, l.above)
    IN  [l EXCEPT !.through = end, !.above = {v \in @ : v > end}]

\* Broken on purpose: a full ledger drops its runs and does not say so.
InsertLockedSilently(l, counter) ==
    IF RunCount(l.above) >= MaxLedgerRanges THEN [l EXCEPT !.above = {}]
    ELSE [l EXCEPT !.above = @ \cup {counter}]

\* insertLocked: only a value that extends no run needs a run of its own, and
\* the cap is checked for that case alone.
InsertLocked(l, counter) ==
    LET grown    == l.above \cup {counter}
        newRun   == {counter - 1, counter, counter + 1} \cap l.above = {}
    IN  IF newRun /\ RunCount(l.above) >= MaxLedgerRanges
        THEN [l EXCEPT !.above = {}, !.lost = TRUE]
        ELSE [l EXCEPT !.above = grown]

\* Broken on purpose: a high-water mark in place of a ledger.
ResolveToHighest(l, counter) ==
    [l EXCEPT !.through = MaxOf(@, counter), !.highest = MaxOf(@, counter)]

\* resolve: this process resolved the write that drew counter.
Resolve(l, counter) ==
    LET seen == [l EXCEPT !.highest = MaxOf(@, counter)]
    IN  IF counter <= l.through \/ l.lost
        THEN seen
        ELSE AdvanceLocked(InsertLocked(seen, counter))

\* Broken on purpose: any floor makes a lost ledger exact.
RebaseForgives(l, floor) ==
    AdvanceLocked([l EXCEPT !.through = MaxOf(@, floor), !.lost = FALSE])

\* rebase: an adopted snapshot accounts for every value up to floor.  A lost
\* ledger becomes exact again only once a floor covers all it ever dropped.
Rebase(l, floor) ==
    LET raised == [l EXCEPT !.through = MaxOf(@, floor)]
    IN  IF l.lost /\ floor < l.highest
        THEN raised
        ELSE AdvanceLocked([raised EXCEPT !.lost = FALSE])

\* resolvedThrough, as watermarkReading uses it.
Exact(l) == ~l.lost
============================================================================
