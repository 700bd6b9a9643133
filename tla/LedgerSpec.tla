----------------------------- MODULE LedgerSpec -----------------------------
(***************************************************************************)
(* The ledger under every order of resolves and rebases, with the history  *)
(* its answers are judged by: which values were resolved, and the highest  *)
(* floor a rebase vouched for.                                             *)
(***************************************************************************)
EXTENDS WatermarkLedger

CONSTANT MaxCounter         \* bound on the counter values drawn

ASSUME MaxCounterAssumption == MaxCounter \in Nat

VARIABLES ledger,           \* Engine.appliedWatermark
          resolved,         \* history: every value ever resolved
          floor             \* history: the highest floor ever rebased to

ledgerVars == <<ledger, resolved, floor>>

Counters == 1 .. MaxCounter

LedgerInit ==
    /\ ledger = NewLedger
    /\ resolved = {}
    /\ floor = 0

ResolveStep(counter) ==
    /\ ledger' = Resolve(ledger, counter)
    /\ resolved' = resolved \cup {counter}
    /\ UNCHANGED floor

RebaseStep(f) ==
    /\ ledger' = Rebase(ledger, f)
    /\ floor' = MaxOf(floor, f)
    /\ UNCHANGED resolved

LedgerNext ==
    \/ \E c \in Counters : ResolveStep(c)
    \/ \E f \in 0 .. MaxCounter : RebaseStep(f)

LedgerSpecification == LedgerInit /\ [][LedgerNext]_ledgerVars
-----------------------------------------------------------------------------
Accounted == resolved \cup (1 .. floor)

\* The ledger is well formed: what it holds above through was resolved and
\* lies above the gap that stopped it, a lost ledger holds nothing, and
\* through never falls short of a floor.
LedgerTypeOK ==
    /\ ledger \in Ledger
    /\ resolved \subseteq Counters
    /\ floor \in 0 .. MaxCounter
    /\ ledger.above \subseteq resolved
    /\ \A v \in ledger.above : v > ledger.through + 1
    /\ ledger.lost => ledger.above = {}
    /\ floor <= ledger.through

\* watermarkLedger, resolve and rebase: the ledger never claims a value that
\* no write of this process resolved and no adopted snapshot covered, so a
\* lost bump response or another writer's counter stops it.
NeverAbsorbsAGap == 1 .. ledger.through \subseteq Accounted

\* While the ledger calls itself exact it has lost nothing: through reaches as
\* far as the accounted values go unbroken, and every accounted value beyond
\* is still held.
ExactLosesNothing ==
    Exact(ledger) => /\ ledger.through + 1 \notin Accounted
                     /\ \A v \in resolved : v <= ledger.through \/ v \in ledger.above

\* A lost ledger knows how far a rebase has to reach: highest is the largest
\* value ever resolved, whatever the ledger dropped.
HighestCoversResolved == \A v \in resolved : v <= ledger.highest

\* through only moves up, whatever order counters resolve in.
ThroughNeverRetreats == [][ledger'.through >= ledger.through]_ledgerVars

\* A ledger that lost its runs says so until a rebase reaches the highest
\* value it ever resolved.
LostUntilCovered ==
    [][(ledger.lost /\ ~ledger'.lost) => floor' >= ledger.highest]_ledgerVars
=============================================================================
