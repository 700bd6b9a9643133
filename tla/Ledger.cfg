\* Seven counters in every order, resolved or rebased over, with room for two
\* runs: the third disjoint run loses the ledger.
CONSTANTS
    MaxLedgerRanges = 2
    MaxCounter = 7
SPECIFICATION RunsSpecification
INVARIANTS NeverAbsorbsAGap ExactLosesNothing RunsSortedDisjoint
PROPERTIES LostUntilCovered ImplementsLedger
