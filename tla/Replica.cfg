CONSTANTS
    r1 = r1
    r2 = r2
    w1 = w1
    w2 = w2
    Null = Null
    Loader = Loader
    Row = {r1, r2}
    Write = {w1, w2}
    Touches <- SharedRow
    Batch = {w2}
    Opaque = {}
    Inserts = {}
    SnapshotDir = FALSE
    Queries = TRUE
    TornSave = FALSE
    MaxLedgerRanges = 2
    MaxBootGapEntries = 2
    MaxFaults = 1
    MaxCrashes = 0
    MaxSaves = 0
    MaxExternal = 0
SPECIFICATION TrustSpec
INVARIANTS TypeOK ReplicaCurrent GenerationsOrdered FallbackHasARebuild TrustedMeansComplete
    ReadsAcknowledgedWrites TrustedAnswerComplete
CONSTRAINT OneWatcher
