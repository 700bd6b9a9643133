CONSTANTS
    r1 = r1
    r2 = r2
    w1 = w1
    w2 = w2
    Null = Null
    Loader = Loader
    Row = {r1}
    Write = {w1}
    Touches <- OneRow
    Batch = {}
    Opaque = {}
    Inserts = {}
    SnapshotDir = TRUE
    Queries = FALSE
    TornSave = TRUE
    MaxLedgerRanges = 2
    MaxBootGapEntries = 2
    MaxFaults = 2
    MaxCrashes = 1
    MaxSaves = 2
    MaxExternal = 0
SPECIFICATION Spec
INVARIANT StopLeavesNoStaleFile
