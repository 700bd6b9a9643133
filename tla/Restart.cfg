CONSTANTS
    r1 = r1
    r2 = r2
    w1 = w1
    w2 = w2
    Null = Null
    Loader = Loader
    Row = {r1}
    Write = {w1, w2}
    Touches <- OneRow
    Batch = {w2}
    Opaque = {}
    Inserts = {w2}
    SnapshotDir = TRUE
    Queries = TRUE
    TornSave = FALSE
    MaxLedgerRanges = 2
    MaxBootGapEntries = 1
    MaxFaults = 2
    MaxCrashes = 1
    MaxSaves = 2
    MaxExternal = 1
SPECIFICATION Spec
INVARIANTS ReplicaCurrent StampVouches CurrentStampMeansCurrentFile
CONSTRAINT FaultsOrWriters
