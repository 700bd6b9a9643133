CONSTANTS
    r1 = r1
    r2 = r2
    w1 = w1
    w2 = w2
    Null = Null
    Loader = Loader
    Row = {r1}
    Write = {w1, w2}
    Touches <- OneRow
    Batch = {}
    Opaque = {w2}
    Inserts = {}
    SnapshotDir = FALSE
    Queries = FALSE
    TornSave = FALSE
    MaxLedgerRanges = 2
    MaxBootGapEntries = 2
    MaxFaults = 1
    MaxCrashes = 0
    MaxSaves = 0
    MaxExternal = 0
SPECIFICATION FairSpec
PROPERTIES FallbackRecovers WritesReturn RebuildsStop
