CONSTANTS
    s1 = s1
    s2 = s2
    s3 = s3
    Save = {s1, s2, s3}
    Null = Null
    MaxRemovals = 2
    MaxFaults = 2
    MaxStops = 2
    MaxWord = 31
    MaxCount = 1
    MaxReadAlloc = 28
    MaxTable = 20
    DbIds = {3, 5, 8}
    EdgeSlots <- FewEdges
    KindLists <- SomeKindLists
    PropBags <- SomeBags
    MaxEdges = 2
    MaxPropID = 2
    MaxArena = 3
    WordBits = 2
    Corruptions <- Values
SPECIFICATION SnapshotSpec
INVARIANTS DirectoryIsSound BuiltHoldsStaged AcceptedIsSafe OnlyWholeAccepted AllocationsFitTheFile
SYMMETRY SaveSymmetry
CHECK_DEADLOCK FALSE
