CONSTANTS
    c1 = c1
    c2 = c2
    NodeIds = {1, 2}
    EdgeIds = {7, 8}
    NodeRows <- FoldRows
    EdgeKinds = {5}
    Base0 <- SelfLoop
    Compactors = {c1, c2}
    MaxSegments = 2
    CompactEntries = 2
    MaxWrites = 3
    MaxRebuilds = 1
    ObjectIds = {"a", "b", "c"}
    NodeKindSets = {{1}}
    NodeCriteria = {}
    EdgeCriteria = {}
    FanoutCap = 1
    ObjectIdsMove = FALSE
SPECIFICATION UpkeepSpec
INVARIANTS MaintenanceInvisible AppliedMeansCurrent AnswersMatchScan ReadBackConverges
SYMMETRY Interchangeable
CHECK_DEADLOCK FALSE
