CONSTANTS
    t1 = t1
    b1 = b1
    b2 = b2
    r1 = r1
    r2 = r2
    c1 = c1
    c2 = c2
    Transactions = {t1}
    Batches = {b1, b2}
    Readers = {r1, r2}
    MainConns = 2
    WritePathPoolConns = 2
    ReadBackQueries = 1
SPECIFICATION ProgressSpec
INVARIANTS WaitsRunOneWay ClosingCostsNoFile
PROPERTIES WritesAndShutdownEnd StartedWorkEnds
CHECK_DEADLOCK FALSE
