SPECIFICATION Spec
CONSTANTS
    j1 = j1
    j2 = j2
    Jobs = {j1, j2}
    Pinned = {j1, j2}
    SegDur = 2
    TrackEnd = 4
    Events <- MCEvents
    Requests <- MCRequests
    Queries = 1
    MayFail = FALSE
    MayEvict = TRUE
    ColdStart = FALSE
    ColdLRU = FALSE
    MaxFetches = 4
INVARIANTS ValidMeansLoaded
CHECK_DEADLOCK FALSE
