SPECIFICATION Spec
CONSTANTS
    j1 = j1
    Jobs = {j1}
    Pinned = {j1}
    SegDur = 2
    TrackEnd = 4
    Events <- MCInstant
    Requests <- MCRequests
    Queries = 1
    MayFail = FALSE
    MayEvict = FALSE
    ColdStart = FALSE
    ColdLRU = FALSE
    MaxFetches = 1
INVARIANTS ValidMeansLoaded
CHECK_DEADLOCK FALSE
