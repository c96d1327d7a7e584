SPECIFICATION FairSpec
CONSTANTS
    j1 = j1
    j2 = j2
    Jobs = {j1, j2}
    Pinned = {j1, j2}
    SegDur = 2
    TrackEnd = 4
    Events <- MCStrayEvents
    Requests <- MCRequests
    Queries = 2
    MayFail = TRUE
    MayEvict = TRUE
    ColdStart = TRUE
    ColdLRU = FALSE
    MaxFetches = 2
PROPERTIES
FetchReturns HeldSegmentsStay NoEvictionUnderWalk
CHECK_DEADLOCK FALSE
