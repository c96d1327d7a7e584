SPECIFICATION FairSpec
CONSTANTS
    wide = wide
    narrow = narrow
    Views = {wide, narrow}
    ChunkCount <- MCChunkCount
    GroupIds = 8
    MaxMoves = 5
    None = None
    Hole = Hole
    Gap = Gap
INVARIANTS ItemAwaitsItsRequests SupersededAreCancelled GroupsDoNotMix ReadyIsWhole
PROPERTIES ViewIsShown CloseEnds
CHECK_DEADLOCK FALSE
