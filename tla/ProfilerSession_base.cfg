SPECIFICATION FairSpec
CONSTANTS
    Codes = {0, 1}
INVARIANTS FinalMeansOver ResolvedMeansOver
PROPERTIES CancelEnds CloseEnds
CHECK_DEADLOCK FALSE
