SPECIFICATION FairSpec
CONSTANTS
    Plans <- MCPlans
    Rows = 2
    Limit = 2
INVARIANTS InterruptsLiveFutures StopsOnlyItsOwn SuccessIsComplete AtMostOneEscapes NothingLeft
PROPERTIES JobEnds
CHECK_DEADLOCK FALSE
