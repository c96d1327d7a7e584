SPECIFICATION FairSpec
CONSTANTS
    MaxOps = 4
    MaxAsks = 2
    None = None
INVARIANTS ConnectionOutlivesWorker AnswersFit BrowserListsTheLast
PROPERTIES PhasesAreEarned ConnectionIsFreed WorkflowMovesOn BrowserIsFreed
