SPECIFICATION FairSpec
CONSTANTS
    Jobs = {j1, j2, j3}
    Workers = {w1, w2}
    Results <- MCResults
    NoJob = NoJob
INVARIANTS OneHolder RunsOnLiveFuture
PROPERTIES ImplementsPromise JobsResolve WaitersReturn ShutdownEnds
CHECK_DEADLOCK FALSE
