SPECIFICATION Spec
CONSTANTS
    MaxOps = 4
    MaxAsks = 2
    None = None
INVARIANTS FreedAfterTheWorker
