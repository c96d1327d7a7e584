SPECIFICATION Spec
CONSTANTS
    q1 = q1
    q2 = q2
    s1 = s1
    fetch = fetch
    export = export
    Clients = {export}
    Exporters = {export}
    Rows <- MCRows
    Asks <- MCGap
    Large = {}
    Threads = 2
    Bucket = 4
    Filters <- MCFilters
    Broken = {}
    Passes <- MCPasses
    BadGroups = {"none"}
    HasOps = TRUE
    MayFail = FALSE
    None = None
INVARIANTS EveryAnswerIsExact
CHECK_DEADLOCK FALSE
