SPECIFICATION Spec
CONSTANTS
    q1 = q1
    q2 = q2
    s1 = s1
    fetch = fetch
    export = export
    Clients = {fetch}
    Exporters = {}
    Rows <- MCLastSample
    Asks <- MCWhole
    Large = {q1}
    Threads = 3
    Bucket = 2
    Filters <- MCFilters
    Broken = {}
    Passes <- MCPasses
    BadGroups = {"none"}
    HasOps = FALSE
    MayFail = FALSE
    None = None
INVARIANTS EveryAnswerIsExact
CHECK_DEADLOCK FALSE
