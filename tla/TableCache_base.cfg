SPECIFICATION FairSpec
CONSTANTS
    q1 = q1
    q2 = q2
    s1 = s1
    fetch = fetch
    export = export
    Clients = {fetch, export}
    Exporters = {export}
    Rows <- MCRows
    Asks <- MCAsks
    Large = {q1}
    Threads = 4
    Bucket = 3
    Filters <- MCFilters
    Broken = {"bad"}
    Passes <- MCPasses
    BadGroups = {"none"}
    HasOps = TRUE
    MayFail = TRUE
    None = None
INVARIANTS AnswerIsExact ViewFollowsTable
PROPERTIES IdleTableIsDropped
CHECK_DEADLOCK FALSE
