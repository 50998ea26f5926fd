SPECIFICATION MCSpec
CONSTANTS
    Parts = {"api", "chat", "panels", "main"}
    Requests = {r1, r2}
    Capacity = 1
    Unit = 2
    MaxRetries = 1
    Pages = {page1}
    MaxTurns = 2
    MaxRounds = 1
    MaxCalls = 1
    Kept = 3
    MaxSwitches = 3
    Windows = {w1}
    MaxJobs = 2
    MaxClicks = 2
    MaxAsks = 1
    MaxTries = 2
    MaxStops = 1
    McpTools = {mt1, mt2}
    PageCalls = {pc1, pc2}
    MaxPolls = 2
CHECK_DEADLOCK FALSE
PROPERTIES
    RequestsReturn
    PageFreed
    ShowsActive
    PageCallsSettle
    LateContextFound
