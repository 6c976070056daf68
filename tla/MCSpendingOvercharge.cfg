\* Two runs of one thread, the second one fails.
CONSTANTS
    Threads = {t1}
    Allowed = {"read", "web_search"}
    Available = {"read", "web_search", "bash"}
    Prices <- MCPrices
    SearchCost = 2
    MaxResponses = 2
    MaxCalls = 1
    MaxTurns = 2
    Limit = 6
    PeriodEnd = 3
    Day = 2
    Horizon = 1
    MaxRuns = 2
SPECIFICATION Spec
CHECK_DEADLOCK FALSE
INVARIANTS
    FailedRunPaysForItself
