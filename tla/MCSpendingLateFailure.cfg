\* One run, which fails after its reply was recorded.
CONSTANTS
    Threads = {t1}
    Allowed = {"read", "web_search"}
    Available = {"read", "web_search", "bash"}
    Prices <- MCPrices
    SearchCost = 2
    MaxResponses = 2
    MaxCalls = 1
    MaxTurns = 1
    Limit = 6
    PeriodEnd = 3
    Day = 2
    Horizon = 1
    MaxRuns = 1
SPECIFICATION Spec
CHECK_DEADLOCK FALSE
INVARIANTS
    LateFailureIsChargedOnce
