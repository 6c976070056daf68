\* A spent budget, and the time after the period.
CONSTANTS
    Threads = {t1, t2}
    Allowed = {"read", "web_search"}
    Available = {"read", "web_search", "bash"}
    Prices <- MCPrices
    SearchCost = 2
    MaxResponses = 2
    MaxCalls = 2
    MaxTurns = 2
    Limit = 3
    PeriodEnd = 3
    Day = 2
    Horizon = 5
    MaxRuns = 3
SPECIFICATION Spec
CHECK_DEADLOCK FALSE
PROPERTIES
    BackAfterReset
