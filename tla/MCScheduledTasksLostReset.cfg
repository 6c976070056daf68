\* A mail of the user arrives while the worker counts a reply.
CONSTANTS
    once = once
    daily = daily
    script = script
    direct = direct
    none = none
    Tasks = {daily}
    Kind <- MCKind
    Mode <- MCMode
    Limit <- LimitTwo
    Ticks = {1}
    NoTask = none
    Faults = {}
    MaxFaults = 0
    MaxReplies = 1
    Horizon = 2
SPECIFICATION Spec
CHECK_DEADLOCK FALSE
PROPERTIES
    PausedOnlyWhenUnanswered
