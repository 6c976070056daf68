\* Two ticks at the same time, late ticks, the worker and a mail of the user; nothing fails.
CONSTANTS
    once = once
    daily = daily
    script = script
    direct = direct
    none = none
    Tasks = {direct, script}
    Kind <- MCKind
    Mode <- MCMode
    Limit <- MCLimit
    Ticks = {1, 2}
    NoTask = none
    Faults = {}
    MaxFaults = 0
    MaxReplies = 1
    Horizon = 3
SPECIFICATION Spec
CHECK_DEADLOCK FALSE
INVARIANTS
    AtMostOncePerDueTime
PROPERTIES
    PausedStaysQuiet
