\* The command of one task raises after another task was dispatched.
CONSTANTS
    once = once
    daily = daily
    script = script
    direct = direct
    none = none
    Tasks = {once, script}
    Kind <- MCKind
    Mode <- MCMode
    Limit <- LimitTwo
    Ticks = {1}
    NoTask = none
    Faults = {"command_raises"}
    MaxFaults = 1
    MaxReplies = 0
    Horizon = 2
SPECIFICATION Spec
CHECK_DEADLOCK FALSE
INVARIANTS
    AtMostOncePerDueTime
