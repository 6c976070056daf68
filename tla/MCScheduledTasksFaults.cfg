\* Two failures of any kind, which leave a row due or roll a tick back: the audit log, the
\* runs, and under fairness the progress of a due task.
CONSTANTS
    once = once
    daily = daily
    script = script
    direct = direct
    none = none
    Tasks = {once, script}
    Kind <- MCKind
    Mode <- MCMode
    Limit <- MCLimit
    Ticks = {1, 2}
    NoTask = none
    Faults = {"crash", "command_raises", "command_fails", "direct_fails", "direct_fails_late", "dispatch_fails", "enqueue_fails"}
    MaxFaults = 2
    MaxReplies = 0
    Horizon = 1
SPECIFICATION FairSpec
CHECK_DEADLOCK FALSE
INVARIANTS
    AuditMatchesTags
    ServedAgainOnlyForFaults
PROPERTIES
    DueTaskAdvances
