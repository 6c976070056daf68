\* Anything but the last steps may raise and the worker may die: the run rows, and under
\* fairness the end of every run.
CONSTANTS
    r1 = r1
    r2 = r2
    r3 = r3
    b = b
    alice = alice
    bob = bob
    none = none
    Runs = {r1, r2}
    Assistants = {alice, bob}
    AssistantOf <- MCAssistantOf
    Slots = {1, 2}
    NoRun = none
    Outcomes <- AgentOutcomes
    MayRaise <- AllButLate
    MaxCrashes = 1
SPECIFICATION FairSpec
CHECK_DEADLOCK FALSE
INVARIANTS
    CompletedMeansAnswered
    RunningIsOwned
PROPERTIES
    FinishedStaysFinished
    EveryDeferredRunFinishes
