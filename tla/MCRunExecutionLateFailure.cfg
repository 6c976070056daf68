\* The enqueue of the memory job raises after the reply was sent.
CONSTANTS
    r1 = r1
    r2 = r2
    r3 = r3
    b = b
    alice = alice
    bob = bob
    none = none
    Runs = {r1}
    Assistants = {alice, bob}
    AssistantOf <- MCAssistantOf
    Slots = {1, 2}
    NoRun = none
    Outcomes <- AgentOutcomes
    MayRaise = {"curate"}
    MaxCrashes = 0
SPECIFICATION Spec
CHECK_DEADLOCK FALSE
INVARIANTS
    AtMostOneAnswer
