\* Failures before the answer leaves, and a worker that may die: the queue, the lock, what the
\* end user gets and what is charged.
CONSTANTS
    r1 = r1
    r2 = r2
    r3 = r3
    b = b
    alice = alice
    bob = bob
    none = none
    Runs = {r1, r2, b}
    Assistants = {alice, bob}
    AssistantOf <- MCAssistantOf
    Slots = {1, 2}
    NoRun = none
    Outcomes <- NoTimeout
    MayRaise <- BeforeAnswer
    MaxCrashes = 1
SPECIFICATION Spec
CHECK_DEADLOCK FALSE
INVARIANTS
    TypeOK
    SerialPerAssistant
    AtMostOneReply
    AtMostOneAnswer
    NoSilentRun
    BurnedIsCharged
PROPERTIES
    ImplementsSerialExecution
