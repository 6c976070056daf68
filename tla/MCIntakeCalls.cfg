\* A mail, a scheduled nudge and a surface call side by side: requests may die before their
\* transaction commits, and the provider delivers the mail again.
CONSTANTS
    root = root
    reply = reply
    ghost = ghost
    nudge = nudge
    call = call
    alice = alice
    bob = bob
    Mails = {root, nudge, call}
    Assistants = {alice}
    Kind <- MCKind
    Mentions <- MCMentions
    Deliverable <- CallDeliverable
    Routable <- CallDeliverable
    Tasked = {alice}
    h1 = h1
    h2 = h2
    Handlers = {h1, h2}
    Faults = {"precheck", "resolve", "lookup", "insert"}
    MaxDeliveries = 2
    MaxFaults = 1
SPECIFICATION FairSpec
CHECK_DEADLOCK FALSE
INVARIANTS
    AckedIsQueued
PROPERTIES
    ImplementsInbox
    OnlyMailResetsCounters
    DeliveredIsEventuallyQueued
