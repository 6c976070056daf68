\* A request dies between the commit of the run and the enqueue of its job.
CONSTANTS
    root = root
    reply = reply
    ghost = ghost
    nudge = nudge
    call = call
    alice = alice
    bob = bob
    Mails = {root}
    Assistants = {alice}
    Kind <- MCKind
    Mentions <- MCMentions
    Deliverable <- OneDeliverable
    Routable <- OneDeliverable
    Tasked = {}
    h1 = h1
    h2 = h2
    Handlers = {h1, h2}
    Faults = {"defer"}
    MaxDeliveries = 2
    MaxFaults = 1
SPECIFICATION Spec
CHECK_DEADLOCK FALSE
INVARIANTS
    AckedIsQueued
