\* Overlapping and repeated webhook deliveries to two assistants.
CONSTANTS
    root = root
    reply = reply
    ghost = ghost
    nudge = nudge
    call = call
    alice = alice
    bob = bob
    Mails = {root, reply, ghost}
    Assistants = {alice, bob}
    Kind <- MCKind
    Mentions <- MCMentions
    Deliverable <- MailDeliverable
    Routable <- MailRoutable
    Tasked = {}
    h1 = h1
    h2 = h2
    Handlers = {h1, h2}
    Faults = {"resolve", "lookup", "insert"}
    MaxDeliveries = 2
    MaxFaults = 1
SPECIFICATION Spec
SYMMETRY HandlerSymmetry
CHECK_DEADLOCK FALSE
INVARIANTS
    OneMessagePerMail
    OneRunPerMessage
    AtMostOneJobPerRun
    ThreadsDoNotCrossAssistants
    ReplyJoinsKnownThread
