\* Two assistants, two operations at a time on tokens and settings, one request, and
\* addresses that a container takes over from another one.
CONSTANTS
    a1 = a1
    a2 = a2
    create1 = create1
    create2 = create2
    r1 = r1
    here = here
    there = there
    nowhere = nowhere
    Assistants = {a1, a2}
    Operators = {create1, create2}
    Requests = {r1}
    Addresses = {here, there}
    Nowhere = nowhere
    Paths <- MCPaths
    MaxUp = 1
    MaxOperations = 3
    MaxMoves = 2
SPECIFICATION Spec
SYMMETRY SurfaceSymmetry
CHECK_DEADLOCK FALSE
INVARIANTS
    RevokedIsRefused
    ReachesItsAssistant
    LinksLeadHome
