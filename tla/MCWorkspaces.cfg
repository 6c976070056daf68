\* The workspace of one assistant, with either provider: two processes with a copy of a Bashkit
\* workspace, or two callers that use, start and recreate a Docker container.
CONSTANTS
    worker = worker
    cli = cli
    run = run
    tick = tick
    nobody = nobody
    Processes = {worker, cli}
    Files = {"file"}
    Mails = {"mail"}
    Texts = {"text"}
    Binaries = {"binary"}
    Spellings = {"plain", "dotted"}
    Plain = "plain"
    Nobody = nobody
    MaxChanges = 3
    MaxPending = 2
    MaxExits = 1
    Callers = {run, tick}
    Files0 = "none"
    Files1 = "files"
    Nothing = "nothing"
    MaxImages = 2
    Faults = {"stop", "die", "inspect_fails", "export_fails", "create_fails", "put_fails", "alias_fails"}
    MaxFaults = 2
SPECIFICATION WorkspacesSpec
SYMMETRY WorkspaceSymmetry
CHECK_DEADLOCK FALSE
INVARIANTS
    CacheIsCurrent
    FilesSurvive
    HandleIsAlive
PROPERTIES
    ImplementsCopies
