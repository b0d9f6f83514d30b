SPECIFICATION Spec
CONSTANTS
    Hosts = {h1, h2}
    Kinds = {"voice", "handoff", "fork"}
    MaxMsgs = 2
    MaxStarts = 2
    MaxFaults = 1
    MaxAttempts = 0
    None = None
SYMMETRY Symmetry
INVARIANTS
    CookOnce
    NothingSkipped
PROPERTIES
    RowKeptUntilCooked
CHECK_DEADLOCK FALSE
