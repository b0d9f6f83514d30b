SPECIFICATION Spec
CONSTANTS
    Hosts = {h1}
    Kinds = {"handoff"}
    MaxMsgs = 1
    MaxStarts = 2
    MaxFaults = 0
    MaxAttempts = 3
    None = None
INVARIANTS
    HandoffCooks
CHECK_DEADLOCK FALSE
