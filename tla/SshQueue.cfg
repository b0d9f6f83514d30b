SPECIFICATION Spec
CONSTANTS
    Reqs = {r1, r2}
    MaxAnswers = 1
    MaxFaults = 1
    MaxCrashes = 1
    None = None
SYMMETRY Symmetry
INVARIANTS
    Recorded
PROPERTIES
    AllowStops
    ImplementsQueue
CHECK_DEADLOCK FALSE
