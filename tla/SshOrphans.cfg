SPECIFICATION Spec
CONSTANTS
    Reqs = {r1}
    MaxAnswers = 1
    MaxFaults = 0
    MaxCrashes = 0
    None = None
PROPERTIES
    OrphansOnly
CHECK_DEADLOCK FALSE
