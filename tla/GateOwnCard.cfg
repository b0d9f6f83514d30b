SPECIFICATION Spec
CONSTANTS
    Reqs = {r1, r2}
    sh = sh
    compound = compound
    None = None
    GateOn = TRUE
    Tools <- MCTools
    Rememberable <- MCRemember
    Calls <- MCTwoCalls
    MaxTaps = 1
    MaxCrashes = 0
INVARIANTS
    OwnCard
CHECK_DEADLOCK FALSE
