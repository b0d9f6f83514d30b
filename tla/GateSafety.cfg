SPECIFICATION Spec
CONSTANTS
    Reqs = {r1, r2}
    sh = sh
    compound = compound
    None = None
    GateOn = TRUE
    Tools <- MCTools
    Rememberable <- MCRemember
    Calls <- MCShellCalls
    MaxTaps = 2
    MaxCrashes = 1
SYMMETRY Symmetry
INVARIANTS
    TypeOK
    FailClosed
    DenyHolds
    AllowHolds
CHECK_DEADLOCK FALSE
