SPECIFICATION WireSpec
CONSTANTS
    None = None
INVARIANTS
    WireTypesOK
    CommandsTrue
    LineageKept
CHECK_DEADLOCK FALSE
