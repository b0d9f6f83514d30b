SPECIFICATION DeskSpec
CONSTANTS
    None = None
INVARIANTS
    DeskTypesOK
    TappedWrites
    AnswersTrue
    
PROPERTIES
    PressesKept
CHECK_DEADLOCK FALSE
