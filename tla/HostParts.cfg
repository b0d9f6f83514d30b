SPECIFICATION HostFairSpec
CONSTANTS
    None = None
INVARIANTS
    HostTypesOK
    OnceInOrder
    OncePerChunk
    DeskHolds
    
    WakesOnce
    SlotsKept
PROPERTIES
    HostRests
CHECK_DEADLOCK FALSE
