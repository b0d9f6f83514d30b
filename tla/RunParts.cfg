SPECIFICATION RunFairSpec
CONSTANTS
    None = None
INVARIANTS
    RunTypesOK
    CookOnce
    NoWorkerLeft
    OneStory
    FollowUpOnce
    WritesAllowed
PROPERTIES
    RunsEnd
    HoldIsQueue
CHECK_DEADLOCK FALSE
