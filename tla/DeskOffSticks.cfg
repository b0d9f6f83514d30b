SPECIFICATION Spec
CONSTANTS
    Users <- MCUsers
    Holders <- MCHolders
    Grants <- MCGrants
    Require = FALSE
    MaxTaps = 2
    MaxFaults = 0
    MaxCrashes = 0
INVARIANTS
    OffSticks
CHECK_DEADLOCK FALSE
