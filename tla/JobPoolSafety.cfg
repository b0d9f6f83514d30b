SPECIFICATION Spec
CONSTANTS
    Jobs = {j1, j2, j3}
    c1 = c1
    c2 = c2
    t1 = t1
    t2 = t2
    None = None
    Channels <- OneChannel
    Trees <- OneTree
    DefaultTree = t1
    Asks <- MCAsks
    MaxLive = 2
    MaxBinds = 1
SYMMETRY Symmetry
INVARIANTS
    TypeOK
    SlotsExact
    WriteExclusion
    BoundTreesExclusive
    ReceiptOnce
PROPERTIES
    WaitComplete
CHECK_DEADLOCK FALSE
