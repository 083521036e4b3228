SPECIFICATION FairSpec
CONSTANTS
    MaxId = 2
    Db = {1, 2}
    Window = 1
    MaxEarlyAborts = 2
    MaxRows = 1
    BatchTargets <- MCTargets
    Cancellable = TRUE
INVARIANTS
    InOrder
    AbortNotLost
    StreamIInv
PROPERTIES
    Settles
    ReadersFinish
CHECK_DEADLOCK FALSE
