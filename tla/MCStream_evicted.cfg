SPECIFICATION FairSpec
CONSTANTS
    MaxId = 3
    Db = {1}
    Window = 1
    MaxEarlyAborts = 1
    MaxRows = 1
    BatchTargets <- MCUnitTargets
    Cancellable = FALSE
PROPERTY
    Settles
CHECK_DEADLOCK FALSE
