SPECIFICATION Spec
CONSTANTS
    MaxLease = 2
    MaxQueue = 3
    Builds = {TRUE}
    Cancels <- MCAnywhere
INVARIANTS
    NoStrangerInTx
CHECK_DEADLOCK FALSE
