SPECIFICATION Spec
CONSTANTS
    MaxLease = 2
    MaxQueue = 3
    Builds = {FALSE}
    Cancels <- MCAnywhere
INVARIANTS
    AbandonedIsDiscarded
CHECK_DEADLOCK FALSE
