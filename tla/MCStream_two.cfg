SPECIFICATION Spec
CONSTANTS
    MaxId = 2
    Db = {1}
    Window = 1
    MaxEarlyAborts = 1
    MaxRows = 3
    BatchTargets <- MCTargets
    Cancellable = TRUE
INVARIANTS
    TypeOK
    CreditConserved
    EofMeansComplete
PROPERTY
    ImplementsCalls
CHECK_DEADLOCK FALSE
