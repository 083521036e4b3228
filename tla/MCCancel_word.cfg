SPECIFICATION Spec
CONSTANTS
    MaxCalls = 3
    Sign = 4
    FirstIds = {1, 2, 6}
    Ops = {"EXEC", "QUERY", "QUERY_STMT", "PREPARE"}
    Polls = {"running"}
INVARIANTS
    TypeOK
    OnlyTheCancelled
PROPERTY
    CancelledStops
CHECK_DEADLOCK FALSE
