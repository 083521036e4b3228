SPECIFICATION Spec
CONSTANTS
    Slots = 2
    CacheLimit = 1
    Ptr = {p1, p2, p3, p4}
    MaxDb = 2
    MaxStmt = 3
    Whole = {a, b}
    Trailing = {t}
    BadTail = {x}
    WithShutdown = TRUE
    None = None
SYMMETRY MCPtrSymmetry
INVARIANTS
    TypeOK
    OwnedOnce
    QueriesLive
    SlotsPartition
    CacheFaithful
CHECK_DEADLOCK FALSE
