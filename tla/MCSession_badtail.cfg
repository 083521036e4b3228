SPECIFICATION Spec
CONSTANTS
    Slots = 2
    CacheLimit = 1
    Ptr = {p1, p2, p3}
    MaxDb = 1
    MaxStmt = 2
    Whole = {a, b}
    Trailing = {t}
    BadTail = {x}
    WithShutdown = FALSE
    None = None
SYMMETRY MCPtrSymmetry
PROPERTY
    CleanClose
CHECK_DEADLOCK FALSE
