SPECIFICATION PoolSpec
CONSTANTS
    MaxLease = 3
    MaxQueue = 3
    Builds = {TRUE, FALSE}
    Cancels <- MCSparing
    MaxConnects = 2
    Impatient = {1, 2}
    Conns = {c1, c2}
    RetryAttempts = 2
    Scripts <- MCScripts
    MaxText = 2
    DSNs <- MCDSNs
    Vfs = {"memdb"}
    Id = "/id"
    Null = Null
    Zones = {"UTC"}
    Slashed = {"/id", "/shared"}
INVARIANTS
    PoolTypeOK
    NoStrangerInTx
    TxStatementsInside
    AbandonedIsDiscarded
    NoWorkerLeft
    DatabasesOwned
    OneDatabase
    AppliedOnce
    NoUpgrade
PROPERTY
    ConnectReturns
CHECK_DEADLOCK FALSE
