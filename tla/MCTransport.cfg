SPECIFICATION FairSpec
CONSTANTS
    MaxId = 2
    MaxFrames <- MCFrames
INVARIANTS
    TypeOK
    NoLostWakeup
    DeadFailsAll
    NoFrameLost
    TransportIInv
PROPERTIES
    Released
CHECK_DEADLOCK FALSE
