SPECIFICATION PortSpec
CONSTANTS
    Period = 2
    Recovery = 3
    RestoreCycles = 1
    Modulus = 64
    MaxTime = 8
    MaxCycles = 13
INVARIANTS
    TickAccounting
    RecoveryBeforeDelivery
    InterruptNeverRefused
    ServiceMatchesHandler
    ForegroundProgress
