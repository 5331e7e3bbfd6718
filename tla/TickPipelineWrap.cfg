SPECIFICATION Spec
CONSTANTS
    Period = 2
    Recovery = 2
    Modulus = 8
    MaxTime = 5
    MaxCycles = 12
INVARIANTS
    RecoveryBeforeDelivery
