SPECIFICATION Spec
CONSTANTS
    Period = 2
    Recovery = 2
    Modulus = 32
    MaxTime = 9
    MaxCycles = 12
PROPERTIES
    RequestRetainedInService
