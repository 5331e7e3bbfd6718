SPECIFICATION Spec
CONSTANTS
    Shells = {s1, s2}
    MaxSize = 1
    MaxPuts = 2
    MaxReads = 1
INVARIANTS
    PutIsAtomic
