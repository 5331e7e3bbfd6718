SPECIFICATION BoardSpec
CONSTANTS
    SectorCount = 4
    PerBlock = 2
    Data = {a, b}
    Erased = Erased
    Garbage = Garbage
    MaxWrites = 2
    Depth = 4
    MaxPulses = 3
    QueueCapacity = 4
INVARIANTS
    StatusIsWhole
PROPERTIES
    SyncMeansStored
    CutSparesOtherBlocks
    PulsesAreWhole
    EndIsNoticed
