SPECIFICATION Spec
CONSTANTS
    Chunk = {"add", "nop"}
    Blank = "nop"
    CalcImage <- MCCalcImage
    Manifests <- MCManifests
    RegionSize = 2
    TransferIds = {1, 2}
    IdModulus = 3
INVARIANTS
    DiagnosticsOfLastExecution
