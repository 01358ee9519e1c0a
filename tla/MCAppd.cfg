SPECIFICATION MCSpec
CONSTANTS
    a1 = a1  a2 = a2  a3 = a3  v1 = v1
    Apps = {a1, a2, a3}
    Versions = {v1}
    NoVersion = NoVersion
    Capacity = 2
    U64Max = 5
    HandlerU64Max = 1000
    SpawnMayFail = TRUE
    Thumbnails = {1}
    MaxTokens = 4
    MaxRuntimes = 3
    MaxSequence = 4
SYMMETRY AppSymmetry
INVARIANTS RegistrySound SnapshotRestorable  
CHECK_DEADLOCK FALSE
