SPECIFICATION MCSpec
CONSTANTS
    a1 = a1  a2 = a2  v1 = v1
    Apps = {a1, a2}
    Versions = {v1}
    NoVersion = NoVersion
    Capacity = 2
    U64Max = 1000
    SpawnMayFail = FALSE
    MaxRuntimes = 2
    MaxSequence = 2
INVARIANT ExitMarksCrashed
CHECK_DEADLOCK FALSE
