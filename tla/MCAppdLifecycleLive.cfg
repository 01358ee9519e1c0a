SPECIFICATION FairSpec
CONSTANTS
    a1 = a1  a2 = a2  v1 = v1  v2 = v2
    Apps = {a1, a2}
    Versions = {v1, v2}
    NoVersion = NoVersion
    Capacity = 1
    U64Max = 1000
    SpawnMayFail = TRUE
    MaxRuntimes = 2
    MaxSequence = 2
INVARIANTS PackageStableWhileRunning
PROPERTIES LifecycleProgress
CHECK_DEADLOCK FALSE
