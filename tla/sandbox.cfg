SPECIFICATION SandboxSpec
CONSTANTS
    t1 = t1
    t2 = t2
    Streams = {t1, t2}
    MaxRelays = 1
    MaxConnections = 1
    UpChunks <- UpBound
    DownChunks <- DownBound
    Abis = {0, 1, 4}
    X86 = TRUE
CHECK_DEADLOCK FALSE
INVARIANTS
    SandboxSafe
PROPERTIES
    SandboxProgress
