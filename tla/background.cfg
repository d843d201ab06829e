SPECIFICATION BackgroundSpec
CONSTANTS
    a1 = a1
    a2 = a2
    k1 = k1
    r1 = r1
    r2 = r2
    p1 = p1
    p2 = p2
    e1 = e1
    e2 = e2
    h1 = h1
    h2 = h2
    Nil = Nil
    Approvals = {a1, a2}
    Tokens = {k1}
    Backend = "sqlite"
    ClaimTTL = 1
    RecordTTL = 1
    ForensicsTTL = 1
    ClockLag = 0
    MaxNow = 3
    ScanLimit = 1
    Rows = {r1, r2}
    Orphans = {r2}
    Pollers = {p1, p2}
    BatchSize = 2
    MaxRetries = 1
    Backoff <- NoThenOne
    StaleClaim = 1
    DayLength = 2
    MaxCrashes = 1
    MaxLost = 1
    Events = {e1, e2}
    Endpoints = {h1, h2}
    Subscribed <- FirstToAll
    ChannelCapacity = 1
    TaskRetries = 1
CHECK_DEADLOCK FALSE
INVARIANTS
    OutboxSafe
    NoticesSafe
PROPERTIES
    BackgroundProgress
