SPECIFICATION ComponentsSpec
CONSTANTS
    a1 = a1
    k1 = k1
    k2 = k2
    k3 = k3
    t1 = t1
    t2 = t2
    t3 = t3
    q1 = q1
    q2 = q2
    x1 = x1
    g1 = g1
    g2 = g2
    p1 = p1
    d1 = d1
    d2 = d2
    u1 = u1
    u2 = u2
    Nil = Nil
    Approvals = {a1}
    Tokens = {k1, k2, k3}
    Backend = "redis"
    ClaimTTL = 2
    RecordTTL = 3
    ForensicsTTL = 2
    ClockLag = 1
    MaxNow = 7
    Threads = {t1, t2}
    Rps = 1
    ClockModulus = 16
    MaxSeconds = 2
    MaxAdmitted = 6
    Keys = {a1}
    Callers = {u1, u2}
    KeyRps <- TwoKeyRps
    MaxIdle = 3
    MaxStall = 2
    LastTick = 6
    Never = Never
    Proofs = {q1, q2}
    Requests = {u1, u2}
    MaxAge = 0
    Skew = 1
    MaxDelay = 0
    Ttl = 2
    Cap = 1
    Wrap = 8
    MaxTime = 3
    MaxRestarts = 1
    Actions = {a1}
    Domains = {d1, d2}
    Manifest <- NoManifest
    Runtime = {d1, d2}
    RowCap = 2
    Tasks = {u1, u2}
    Principals = {p1}
    ActionIds = {d1}
    AdminRequests = {u1, u2}
    Workers = {g1}
    Original = Original
    NoFile = NoFile
    MaxPolicyRestarts = 1
    Traces = {t1, t2, t3}
    Oversized = {t3}
    Genesis = Genesis
    Grants = {x1}
    FinalTrace <- FirstTrace
    Gates = {g1, g2}
    MaxDeaths = 2
    Sessions = {p1}
    Unset = Unset
    NoBudget = NoBudget
    Wishes = {1, Unset, NoBudget}
    LeaseTtl = 2
    MaxLeaseTtl = 3
    GracePeriod = 1
    ApprovalTtl = 3
    Word = 8
    LastSecond = 6
    MaxCallsMade = 2
    MaxRestart = 1
    Runs = {u1, u2}
    Paths = {d1}
    Contents = {k1}
    Torn = Torn
    Missing = Missing
    Unsaid = Unsaid
    MaxIoCalls = 2
    EgressRetryMax = 1
    ApprovalIds = {d1, d2}
    Unresolved = {d1}
    PageSize = 2
    MaxTyped = 1
    MaxEvents = 3
    FetchLimit = 2
    Overlap = 2
    MaxLag = 1
    MaxRows = 4
    MaxClock = 3
SYMMETRY ComponentSymmetry
CHECK_DEADLOCK FALSE
INVARIANTS
    ClaimWindowsDisjoint
    VerdictIsTheHolders
    RateBounded
    LimitersSafe
    ReplaySafe
    AllowlistSafe
    
    LedgerSafe
    SessionSafe
    RunSafe
    DecisionScreensSafe
PROPERTIES
    ImplementsLifecycle
