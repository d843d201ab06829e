SPECIFICATION FlowSpec
CONSTANTS
    a1 = a1
    k1 = k1
    k2 = k2
    k3 = k3
    s1 = s1
    Nil = Nil
    Approvals <- OneApproval
    Tokens <- TwoTokens
    Runs <- TwoTokens
    Traces <- TwoTokenTraces
    Sessions = {s1}
    Budgeted = {}
    SessionOf <- OneSession
    RiskOf <- HighRisk
    InitBudget = 2
    MaxEpoch = 0
    Backend = "redis"
    ClaimTTL = 1
    RecordTTL = 2
    ForensicsTTL = 2
    ClockLag = 0
    MaxNow = 2
    Prompt = FALSE
    StoreFaults = TRUE
    LedgerFaults = TRUE
    Abandons = TRUE
SYMMETRY TokenSymmetry2
CHECK_DEADLOCK FALSE
INVARIANTS
    ApprovalsAreTrue
