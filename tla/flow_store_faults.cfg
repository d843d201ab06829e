SPECIFICATION FlowSpec
CONSTANTS
    a1 = a1
    k1 = k1
    k2 = k2
    k3 = k3
    s1 = s1
    Nil = Nil
    Approvals <- OneApproval
    Tokens <- ThreeTokens
    Runs <- ThreeTokens
    Traces <- ThreeTokenTraces
    Sessions = {s1}
    Budgeted = {}
    SessionOf <- OneSession
    RiskOf <- HighRisk
    InitBudget = 2
    MaxEpoch = 0
    Backend = "redis"
    ClaimTTL = 2
    RecordTTL = 3
    ForensicsTTL = 2
    ClockLag = 1
    MaxNow = 4
    Prompt = TRUE
    StoreFaults = TRUE
    LedgerFaults = FALSE
    Abandons = FALSE
SYMMETRY TokenSymmetry3
CHECK_DEADLOCK FALSE
INVARIANTS
    OneShot
    DecisionsHold
