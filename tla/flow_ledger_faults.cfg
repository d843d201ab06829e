SPECIFICATION FairFlowSpec
CONSTANTS
    a1 = a1
    k1 = k1
    k2 = k2
    k3 = k3
    s1 = s1
    Nil = Nil
    Approvals <- OneApproval
    Tokens <- TwoTokens
    Runs <- TwoTokens
    Traces <- TwoTokenTraces
    Sessions = {s1}
    Budgeted = {}
    SessionOf <- OneSession
    RiskOf <- HighRisk
    InitBudget = 2
    MaxEpoch = 1
    Backend = "sqlite"
    ClaimTTL = 2
    RecordTTL = 3
    ForensicsTTL = 2
    ClockLag = 1
    MaxNow = 4
    Prompt = TRUE
    StoreFaults = FALSE
    LedgerFaults = TRUE
    Abandons = FALSE
CHECK_DEADLOCK FALSE
PROPERTIES
    ClaimsEndWell
