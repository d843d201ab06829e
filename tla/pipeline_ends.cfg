SPECIFICATION Spec
CONSTANTS
    c1 = c1
    c2 = c2
    c3 = c3
    s1 = s1
    s2 = s2
    Runs <- TwoCalls
    Traces <- TwoCalls
    Sessions = {s1, s2}
    Budgeted = {s1}
    InitBudget = 1
    MaxEpoch = 1
    StoreFaults = TRUE
    LedgerFaults = FALSE
    Abandons = TRUE
CHECK_DEADLOCK FALSE
INVARIANT NoSilentEnd
PROPERTY
    RevokedBeforeCheckNeverActs
