SPECIFICATION Spec
CONSTANTS
    c1 = c1
    c2 = c2
    c3 = c3
    s1 = s1
    s2 = s2
    Runs <- ThreeCalls
    Traces <- ThreeCalls
    Sessions = {s1}
    Budgeted = {s1}
    InitBudget = 2
    MaxEpoch = 1
    StoreFaults = FALSE
    LedgerFaults = TRUE
    Abandons = FALSE
SYMMETRY CallSymmetry3
CHECK_DEADLOCK FALSE
INVARIANT QuietSessionsPaidExactly
