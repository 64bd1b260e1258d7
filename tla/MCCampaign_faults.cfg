SPECIFICATION Spec
CONSTANTS
    c1 = c1
    c2 = c2
    k1 = k1
    k2 = k2
    k3 = k3
    r1 = r1
    r2 = r2
    Campaign <- OneCampaign
    Recipient <- OneRecipient
    Request <- TwoRequests
    MaxBatch = 2
    Concurrency = 2
    Removable <- OneRecipient
    DailyCap = TRUE
    Ops <- LaunchCancelDelete
    MaxCrash = 1
    MaxFault = 2
SYMMETRY SymmetryR
INVARIANTS FinishedJobsCounted NothingCountedTwice AcceptedOncePerRun
CHECK_DEADLOCK FALSE
