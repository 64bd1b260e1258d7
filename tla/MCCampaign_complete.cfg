SPECIFICATION Spec
CONSTANTS
    c1 = c1
    c2 = c2
    k1 = k1
    k2 = k2
    k3 = k3
    r1 = r1
    r2 = r2
    Campaign <- TwoCampaigns
    Recipient <- TwoRecipients
    Request <- OneRequest
    MaxBatch = 1
    Concurrency = 2
    Removable <- NoRecipient
    DailyCap = FALSE
    Ops <- WithoutPause
    MaxCrash = 0
    MaxFault = 0
INVARIANTS NoLostCompletion
CHECK_DEADLOCK FALSE
