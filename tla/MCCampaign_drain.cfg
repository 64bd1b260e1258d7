SPECIFICATION FairSpec
CONSTANTS
    c1 = c1
    c2 = c2
    k1 = k1
    k2 = k2
    k3 = k3
    r1 = r1
    r2 = r2
    Campaign <- OneCampaign
    Recipient <- TwoRecipients
    Request <- OneRequest
    MaxBatch = 1
    Concurrency = 2
    Removable <- TwoRecipients
    DailyCap = TRUE
    Ops <- LaunchAndStop
    MaxCrash = 1
    MaxFault = 0
PROPERTIES JobsDrain
CHECK_DEADLOCK FALSE
