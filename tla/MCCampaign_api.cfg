SPECIFICATION Spec
CONSTANTS
    c1 = c1
    c2 = c2
    k1 = k1
    k2 = k2
    k3 = k3
    r1 = r1
    r2 = r2
    Campaign <- OneCampaign
    Recipient <- ThreeRecipients
    Request <- OneRequest
    MaxBatch = 2
    Concurrency = 2
    Removable <- ThreeRecipients
    DailyCap = TRUE
    Ops <- EveryOp
    MaxCrash = 0
    MaxFault = 0
SYMMETRY Symmetry3
INVARIANTS CompletedMeansAll QueuedOncePerRecipient PausedHoldsQueue
PROPERTIES MailedAsPromised
CHECK_DEADLOCK FALSE
