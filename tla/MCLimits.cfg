SPECIFICATION LimitsSpec
CONSTANTS
    a1 = a1
    w1 = w1
    w2 = w2
    j1 = j1
    j2 = j2
    j3 = j3
    j4 = j4
    l1 = l1
    l2 = l2
    l3 = l3
    page = page
    contact = contact
    Api <- OneCall
    Worker <- TwoWorkers
    Key <- TwoKeys
    Page <- page
    Limit <- LimitOne
    MaxWindow = 1
    MaxFault = 1
    Job <- FourJobs
    Cap = 3
    MaxDay = 2
    MaxLost = 2
    Client <- ThreeClients
    MaxAttempts = 2
    MaxMishap = 1
SYMMETRY Symmetry
INVARIANTS NeverOverCap RefusedOnlyWhenFull KeysExpire WindowLimit QuietCountExact ForeverIsBrief LockoutKept
PROPERTIES PoolOfSlots
