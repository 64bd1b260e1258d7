SPECIFICATION Spec
CONSTANTS
    Event <- TwoEvents
    Kind <- OnlyMessages
    Known = FALSE
    MaxRetry = 1
    MaxForget = 0
    MaxCrash = 0
    MaxFault = 0
    MaxDelete = 0
INVARIANTS RetryProcesses
CHECK_DEADLOCK FALSE
