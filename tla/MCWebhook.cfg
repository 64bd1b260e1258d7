SPECIFICATION Spec
CONSTANTS
    Event <- ThreeEvents
    Kind <- MessagesAndBlock
    Known = FALSE
    MaxRetry = 1
    MaxForget = 1
    MaxCrash = 1
    MaxFault = 1
    MaxDelete = 1
CONSTRAINT ThreeUpsets
INVARIANTS CountedOnce LossHasCause
PROPERTIES InboxKept
CHECK_DEADLOCK FALSE
