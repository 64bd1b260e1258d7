SPECIFICATION SendsSpec
CONSTANTS
    m1 = m1
    m2 = m2
    alice = alice
    s1 = s1
    s2 = s2
    otn = otn
    topic = topic
    q1 = q1
    q2 = q2
    wa = wa
    wb = wb
    r1 = r1
    r2 = r2
    Message <- OneMessage
    Contact <- OneContact
    To <- ToAlice
    MaxTime = 1
    MaxFault = 0
    Caller <- TwoSlots
    Window = 1
    AgentWindow = 2
    CacheTtl = 1
    FillTime = 1
    MaxClock = 5
    MaxUnhandled = 1
    Sender <- TwoSlots
    Token <- OneToken
    Topic <- OneTopic
    Expiry <- NoneOrThree
    Period = 2
    MaxNoteTime = 4
    MaxLost = 1
    Request <- TwoRequests
    Workspace <- TwoWorkspaces
    PageRow <- TwoRows
INVARIANTS FailureRecorded
CHECK_DEADLOCK FALSE
