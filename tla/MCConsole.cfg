SPECIFICATION ConsoleSpec
CONSTANTS
    c1 = c1
    c2 = c2
    s1 = s1
    s2 = s2
    k1 = k1
    k2 = k2
    i1 = i1
    i2 = i2
    e1 = e1
    e2 = e2
    p1 = p1
    p2 = p2
    h1 = h1
    h2 = h2
    f1 = f1
    referral = referral
    Caller <- TwoCallers
    Session <- TwoSessions
    RefreshTtl = 1
    RememberTtl = 2
    CacheTtl = 1
    MaxTime = 3
    MaxSecret = 2
    MaxChange = 1
    Clerk <- TwoClerks
    Item <- TwoItems
    MaxCut = 1
    Editor <- TwoEditors
    Contact <- TwoContacts
    Handler <- TwoHandlers
    Field <- OneField
    Referral = referral
SYMMETRY Symmetry
CONSTRAINT OneRefreshed
INVARIANTS
    EndedSessionsDie EndedAtOnce ChangeEndsSessions
    UsedByOverlap FilesMatchRegistry CountDrift SegmentKept
    ValuesFollowDefinitions OthersValuesKept
PROPERTIES TokenRedeemedByOverlap
CHECK_DEADLOCK FALSE
