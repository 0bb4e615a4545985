SPECIFICATION FairLoginSpec
CONSTANTS
    w1 = w1
    w2 = w2
    p1 = p1
    p2 = p2
    Nobody = Nobody
    Keys = {1, 2}
    Phones = {p1, p2}
    Workers = {w1, w2}
    InitialAccounts <- MCInitialAccounts
    MaxAttempts = 2
    MaxFaults = 1
INVARIANTS
    LoginTypeOK
    SentOnce
    OnlyNewestCode
    TextedBeforeUsed
    NewestSessionOnly
PROPERTIES
    EachKeepsContract
    EveryCodeSettles
CHECK_DEADLOCK FALSE
