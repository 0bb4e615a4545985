SPECIFICATION FairReconSpec
CONSTANTS
    r1 = r1
    r2 = r2
    k1 = k1
    k2 = k2
    NoKey = NoKey
    NoOwner = NoOwner
    NoQuote = NoQuote
    Requests = {r1, r2}
    IdemKeys = {k1, k2}
    Owners <- MCOwners
    Amounts <- MCAmounts
    Quotes <- MCQuotes
    Grants <- MCGrants
    Events <- MCEvents
    MaxPerTick = 1
    RetryFirst = 1
    RetryAgain = 1
    Sla = 2
    MaxNow = 2
    MaxGranted = 6
    MaxPosted = 6
INVARIANTS
    ReconTypeOK
    ReportedWins
    CaseKeepsDoubt
    NothingForgotten
PROPERTY CasesClose
CHECK_DEADLOCK FALSE
