SPECIFICATION Spec
CONSTANTS
    r1 = r1
    r2 = r2
    r3 = r3
    k1 = k1
    k2 = k2
    k3 = k3
    NoKey = NoKey
    NoOwner = NoOwner
    Requests <- MCRequests
    IdemKeys <- MCIdemKeys
    Owners <- MCOwners
    Amounts <- MCAmountsBelowOne
    Quotes <- MCQuotesBelowOne
    Grants <- MCGrantsBelowOne
    MaxGranted = 5
    MaxPosted = 6
INVARIANT SettledBalanced
CHECK_DEADLOCK FALSE
