SPECIFICATION Spec
CONSTANTS
    r1 = r1
    r2 = r2
    r3 = r3
    k1 = k1
    k2 = k2
    k3 = k3
    NoKey = NoKey
    NoOwner = NoOwner
    Requests <- MCRequests
    IdemKeys <- MCIdemKeys
    Owners <- MCOwners
    Amounts <- MCAmounts
    Quotes <- MCQuotes
    Grants <- MCGrants
    MaxGranted = 8
    MaxPosted = 5
INVARIANT ReversedNetsToZero
CHECK_DEADLOCK FALSE
