SPECIFICATION Spec
CONSTANTS
    w1 = w1
    w2 = w2
    c1 = c1
    c2 = c2
    c3 = c3
    b1 = b1
    b2 = b2
    b3 = b3
    s1 = s1
    s2 = s2
    NoConn = NoConn
    NoSlot = NoSlot
    Workers = {w1}
    Conns = {c1, c2, c3}
    Bindings = {b1, b2}
    Slots = {s1}
    Dedicated = {s1}
    MayAbort = FALSE
    MaxVersion = 2
SYMMETRY MCSymmetry
INVARIANT ActiveWins
CHECK_DEADLOCK FALSE
