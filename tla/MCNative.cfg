SPECIFICATION NativeSpec
CONSTANTS
    w1 = w1
    c1 = c1
    b1 = b1
    s1 = s1
    r1 = r1
    NoConn = NoConn
    NoSlot = NoSlot
    Workers = {w1}
    Conns = {c1}
    Bindings = {b1}
    Slots = {s1}
    Dedicated = {s1}
    MayAbort = FALSE
    MaxVersion = 1
    NReqs = {r1}
    NativeBoots = 0
PROPERTY PauseStops
CHECK_DEADLOCK FALSE
