SPECIFICATION MCSpec
CONSTANTS
    w1 = w1
    w2 = w2
    c1 = c1
    c2 = c2
    b1 = b1
    b2 = b2
    s1 = s1
    s2 = s2
    s3 = s3
    NoConn = NoConn
    NoSlot = NoSlot
    Workers = {w1, w2}
    Conns = {c1, c2}
    Bindings = {b1, b2}
    Slots = {s1, s2, s3}
    Dedicated = {s1, s3}
    MayAbort = TRUE
    MaxVersion = 4
    ReplicatedVersions = 2
SYMMETRY MCSymmetry
INVARIANTS
    TypeOK
    ExclusiveDedicated
    AloneFailsClosed
PROPERTIES
    LifecycleFollowsMatrix
    ModeLocked
    AloneReadsPublished
    AloneStaysPublished
CHECK_DEADLOCK FALSE
