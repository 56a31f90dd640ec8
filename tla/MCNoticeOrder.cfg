CONSTANTS
    s1 = s1
    s2 = s2
    Streams = {s1}
    ChanCap = 2
    MaxRequest = 2
    Cap = 2
    MaxSeq = 4
    MaxCall = 2
SPECIFICATION Spec
INVARIANTS
    TypeOK
    InOrder
    NothingVanishes
    NoOrphanCallback
CHECK_DEADLOCK FALSE
