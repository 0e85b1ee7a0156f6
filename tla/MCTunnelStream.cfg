CONSTANTS
    a = a
    b = b
    Sides = {a, b}
    Opener = a
    Chunks <- ThreeAndOne
    ChunkLen = 2
    WireCapacity = 2
    TunnelCapacity = 1
    OpenerWaits = TRUE
    MayDrop = {a, b}
    MayDisconnect = TRUE
SPECIFICATION FairSpec
INVARIANTS
    NoByteIsSkipped
    EofIsComplete
PROPERTIES
    ReaderIsTold
CHECK_DEADLOCK FALSE
