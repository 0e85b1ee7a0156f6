CONSTANTS
    a = a
    b = b
    c1 = c1
    c2 = c2
    c3 = c3
    s1 = s1
    s2 = s2
    Sides = {a, b}
    Initiator = a
    Callers = {c1}
    Streamers = {s1}
    Home <- MCHomeOf
    MaxPending = 1
    WireCapacity = 1
    TunnelCapacity = 1
    Items = 1
    IdSpace = 16
    MayClose = {a}
    MayExit = {b}
SPECIFICATION FairSpec
PROPERTIES
    
    PeerExitEndsRun
CHECK_DEADLOCK FALSE
