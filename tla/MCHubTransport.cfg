CONSTANTS
    h1 = h1
    c1 = c1
    HostTasks = {h1}
    CellTasks = {c1}
    Quota <- MCQuota
    Slots = {s1}
    RingCapacity = 1
    Kinds <- MCKinds
    MayClose = {"host"}
    MayDie = {"cell"}
SPECIFICATION FairTransportSpec
INVARIANTS
    
    ArrivesIntact
    OutcomeHonest
PROPERTIES
    EveryFrameIsRead
    EverySendEnds
CHECK_DEADLOCK FALSE
