CONSTANTS
    MaxPeers = 2
    IdSpace = 8
    Launches = 3
    Calls = 1
    Incompatible = {}
    Serial = TRUE
    HostMayDie = TRUE
SPECIFICATION FairSpec
INVARIANTS
    
    ActivePeersExact
    CallbackOnlyWhenGone
    ReadyCellServes

    
CHECK_DEADLOCK FALSE
