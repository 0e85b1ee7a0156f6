CONSTANTS
    NumClasses = 2
    FirstSlot <- MCFirstSlot
    HostThreads = {h}
    Cells = {p, q}
    Mortals = {p}
    NO_OWNER = NO_OWNER
    FREE_LIST_END = FREE_LIST_END
    QuiesceFirst = TRUE
    MaxAllocs = 3
    HubSizeClasses <- MCHubSizeClasses
    HubConfigs <- MCHubConfigs
    SegmentConfigs <- MCSegmentConfigs
SPECIFICATION Spec
VIEW View
INVARIANTS
    
    PayloadIntact
    NoSlotLost
    SlotsLieApart
CHECK_DEADLOCK FALSE
