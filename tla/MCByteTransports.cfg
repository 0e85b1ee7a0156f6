CONSTANTS
    t1 = t1
    t2 = t2
    t3 = t3
    Tasks = {t1, t2, t3}
    WithBody = {t1, t2}
    NoTask = NoTask
    CLOSE = CLOSE
    StreamCap = 2
    QueueCap = 1
    Cancels = TRUE
    Breaks = TRUE
    Links <- AllLinks
SPECIFICATION FairLinkSpec
INVARIANTS
    FramesIntact
    ClosedIsComplete
PROPERTIES
    EndsAreTold
CHECK_DEADLOCK FALSE
