CONSTANTS
    Values = {v1, v2}
    NoEntry = NoEntry
    Capacity = 2
    MaxPushes = 5
SPECIFICATION FairRingSpec
PROPERTIES
    RefinesQueue
    EveryEntryDequeued
