CONSTANTS
    SlotCount = 3
    LinkCount = 2
    Quota = 2
    RingCapacity = 2
SPECIFICATION Spec
INVARIANTS
    OwnershipExact
    PayloadsArriveIntact
