CONSTANTS
    Tasks = {t1}
    Channels = {c1, c2, c3}
    Shapes <- MCShapesWithEosOnly
    InitialCredits = 1
    MaxCredits = 2
    MaxTracked = 2
    MaxTombstones = 2
    Grants = {1}
    MaxFrames = 2
SPECIFICATION Spec
SYMMETRY Symmetry
VIEW View
INVARIANTS
    TombstonesExact
PROPERTIES
    KeepsHalfClose
CHECK_DEADLOCK FALSE
