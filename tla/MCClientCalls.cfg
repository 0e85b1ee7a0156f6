CONSTANTS
    Kinds = {"ts", "swift"}
    c1 = c1
    c2 = c2
    Callers = {c1, c2}
    Nobody = Nobody
    MaxOdd = 1
    MaxWord = 255
    DescBounds <- MCDescBounds
    DescLimits <- MCDescLimits
    ControlIds <- MCControlIds
    InlineSize = 16
    HashBits = 14
    FnvOffset = 8997
    FnvPrime = 435
    NameBytes = {97, 98}
    WordBits = 15
    SafeBits = 12
    IntBits <- MCIntBits
    Methods <- MCMethods
    MaxSample = 300
SPECIFICATION FairSpec
INVARIANTS
    FramesReadAlike
    AnswersReadAlike
    SettledOnce
PROPERTIES
    CallsEnd
CHECK_DEADLOCK FALSE
