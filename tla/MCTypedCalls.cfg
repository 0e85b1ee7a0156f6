SPECIFICATION FairSpec
CONSTANTS
    Services = {"Foo", "Bar"}
    NameOf <- TwoNames
    Trait <- TwoTraits
    MethodNames = {"u", "s"}
    Ids = {1, 2, 3, 4}
    Nothing = Nothing
    Procs = {"server"}
    ServerProc = "server"
    Hashes <- TwoHashes
    Calls = {c1, c2}
    Errors <- TwoErrors
    MaxItems = 2
    MaxSets = 1
INVARIANTS RegistryFaithful RightMethod StreamFaithful
PROPERTIES StreamsEnd
CHECK_DEADLOCK FALSE
