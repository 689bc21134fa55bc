CONSTANTS
    a = a
    b = b
    None = None
    Obj <- TwoObjects
    MaxRefs = 1
    MaxWrites = 0
    Made <- OneMade
    MaxLookups = 2
    CallbackSets <- AllSet
    OnChoices = {TRUE, FALSE}
SPECIFICATION SslSpec
INVARIANTS
    SslInv
    SafeUnlessUnresolved
    LookupFindsObject
    HelloFindsListener
    UnsafeOnlyHere
CHECK_DEADLOCK FALSE
