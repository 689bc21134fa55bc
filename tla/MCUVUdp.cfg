CONSTANTS
    a = a
    b = b
    None = None
    Obj <- TwoObjects
    MaxRefs = 1
    MaxSends = 2
    CallbackSets <- AllCallbacks
SPECIFICATION FairSpec
INVARIANTS
    IInv
    FreedOnlyUnpinned
PROPERTIES
    Implements
    CloseCompletes
CHECK_DEADLOCK FALSE
