CONSTANTS
    a = a
    b = b
    None = None
    Obj <- TwoObjects
    MaxRefs = 1
    MaxSends = 1
    MaxRequests = 2
    Reused = {}
    CallbackSets <- Receiving
SPECIFICATION ReqSpec
SYMMETRY Symmetry
INVARIANTS
    LoopOutlivesSockets
    UnsafeOnlyLeftOpen
    EarlyOnlyStale
CHECK_DEADLOCK FALSE
