CONSTANTS
    server = server
    None = None
    Obj <- TheServer
    MaxRefs = 1
    MaxSends = 2
    CallbackSets <- AllCallbacks
SPECIFICATION EchoSpec
INVARIANTS
    CloseNeverAborts
CHECK_DEADLOCK FALSE
