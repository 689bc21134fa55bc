CONSTANTS
    a = a
    None = None
    Obj <- OneObject
    MaxRefs = 2
    MaxWrites = 2
    MaxAddresses = 2
    CallbackSets <- AllOrNone
    OnChoices = {TRUE, FALSE}
SPECIFICATION AddrFairSpec
INVARIANTS
    AddrIInv
    StaleOnlyIfAskedEarly
    PeerIsCurrent
PROPERTIES
    CloseCompletes
CHECK_DEADLOCK FALSE
