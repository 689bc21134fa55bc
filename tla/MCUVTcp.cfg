CONSTANTS
    a = a
    b = b
    None = None
    Obj <- TwoObjects
    MaxRefs = 1
    MaxWrites = 1
    CallbackSets <- AllSet
    OnChoices <- Given
SPECIFICATION Spec
SYMMETRY Symmetry
INVARIANTS
    RefCountExact
    SafeDelivery
    CallbackTargetHeld
    CrashOnlyUnpinned
PROPERTIES
    SelfRefUntilClosed
    CloseReclaims
    NoConnectAfterClose
    Implements
CHECK_DEADLOCK FALSE
