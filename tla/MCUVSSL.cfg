CONSTANTS
    Sizes = {1, 2}
    MaxWrites = 1
    CallbackSets <- Partly
    Answers = {TRUE, FALSE}
    Certificates <- Certs
    Hostname <- WEX
SPECIFICATION Spec
INVARIANTS
    IInv
    AcceptedBeforeUse
    NothingLost
CHECK_DEADLOCK FALSE
