CONSTANTS
    Sizes = {2}
    MaxWrites = 1
    CallbackSets <- Talking
    Answers = {TRUE}
    Certificates <- Certs
    Hostname <- WEX
SPECIFICATION FairSpec
PROPERTIES
    HandshakeEnds
    WriteArrives
    ClosePropagates
CHECK_DEADLOCK FALSE
