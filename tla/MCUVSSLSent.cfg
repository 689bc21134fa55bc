CONSTANTS
    Sizes = {1, 2}
    MaxWrites = 1
    CallbackSets <- Everything
    Answers = {TRUE}
    Certificates <- Certs
    Hostname <- WEX
SPECIFICATION FairSpec
INVARIANTS
    SentMeansSent
CHECK_DEADLOCK FALSE
