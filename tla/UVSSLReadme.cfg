CONSTANTS
    Sizes = {1}
    MaxWrites = 1
    CallbackSets = {{"handshake", "read", "write", "error"}}
    Answers = {TRUE}
    Certificates <- Presented
    Hostname <- Server
SPECIFICATION ReadmeSpec
PROPERTIES
    ClosedByScript
CHECK_DEADLOCK FALSE
