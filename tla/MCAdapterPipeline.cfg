SPECIFICATION FairSpec
CONSTANTS
    Workers = {w1, w2}
    Others = {main}
    CmdIds = {AF_DATA_REQUEST_SRSP}
    ChanInCap = 1
    ChanOutCap = 1
    MaxMessages = 2
    CallsPerMessage = 1
    MaxCalls = 2
    EmptyCommand = EmptyCommand
    Nullopt = Nullopt
    NoJob = NoJob
PROPERTIES
    ImplementsSyncRequest
    Drains
CHECK_DEADLOCK FALSE
