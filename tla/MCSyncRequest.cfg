SPECIFICATION FairSpec
CONSTANTS
    Threads = {t1, t2}
    CmdIds = {AF_DATA_REQUEST_SRSP, ZDO_BIND_SRSP}
    ChanOutCap = 2
    MaxCalls = 3
    EmptyCommand = EmptyCommand
    Nullopt = Nullopt
INVARIANTS
    TypeOK
    ResultIsFresh
    EmptyOnlyIfContended
    QuietCallGetsOwnAnswer
PROPERTIES
    ImplementsSyncCall
    CallReturns
CHECK_DEADLOCK FALSE
