SPECIFICATION Spec
CONSTANTS
    m1 = m1
    m2 = m2
    Macs <- MCMacs
    Addrs <- MCAddrs
    Workers = {w1, w2}
    Main = main
    Files <- MCFiles
    NoMac = NoMac
    MaxFrames = 3
    MaxRestarts = 1
INVARIANTS
    TypeOK
    AddressesResolve
    HalfBuiltOnlyInJoin
    RegistryMatchesNetwork
    MessageFromItsSender
CHECK_DEADLOCK FALSE
