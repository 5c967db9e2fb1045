CONSTANTS
    Workers = {w1, w2}
    Registries <- AllOrAllButOne
    OffList <- ShortOffList
    Weight <- MCWeight
    MaxReports = 4
SPECIFICATION FairSpec
INVARIANTS
    DarkWhenEmpty
    LitWhileMotion
    KitchenFollowsPresence
PROPERTIES
    LightsGoOut
CHECK_DEADLOCK FALSE
