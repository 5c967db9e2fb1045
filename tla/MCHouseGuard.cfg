SPECIFICATION Spec
CONSTANTS
    Workers = {w1, w2}
    Web = web
    Registries <- SomeRegistries
    AbsentAfter = 1
    Weight <- MCWeight
    MaxMessages = 6
    MaxTime = 3
SYMMETRY WorkerSymmetry
CHECK_DEADLOCK FALSE
INVARIANTS
    OffMeansDone
    EmptyHouseIsDark
    LeakShutsWater
PROPERTIES
    OnlyWhenNobodyMoves
