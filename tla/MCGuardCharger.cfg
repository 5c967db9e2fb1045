SPECIFICATION Spec
CONSTANTS
    Workers = {w1}
    Web = web
    Registries <- SomeRegistries
    AbsentAfter = 1
    Weight <- ChargerWeight
    MaxMessages = 2
    MaxTime = 1
CHECK_DEADLOCK FALSE
INVARIANT PlugOffWhenCharged
