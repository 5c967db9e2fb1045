SPECIFICATION FairSpec
CONSTANTS
    Environments <- OneMissing
    MaxKeys = 1
    MaxReadings = 2
INVARIANTS
    CompleteProgramLives
    ExitsAlone
    FanFollowsTemperature
PROPERTY
    StopEnds
CHECK_DEADLOCK FALSE
