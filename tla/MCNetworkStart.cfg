SPECIFICATION FairSpec
CONSTANTS
    ch11 = ch11
    ch15 = ch15
    Channels = ch11
    ChannelLists <- MCChannelLists
    MaxFaults = 3
    NoAnswer = NoAnswer
INVARIANTS
    CleanStartConfigures
    CleanStartSucceeds
PROPERTY
    StartEnds
CHECK_DEADLOCK FALSE
