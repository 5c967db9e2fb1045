SPECIFICATION Spec
CONSTANTS
    Workers = {w1, w2}
    App = app
    Stimuli <- Calls
    Weight <- One
    MaxStimuli = 2
CHECK_DEADLOCK FALSE
INVARIANT HangUpStopsTones
