SPECIFICATION Spec
CONSTANTS
    Workers = {w1, w2}
    App = app
    Stimuli <- AllStimuli
    Weight <- MCWeight
    MaxStimuli = 6
SYMMETRY WorkerSymmetry
CHECK_DEADLOCK FALSE
INVARIANTS
    AnswerIsOwn
    TextModeAtRest
    TextsIntact
    BalanceTextedIfAsked
    AnsweredCallIsHeard
