SPECIFICATION Spec
CONSTANTS
    FailKinds = {}
    Scenarios <- MCTwoBatches
    MaxResponses = 6
    MaxBatches = 2
    IngressCap = 3
    LaneCap = 1
    Retention = 2
    MinSpeech = 2
    Hangover = 1
INVARIANT OneRequestPerBatch
CHECK_DEADLOCK FALSE
