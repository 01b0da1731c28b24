SPECIFICATION Spec
CONSTANTS
    FailKinds = {"audio", "cancel", "cont", "result"}
    Scenarios <- MCScenarios
    MaxResponses = 6
    MaxBatches = 2
    IngressCap = 3
    LaneCap = 1
    Retention = 2
    MinSpeech = 2
    Hangover = 1
INVARIANTS
    TypeOK
    AudioInOrder
    ToolEventsCounted
    OneCancelPerResponse
    ContinuationSpared
    NoOutputAfterCancel
    ResultsBeforeRequest
    FailuresReported
    Settled
CHECK_DEADLOCK FALSE
