SPECIFICATION Spec
CONSTANTS
    Duplex = TRUE
    Shapes <- DuplexShapes
    RepeatIDs = TRUE
    ToolsMayFail = TRUE
    MaxTurns = 2
    MaxInterrupts = 0
    MaxCalls = 2
    MaxReplies = 2
    OutCap = 1
    InboxCap = 3
    ToolCap = 1
INVARIANTS
    KernelAgrees
    ExecutedOnce
CHECK_DEADLOCK FALSE
