SPECIFICATION Spec
CONSTANTS
    Duplex = FALSE
    Shapes <- TurnShapes
    RepeatIDs = FALSE
    ToolsMayFail = FALSE
    MaxTurns = 2
    MaxInterrupts = 2
    MaxCalls = 2
    MaxReplies = 0
    OutCap = 2
    InboxCap = 4
    ToolCap = 1
INVARIANTS
    TypeOK
    RequestWellFormed
    UserTurnsInOrder
    HeldTurnsAwaited
    CallsKept
    OneResultPerCall
    ResultsKept
CHECK_DEADLOCK FALSE
