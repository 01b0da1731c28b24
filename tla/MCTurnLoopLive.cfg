SPECIFICATION FairSpec
CONSTANTS
    Duplex = FALSE
    Shapes <- AnsweringShapes
    RepeatIDs = FALSE
    ToolsMayFail = FALSE
    MaxTurns = 3
    MaxInterrupts = 1
    MaxCalls = 2
    MaxReplies = 0
    OutCap = 1
    InboxCap = 4
    ToolCap = 1
PROPERTY EveryTurnSettled
CHECK_DEADLOCK FALSE
