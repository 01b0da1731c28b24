SPECIFICATION FairSpec
CONSTANTS
    Duplex = FALSE
    Shapes <- AnsweringShapes
    RepeatIDs = FALSE
    ToolsMayFail = TRUE
    MaxTurns = 2
    MaxInterrupts = 0
    MaxCalls = 1
    MaxReplies = 0
    OutCap = 1
    InboxCap = 4
    ToolCap = 1
PROPERTY EveryTurnSettled
CHECK_DEADLOCK FALSE
