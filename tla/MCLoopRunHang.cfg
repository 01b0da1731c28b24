SPECIFICATION FairSpec
CONSTANTS
    KernelCap = 1
    EventCap = 1
    PublicCap = 1
    MaxItems = 5
    RunScripts <- MCRunScripts
    TurnScripts <- MCTurnScripts
    MaxCalls = 2
PROPERTY CancelledRunReturns
CHECK_DEADLOCK FALSE
