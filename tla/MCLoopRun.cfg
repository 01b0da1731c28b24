SPECIFICATION FairSpec
CONSTANTS
    KernelCap = 1
    EventCap = 1
    PublicCap = 1
    MaxItems = 5
    RunScripts <- MCRunScripts
    TurnScripts <- MCTurnScripts
    MaxCalls = 2
INVARIANTS
    TypeOK
    PublishedInOrder
    WholeTurn
    QuietBetweenCalls
PROPERTIES
    CallEnds
CHECK_DEADLOCK FALSE
