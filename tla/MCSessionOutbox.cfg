SPECIFICATION FairSpec
CONSTANTS
    OutCap = 2
    Limit = 2
    MaxDeltas = 6
INVARIANTS
    TypeOK
    InProductionOrder
    MustDeliverKept
    Accounted
    QueueBounded
PROPERTIES
    QuietAfterFlush
    SessionFinishes
    PumpDrains
CHECK_DEADLOCK FALSE
