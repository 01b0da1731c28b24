SPECIFICATION Spec
CONSTANTS
    SettledHistoryLimit = 2
    SystemDeltas = 1
    MaxDeltas = 7
    MaxStream = 2
    MaxControls = 2
INVARIANTS
    TypeOK
    OpenBatchInOnePiece
    HistorySettled
PROPERTIES
    ResponsesRebuiltWhole
    BatchesRebuiltWhole
CHECK_DEADLOCK FALSE
