SPECIFICATION Spec
CONSTANTS
    SettledHistoryLimit = 2
    SystemDeltas = 1
    MaxDeltas = 7
    MaxStream = 2
    MaxControls = 2

INVARIANT ToolMessageWhole
CHECK_DEADLOCK FALSE
