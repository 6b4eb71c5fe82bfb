SPECIFICATION CellSpec
CONSTANTS
    MaxThreads = 2
INVARIANTS
    CellFollows
    WaiterReachable
PROPERTIES
    WaiterEnds
    MessagesSeen
CHECK_DEADLOCK FALSE
