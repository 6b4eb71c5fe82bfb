SPECIFICATION Spec
CONSTANTS
    MaxServers = 2
    MaxPackets = 3
    QueueSize = 2
    RingSize = 1
INVARIANTS
    PacketsInOrder
    Served
PROPERTIES
    StopReturns
CHECK_DEADLOCK FALSE
