SPECIFICATION FairSpec
CONSTANTS
    Thread = {t1}
    Worker = {w1, w2}
    QueueSize = 3
    Names <- MCNames
    MaxCalls = 4
    MaxStuck = 1
INVARIANTS
    EachCallOnce
    TakenInOrder
    
    
PROPERTY
    QueueDrains
