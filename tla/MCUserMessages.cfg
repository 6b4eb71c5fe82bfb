SPECIFICATION Spec
CONSTANTS
    User <- MCUser
    Sends <- MCSends
    MaxFiles = 1
    MaxObjects = 2
INVARIANTS
    
    LockAccounted
PROPERTY SendReturns
CHECK_DEADLOCK FALSE
