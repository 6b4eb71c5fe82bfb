SPECIFICATION NotifierSpec
CONSTANTS
    Client = {"c1", "c2"}
    Jailhouse = {"c2"}
    Fd = {1, 2, 3}
    MaxThreads = 2
INVARIANTS
    OneNotifier
    WalkSafe
PROPERTY EventsServed
CHECK_DEADLOCK FALSE
