SPECIFICATION TerminalSpec
CONSTANTS
    MaxTty = 2
    MaxBinds = 2
INVARIANTS
    
    NoUseAfterFree
PROPERTY TaskEnds
CHECK_DEADLOCK FALSE
