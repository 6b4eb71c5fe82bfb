SPECIFICATION Spec
CONSTANTS
    Daemon <- MCDaemon
    Tool <- MCTool
    Script <- MCScript
    Client <- MCClient
    Configured <- MCConfigured
    None = None
    Stale = Stale
    MaxFiles = 2
    MaxStarts = 3
INVARIANTS
    OneDaemon
    Reachable
    

    
CHECK_DEADLOCK FALSE
