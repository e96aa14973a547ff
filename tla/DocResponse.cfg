CONSTANTS
    MaxRequests = 3
    MaxSockets = 3
    MaxTimeouts = 1
    MaxConns = 2
    MaxCq = 1
    RING = 2
    ResponseCap = 2
    RearmCap = 1
    Worlds <- MCBreakingWorlds
SPECIFICATION Spec
INVARIANT
    ResponseIsForId
CHECK_DEADLOCK FALSE
