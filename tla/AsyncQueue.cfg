CONSTANTS
    MaxTickets = 3
    MaxOutstanding = 3
    ChunkCap = 2
    Replayable = {}
    MaxBody = 0
    MaxReads = 1
    Silence = 0
    MaxCancels = 1
    Holders = {1}
SPECIFICATION Spec
INVARIANTS
    TypeOK
    PermitPerRequest
    OneLine
    AbortedOnlyIfAsked
    PostedCancelStaysOffWire
PROPERTIES
    ImplementsService
CHECK_DEADLOCK FALSE
