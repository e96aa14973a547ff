CONSTANTS
    MaxTickets = 2
    MaxOutstanding = 1
    ChunkCap = 1
    Replayable = {0}
    MaxBody = 1
    MaxReads = 0
    Silence = 1
    MaxCancels = 2
    Holders = {0}
SPECIFICATION FairSpec
INVARIANTS
    NoDesync
    StreamShape
PROPERTY DropReturns
CHECK_DEADLOCK FALSE
