CONSTANTS
    MaxTickets = 2
    MaxOutstanding = 2
    ChunkCap = 1
    Replayable = {0}
    MaxBody = 1
    MaxReads = 0
    Silence = 1
    MaxCancels = 1
    Holders = {0, 1}
SPECIFICATION ReadingSpec
PROPERTIES
    EveryRequestEnds
CHECK_DEADLOCK FALSE
