CONSTANTS
    BodyLen = 4
    Surplus = 2
    HEAD_BUF_SIZE = 6
    Retries = FALSE
    MaxBodies = {0, 3, 4}
SPECIFICATION Spec
INVARIANTS
    BodyIsTheMessages
    CleanMeansExact
CHECK_DEADLOCK FALSE
