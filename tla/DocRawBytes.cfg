CONSTANTS
    BodyLen = 4
    Surplus = 2
    HEAD_BUF_SIZE = 3
    Retries = TRUE
    MaxBodies = {4}
SPECIFICATION Spec
INVARIANT OnlySocketBytes
CHECK_DEADLOCK FALSE
