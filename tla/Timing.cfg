\* A few ticks of time are enough for every order of the bounds: the connect
\* timeout before, at and after the total, both before, at and after what
\* resolution and each attempt take, and the total before, at and after each
\* silence limit.
CONSTANTS
    NEVER = NEVER
    AttemptTimeout = 2
    ConnectTimeouts = {NEVER, 1, 4}
    Totals = {NEVER, 0, 3, 6}
    MaxResolve = 4
    MaxAddresses = 3
    SocketTimeouts = {0, 2}
    HeadSilence = 3
    StreamSilence = 4
    TICK_MIN = 1
    Requests <- MCRequests
    MaxReads = 3
    MaxPause = 3
SPECIFICATION BudgetsSpec
INVARIANTS
    DialEndsInTime
    EndsInTime
    SilenceIsReal
    WritesOnce
PROPERTY EveryCallReturns
