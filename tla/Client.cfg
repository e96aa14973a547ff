CONSTANTS
    a = a
    b = b
    c = c
    Origins = {a, b, c}
    Secure = {a, b}
    Start = a
    Limit = 2
    ConnectLimit = 4
    Silence = 1
    MaxInterim = 1
    MaxReads = 1
    Setups <- MCSetups
SPECIFICATION Spec
INVARIANTS
    NoDesync
    HostMatchesPeer
    CredentialsStayHome
    PolicyBeforeDial
    RewrittenIsBare
    OneReplayPerHop
    CallEndsInTime
CHECK_DEADLOCK FALSE
