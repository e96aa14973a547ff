SPECIFICATION Spec
CONSTANTS
    Streams <- MCStreams
    RequestMethods = {"GET", "HEAD"}
    HEAD_BUF_SIZE = 10
    MAX_HEAD_SIZE = 12
    MAX_INTERIM_RESPONSES = 1
    MAX_HEADERS = 2
    U64_MAX = 11
INVARIANT HeadIsTheStreams
