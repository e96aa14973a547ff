SPECIFICATION Spec
CONSTANTS
    Contexts <- MCContexts
    Radix = 2
    SIZE_MAX = 2
    MAX_CHUNK_SIZE_DIGITS = 3
    MAX_CHUNK_EXTENSION = 7
    MAX_TRAILER_SECTION = 5
    MAX_HEADERS = 3
    U64_MAX = 11
    GROUPS = 4
    GROUP_DIGITS = 2
    OCTETS = 2
    U16_MAX = 12
    HTTP_PORT = 1
    HTTPS_PORT = 2
INVARIANTS
    DecodesTheLanguage
    ParsesTheHead
    LinesMeanTheirList
    KeptMeansAgreed
    ParsesTheUrl
    HostNamesTheOrigin
    ResolvesAsRfc
    WrittenIsRead
