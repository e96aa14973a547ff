SPECIFICATION Spec
CONSTANTS
    Radix = 2
    SIZE_MAX = 2
    MAX_CHUNK_SIZE_DIGITS = 2
    MAX_CHUNK_EXTENSION = 2
    MAX_TRAILER_SECTION = 3
    Reads <- MCReads
    Outputs = {1, 3}
    MaxRetries = 2
INVARIANTS
    SplitsDoNotShow
    MetadataIsBounded
PROPERTIES
    EveryCallProgresses
