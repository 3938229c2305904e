SPECIFICATION Spec
CONSTANTS
    s1 = s1
    s2 = s2
    Keys <- MCStrings
    Vals <- MCStrings
    Tables <- MCTables
    MaxBuckets = 6
    HASH_INSERT_SEC = HASH_INSERT_SEC
    HASH_EXIST = HASH_EXIST
    HASH_OVERWRITE = HASH_OVERWRITE
    HASH_NOEXIST = HASH_NOEXIST
    Full <- MCError
    InvalidState <- MCError
    OutOfMemory <- MCError
    DeserializationError <- MCError
    Buckets <- MCBuckets
    Times <- MCTimes
INVARIANT TypeOK
INVARIANT TestsPass
INVARIANT ReferenceMatchesTable
