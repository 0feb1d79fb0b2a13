SPECIFICATION MCSpec
CONSTANTS
    v1 = v1
    NULL = NULL
    Keys <- MCKeys
    Values <- MCValues
    Hash <- MCHash
    INITIAL_CAPACITY = 8
    MAX_CAPACITY = 16
    MAX_SIZE = 8
INVARIANT IsMap
