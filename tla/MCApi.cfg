CONSTANTS
    Tables = {"t1", "t2"}
    Names = {"T"}
    Lists <- MCLists
    Subjects = {"s1", "s2"}
    SUBJECT_LEN = 2
    Outcomes <- MCOutcomes
    API_MAX_VARS = 2
    MAX_CALLS = 6
    NULL = NULL
    SUBJECT_BYTES = 2
    BATCH_CAP = 1
    OUT_CAP = 1
    MAX_VARS = 1
    OutputLengths = {0, 1}
SPECIFICATION ApiSpec
INVARIANT RefsExact
INVARIANT NamesResolve
INVARIANT CaptureRight
INVARIANT BatchExact
INVARIANT WritesInside
CHECK_DEADLOCK FALSE
