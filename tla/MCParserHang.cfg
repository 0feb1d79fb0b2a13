CONSTANTS
    VNumber <- MCVNumber
    Abbreviates <- MCAbbreviates
    Sources <- MCStuck
    MAX_TOKENS = 1
    MAX_VARS = 2
    MAX_PARTS = 10
    INT32_MAX = 8
SPECIFICATION Spec
PROPERTY Returns
CHECK_DEADLOCK FALSE
