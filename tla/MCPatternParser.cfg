CONSTANTS
    VNumber <- MCVNumber
    Abbreviates <- MCAbbreviates
    Sources <- MCSources
    MAX_TOKENS = 4
    MAX_VARS = 2
    MAX_PARTS = 10
    INT32_MAX = 8
SPECIFICATION Spec
INVARIANT AcceptsLanguage
INVARIANT ParsesToTree
PROPERTY ReturnsUnlessStuck
CHECK_DEADLOCK FALSE
