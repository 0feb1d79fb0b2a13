SPECIFICATION Spec
CONSTANTS
    MAX_CAPS = 2
    MAX_VARS = 2
    MAX_LOOPS = 3
    COUNT_MAX = 15
    MAX_RUNS = 1
    KeepChoices = FALSE
    Modes = {TRUE}
    Ips <- MCIps
    Lens <- MCLens
    Programs <- MCSpanBodyPrograms
    Subjects <- MCSubjects
    Tables <- MCTables
INVARIANT FirstOutcome
