SPECIFICATION FairSpec
CONSTANTS
    MAX_CAPS = 2
    MAX_VARS = 2
    MAX_LOOPS = 3
    COUNT_MAX = 15
    MAX_RUNS = 2
    KeepChoices = TRUE
    Modes = {FALSE}
    Ips <- MCIps
    Lens <- MCLens
    Programs <- MCLegacyPrograms
    Subjects <- MCSubjects
    Tables <- MCTables
INVARIANT FirstOutcome
INVARIANT OutcomeCaptures
PROPERTY Terminates
