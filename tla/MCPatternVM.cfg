SPECIFICATION FairSpec
CONSTANTS
    MAX_CAPS = 2
    MAX_VARS = 2
    MAX_LOOPS = 3
    COUNT_MAX = 15
    MAX_RUNS = 2
    KeepChoices = FALSE
    Modes = {TRUE}
    Ips <- MCIps
    Lens <- MCLens
    Programs <- MCPrograms
    Subjects <- MCSubjects
    Tables <- MCTables
INVARIANTS
    StoreTypeOK
    BasesOrdered
    Restoration
    ReplayIsLoop
    LiveDepthCovers
    FirstOutcome
    AbandonedWritesUndone
PROPERTIES
    PopRestores
    StoreSpec
    Terminates
