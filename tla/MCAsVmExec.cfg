CONSTANTS
    Programs <- MCFaulty
    Tasks <- MCTasks
    VmExec <- MCVmExec
    VmRegs <- MCVmRegs
    Bytes <- MCBytes
    MAX_CAPS = 3
    MAX_VARS = 3
    MAX_LOOPS = 4
    MAX_CHOICES = 20
    PIKE_THREAD_BUF = 6
    PIKE_DEFER_BUF = 6
    SNOBOL_DFA_MAX_STATES = 12
    MAX_PREFIX = 2
    MAX_FUSION_SEGMENTS = 3
    MAX_LIT_BYTES = 6
    MAX_TRIE_NODES = 7
SPECIFICATION Spec
INVARIANT AsVmExec
