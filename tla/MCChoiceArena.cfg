SPECIFICATION Spec
CONSTANTS
    PAGE_SIZE = 12
    MAX_RECORDS = 4
    Payloads <- MCPayloads
    Records <- MCRecords
INVARIANTS
    DepthExact
    Accounting
PROPERTIES
    IsStack
